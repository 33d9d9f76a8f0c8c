------------------------- MODULE FleetRegistryProofs -------------------------
(***************************************************************************)
(* The tables of FleetRegistry, for any number of Pis, codes and requests:  *)
(* types, what a bound code guarantees, and that both address pools         *)
(* implement AddressBook.                                                   *)
(***************************************************************************)
EXTENDS FleetRegistry, FiniteSetTheorems, TLAPS

USE DEF Idle, Goto, Fail

(* A request carries what the handler's early returns let through. *)
PiReqOK(r) ==
  /\ req[r].pc \in {"idle", "alloc", "upsert", "ok"}
  /\ req[r].pc # "idle" => req[r].id \in Serials /\ req[r].key \in PiKeys

CuReqOK(r) ==
  /\ req[r].pc # "idle" => req[r].id \in Codes /\ req[r].key \in Keys
  /\ req[r].pc \in {"upsert", "bind", "ok"} => req[r].ip \in Nat

TypeInv ==
  /\ TypeOK
  /\ \A r \in PiReqs : PiReqOK(r)
  /\ \A r \in CuReqs : CuReqOK(r)

(* A step that rewrites one slot keeps the types of all of them. *)
LEMMA ReqType ==
  ASSUME TypeInv, NEW r \in PiReqs \cup CuReqs, NEW v \in ReqState,
         req' = [req EXCEPT ![r] = v]
  PROVE  /\ req' \in [PiReqs \cup CuReqs -> ReqState]
         /\ req'[r] = v
         /\ \A q \in PiReqs \cup CuReqs : q # r => req'[q] = req[q]
BY DEF TypeInv, TypeOK

(* The row counts are natural numbers. *)
LEMMA CountType ==
  ASSUME TypeInv
  PROVE  /\ IsFiniteSet(DOMAIN pis) /\ Count(pis) \in Nat
         /\ IsFiniteSet(DOMAIN customers) /\ Count(customers) \in Nat
<1>1. IsFiniteSet(DOMAIN pis) /\ IsFiniteSet(DOMAIN customers)
  BY FiniteAssumption, FS_Subset DEF TypeInv, TypeOK
<1> QED
  BY <1>1, FS_CardinalityType DEF Count

(* The type invariant survives every step of a Pi's registration. *)
LEMMA PiStepType ==
  ASSUME TypeInv, NEW r \in PiReqs, PiStep(r)
  PROVE  TypeInv'
<1>1. r \in PiReqs \cup CuReqs /\ r \notin CuReqs
  BY SlotsAssumption
<1>2. req[r] \in ReqState /\ PiReqOK(r)
  BY <1>1 DEF TypeInv, TypeOK
<1> DEFINE Others == \A q \in PiReqs \cup CuReqs : q # r => req'[q] = req[q]
<1>3. CASE \E i \in SerialsOf[r], k \in PiKeys : PiLookup(r, i, k)
  <2> PICK i \in SerialsOf[r], k \in PiKeys : PiLookup(r, i, k)
    BY <1>3
  <2>1. i \in Serials
    BY SerialsOfAssumption
  <2>2. PICK pc \in {"alloc", "upsert"}, ip \in Nat \cup {BlankIP} :
          req' = [req EXCEPT ![r] =
                    [Idle EXCEPT !.pc = pc, !.id = i, !.key = k, !.ip = ip]]
    <3>1. i \in DOMAIN pis => pis[i].ip \in Nat \cup {BlankIP}
      BY DEF TypeInv, TypeOK, PiRow
    <3> QED
      BY <3>1 DEF PiLookup
  <2>3. /\ req' \in [PiReqs \cup CuReqs -> ReqState] /\ Others
        /\ PiReqOK(r)'
    BY <1>1, <2>1, <2>2, ReqType DEF ReqState, PiReqOK
  <2> QED
    BY <1>1, <2>3 DEF PiLookup, TypeInv, TypeOK, PiReqOK, CuReqOK
<1>4. CASE PiAlloc(r)
  <2>1. /\ req' \in [PiReqs \cup CuReqs -> ReqState] /\ Others
        /\ PiReqOK(r)'
    <3>1. CASE req' = [req EXCEPT ![r] = Idle]
      BY <1>1, <3>1, ReqType DEF ReqState, PiReqOK
    <3>2. ASSUME NEW n \in Nat,
                 req' = [req EXCEPT ![r].pc = "upsert", ![r].ip = n]
          PROVE  /\ req' \in [PiReqs \cup CuReqs -> ReqState] /\ Others
                 /\ PiReqOK(r)'
      <4>1. req' = [req EXCEPT ![r] = [req[r] EXCEPT !.pc = "upsert", !.ip = n]]
        BY <3>2, <1>1 DEF TypeInv, TypeOK
      <4> QED
        BY <1>1, <1>2, <1>4, <4>1, ReqType DEF ReqState, PiReqOK, PiAlloc
    <3> QED
      BY <3>1, <3>2, <1>4, CountType DEF PiAlloc
  <2> QED
    BY <1>1, <1>4, <2>1 DEF PiAlloc, TypeInv, TypeOK, PiReqOK, CuReqOK
<1>5. CASE PiUpsert(r)
  <2>1. /\ req' \in [PiReqs \cup CuReqs -> ReqState] /\ Others
        /\ PiReqOK(r)'
    <3>1. CASE req' = [req EXCEPT ![r] = Idle]
      BY <1>1, <3>1, ReqType DEF ReqState, PiReqOK
    <3>2. CASE req' = [req EXCEPT ![r].pc = "ok"]
      <4>1. req' = [req EXCEPT ![r] = [req[r] EXCEPT !.pc = "ok"]]
        BY <3>2
      <4> QED
        BY <1>1, <1>2, <1>5, <4>1, ReqType DEF ReqState, PiReqOK, PiUpsert
    <3> QED
      BY <3>1, <3>2, <1>5 DEF PiUpsert
  <2>2. DOMAIN pis' \subseteq Serials /\ pis' \in [DOMAIN pis' -> PiRow]
    <3>1. CASE pis' = pis
      BY <3>1 DEF TypeInv, TypeOK
    <3>2. ASSUME NEW row \in PiRow, pis' = Put(pis, req[r].id, row)
          PROVE  DOMAIN pis' \subseteq Serials /\ pis' \in [DOMAIN pis' -> PiRow]
      <4>1. req[r].id \in Serials
        BY <1>2, <1>5 DEF PiReqOK, PiUpsert
      <4>2. DOMAIN pis \subseteq Serials /\ pis \in [DOMAIN pis -> PiRow]
        BY DEF TypeInv, TypeOK
      <4>3. LET t == Put(pis, req[r].id, row)
            IN  DOMAIN t \subseteq Serials /\ t \in [DOMAIN t -> PiRow]
        BY <4>1, <4>2 DEF Put
      <4> QED
        BY <3>2, <4>3
    <3>3. req[r].id \in DOMAIN pis =>
            [pis[req[r].id] EXCEPT !.key = req[r].key] \in PiRow
      BY <1>2, <1>5 DEF TypeInv, TypeOK, PiReqOK, PiUpsert, PiRow
    <3>4. [ip |-> req[r].ip, key |-> req[r].key, ep |-> NoEp,
           seen |-> FALSE, load |-> 0] \in PiRow
      BY <1>2, <1>5, CapsAssumption DEF PiReqOK, PiUpsert, PiRow, ReqState
    <3> QED
      BY <3>1, <3>2, <3>3, <3>4, <1>5 DEF PiUpsert
  <2> QED
    BY <1>1, <1>5, <2>1, <2>2 DEF PiUpsert, TypeInv, TypeOK, PiReqOK, CuReqOK
<1> QED
  BY <1>3, <1>4, <1>5 DEF PiStep

(* The type invariant survives every step of a customer's registration. *)
LEMMA CuStepType ==
  ASSUME TypeInv, NEW r \in CuReqs, CuStep(r)
  PROVE  TypeInv'
<1>1. r \in PiReqs \cup CuReqs /\ r \notin PiReqs
  BY SlotsAssumption
<1>2. req[r] \in ReqState /\ CuReqOK(r)
  BY <1>1 DEF TypeInv, TypeOK
<1> DEFINE Others == \A q \in PiReqs \cup CuReqs : q # r => req'[q] = req[q]
           ReqOK  == /\ req' \in [PiReqs \cup CuReqs -> ReqState] /\ Others
                     /\ CuReqOK(r)'
<1>3. ASSUME req' = [req EXCEPT ![r] = Idle]
      PROVE  ReqOK
  BY <1>1, <1>3, ReqType DEF ReqState, CuReqOK
<1>4. ASSUME NEW pc \in {"pick", "upsert", "bind", "ok"}, Goto(r, pc),
             req[r].pc # "idle", pc # "pick" => req[r].ip \in Nat
      PROVE  ReqOK
  <2>1. req' = [req EXCEPT ![r] = [req[r] EXCEPT !.pc = pc]]
    BY <1>4
  <2>2. [req[r] EXCEPT !.pc = pc] \in ReqState
    BY <1>2 DEF ReqState
  <2>3. /\ req' \in [PiReqs \cup CuReqs -> ReqState] /\ Others
        /\ req'[r] = [req[r] EXCEPT !.pc = pc]
    BY <1>1, <2>1, <2>2, ReqType
  <2>4. /\ req'[r].pc = pc /\ req'[r].id = req[r].id
        /\ req'[r].key = req[r].key /\ req'[r].ip = req[r].ip
    BY <1>2, <2>3 DEF ReqState
  <2> QED
    BY <1>2, <1>4, <2>3, <2>4 DEF CuReqOK
<1>5. ASSUME ReqOK, UNCHANGED <<pis, customers, codes>>
      PROVE  TypeInv'
  BY <1>1, <1>5 DEF TypeInv, TypeOK, PiReqOK, CuReqOK
<1>6. CASE \E c \in CodesOf[r], k \in Keys : CuValidate(r, c, k)
  <2> PICK c \in CodesOf[r], k \in Keys : CuValidate(r, c, k)
    BY <1>6
  <2>1. c \in Codes
    BY CodesOfAssumption
  <2>2. ReqOK
    BY <1>1, <2>1, ReqType DEF CuValidate, ReqState, CuReqOK
  <2> QED
    BY <1>5, <2>2 DEF CuValidate
<1>7. CASE CuLookup(r)
  <2>1. ReqOK
    <3>1. ASSUME NEW c, c = req[r].id, c \in DOMAIN customers,
                 req' = [req EXCEPT ![r].pc = "pi", ![r].ip = customers[c].ip,
                                    ![r].pi = customers[c].pi]
          PROVE  ReqOK
      <4>1. customers[c].ip \in Nat /\ customers[c].pi \in Serials \cup {NoPi}
        BY <3>1 DEF TypeInv, TypeOK, CustomerRow
      <4>2. req' = [req EXCEPT ![r] =
                      [req[r] EXCEPT !.pc = "pi", !.ip = customers[c].ip,
                                     !.pi = customers[c].pi]]
        BY <3>1, <1>1 DEF TypeInv, TypeOK
      <4> QED
        BY <1>1, <1>2, <1>7, <4>1, <4>2, ReqType DEF ReqState, CuReqOK, CuLookup
    <3> QED
      BY <3>1, <1>4, <1>7 DEF CuLookup
  <2> QED
    BY <1>5, <1>7, <2>1 DEF CuLookup
<1>8. CASE CuPi(r)
  <2>1. ReqOK
    <3>1. ASSUME NEW i, i = req[r].pi, i \in DOMAIN pis,
                 Goto(r, "alloc")
          PROVE  ReqOK
      <4>1. req' = [req EXCEPT ![r] = [req[r] EXCEPT !.pc = "alloc"]]
        BY <3>1, <1>1 DEF TypeInv, TypeOK, Goto
      <4> QED
        BY <1>1, <1>2, <1>8, <4>1, ReqType DEF ReqState, CuReqOK, CuPi
    <3> QED
      BY <3>1, <1>4, <1>8 DEF CuPi
  <2> QED
    BY <1>5, <1>8, <2>1 DEF CuPi
<1>9. CASE CuPick(r)
  <2>1. ReqOK
    <3>1. ASSUME NEW i \in Serials \cup {NoPi},
                 req' = [req EXCEPT ![r].pc = "alloc", ![r].pi = i]
          PROVE  ReqOK
      <4>1. req' = [req EXCEPT ![r] =
                      [req[r] EXCEPT !.pc = "alloc", !.pi = i]]
        BY <3>1, <1>1 DEF TypeInv, TypeOK
      <4> QED
        BY <1>1, <1>2, <1>9, <4>1, ReqType DEF ReqState, CuReqOK, CuPick
    <3>2. \A i \in LeastLoaded : i \in Serials
      BY DEF LeastLoaded, Eligible, TypeInv, TypeOK
    <3>3. CASE req' = [req EXCEPT ![r].pc = "alloc", ![r].pi = NoPi, ![r].blind = TRUE]
      <4>1. req' = [req EXCEPT ![r] =
                      [req[r] EXCEPT !.pc = "alloc", !.pi = NoPi, !.blind = TRUE]]
        BY <3>3, <1>1 DEF TypeInv, TypeOK
      <4> QED
        BY <1>1, <1>2, <1>9, <4>1, ReqType DEF ReqState, CuReqOK, CuPick
    <3> QED
      BY <3>1, <3>2, <3>3, <1>3, <1>9 DEF CuPick
  <2> QED
    BY <1>5, <1>9, <2>1 DEF CuPick
<1>10. CASE CuAlloc(r)
  <2>1. ReqOK
    <3>1. ASSUME NEW n \in Nat,
                 req' = [req EXCEPT ![r].pc = "upsert", ![r].ip = n]
          PROVE  ReqOK
      <4>1. req' = [req EXCEPT ![r] = [req[r] EXCEPT !.pc = "upsert", !.ip = n]]
        BY <3>1, <1>1 DEF TypeInv, TypeOK
      <4> QED
        BY <1>1, <1>2, <1>10, <4>1, ReqType DEF ReqState, CuReqOK, CuAlloc
    <3>2. req[r].ip # BlankIP => req[r].ip \in Nat
      BY <1>2 DEF ReqState
    <3> QED
      BY <3>1, <3>2, <1>3, <1>4, <1>10, CountType DEF CuAlloc
  <2> QED
    BY <1>5, <1>10, <2>1 DEF CuAlloc
<1>11. CASE CuUpsert(r)
  <2>1. req[r].id \in Codes /\ req[r].key \in Keys /\ req[r].ip \in Nat
    BY <1>2, <1>11 DEF CuUpsert, CuReqOK
  <2>2. ReqOK
    BY <2>1, <1>3, <1>4, <1>11 DEF CuUpsert
  <2>3. DOMAIN customers' \subseteq Codes
        /\ customers' \in [DOMAIN customers' -> CustomerRow]
    <3>1. CASE customers' = customers
      BY <3>1 DEF TypeInv, TypeOK
    <3>2. ASSUME NEW ip \in Nat,
                 customers' = Put(customers, req[r].id,
                                  [ip |-> ip, key |-> req[r].key, pi |-> req[r].pi])
          PROVE  DOMAIN customers' \subseteq Codes
                 /\ customers' \in [DOMAIN customers' -> CustomerRow]
      <4>1. [ip |-> ip, key |-> req[r].key, pi |-> req[r].pi] \in CustomerRow
        BY <1>2, <2>1 DEF CustomerRow, ReqState
      <4>2. DOMAIN customers \subseteq Codes
            /\ customers \in [DOMAIN customers -> CustomerRow]
        BY DEF TypeInv, TypeOK
      <4>3. LET t == Put(customers, req[r].id,
                         [ip |-> ip, key |-> req[r].key, pi |-> req[r].pi])
            IN  DOMAIN t \subseteq Codes /\ t \in [DOMAIN t -> CustomerRow]
        BY <4>1, <4>2, <2>1 DEF Put
      <4> QED
        BY <3>2, <4>3
    <3>3. req[r].id \in DOMAIN customers => customers[req[r].id].ip \in Nat
      BY DEF TypeInv, TypeOK, CustomerRow
    <3> QED
      BY <3>1, <3>2, <3>3, <2>1, <1>11 DEF CuUpsert
  <2> QED
    BY <1>1, <1>11, <2>2, <2>3 DEF CuUpsert, TypeInv, TypeOK, PiReqOK, CuReqOK
<1>12. CASE CuBind(r)
  <2>1. ReqOK
    BY <1>2, <1>4, <1>12 DEF CuBind, CuReqOK
  <2>2. codes' \in [Codes -> {"unknown", "issued", "bound"}]
    BY <1>12 DEF CuBind, TypeInv, TypeOK
  <2> QED
    BY <1>1, <1>12, <2>1, <2>2 DEF CuBind, TypeInv, TypeOK, PiReqOK, CuReqOK
<1> QED
  BY <1>6, <1>7, <1>8, <1>9, <1>10, <1>11, <1>12 DEF CuStep

(* Empty tables and idle slots have their types. *)
LEMMA InitType == Init => TypeInv
<1> SUFFICES ASSUME Init PROVE TypeInv
  OBVIOUS
<1>1. Idle \in ReqState
  BY DEF ReqState
<1>2. req = [r \in PiReqs \cup CuReqs |-> Idle]
  BY DEF Init
<1>3. \A r \in PiReqs \cup CuReqs : req[r].pc = "idle"
  BY <1>2
<1> QED
  BY <1>1, <1>2, <1>3 DEF Init, TypeInv, TypeOK, PiReqOK, CuReqOK

(* Every step, failing statements and restarts included, keeps the types. *)
LEMMA NextType == TypeInv /\ [Next]_vars => TypeInv'
<1> SUFFICES ASSUME TypeInv, [Next]_vars PROVE TypeInv'
  OBVIOUS
<1>1. ASSUME NEW i \in Serials, Silence(i) PROVE TypeInv'
  <2>1. pis' \in [DOMAIN pis' -> PiRow] /\ DOMAIN pis' = DOMAIN pis
    BY <1>1 DEF Silence, TypeInv, TypeOK, PiRow
  <2> QED
    BY <1>1, <2>1 DEF Silence, TypeInv, TypeOK, PiReqOK, CuReqOK
<1>2. ASSUME NEW i \in Serials, NEW e \in Endpoints \cup {NoEp},
             NEW n \in 0..MaxLoad, Heartbeat(i, e, n)
      PROVE  TypeInv'
  <2>1. pis' \in [DOMAIN pis' -> PiRow] /\ DOMAIN pis' = DOMAIN pis
    BY <1>2 DEF Heartbeat, TypeInv, TypeOK, PiRow
  <2> QED
    BY <1>2, <2>1 DEF Heartbeat, TypeInv, TypeOK, PiReqOK, CuReqOK
<1>3. ASSUME NEW c \in Codes, AddCode(c) PROVE TypeInv'
  BY <1>3 DEF AddCode, TypeInv, TypeOK, PiReqOK, CuReqOK
<1>4. CASE Restart
  <2>1. Idle \in ReqState
    BY DEF ReqState
  <2>2. req' \in [PiReqs \cup CuReqs -> ReqState]
        /\ \A r \in PiReqs \cup CuReqs : req'[r].pc = "idle"
    BY <1>4, <2>1 DEF Restart
  <2> QED
    BY <1>4, <2>2 DEF Restart, TypeInv, TypeOK, PiReqOK, CuReqOK
<1>5. CASE UNCHANGED vars
  BY <1>5 DEF vars, TypeInv, TypeOK, PiReqOK, CuReqOK
<1> QED
  BY <1>1, <1>2, <1>3, <1>4, <1>5, PiStepType, CuStepType DEF Next

(* The typing invariant holds throughout; everything below rests on it. *)
LEMMA TypeInvariant == Spec => []TypeInv
BY InitType, NextType, PTL DEF Spec

(* The tables and the requests have the types of the schema and the code. *)
THEOREM TypeCorrect == Spec => []TypeOK
<1>1. TypeInv => TypeOK
  BY DEF TypeInv
<1> QED
  BY <1>1, TypeInvariant, PTL

-----------------------------------------------------------------------------
(* The two ways a step can treat a table: every row keeps its address, or    *)
(* the row of a request in its upsert step joins with an address nobody has. *)
Kept(table) ==
  DOMAIN table' = DOMAIN table /\ \A x \in DOMAIN table : table'[x].ip = table[x].ip

Joins(table, r) ==
  LET x == req[r].id IN
  /\ req[r].pc = "upsert"
  /\ x \notin DOMAIN table
  /\ \A y \in DOMAIN table : table[y].ip # req[r].ip
  /\ DOMAIN table' = DOMAIN table \cup {x}
  /\ \A y \in DOMAIN table : table'[y].ip = table[y].ip
  /\ table'[x].ip = req[r].ip

(* Every step leaves the addresses of the Pis alone, or one Pi joins. *)
LEMMA PisStep ==
  ASSUME TypeInv, [Next]_vars
  PROVE  Kept(pis) \/ \E r \in PiReqs : Joins(pis, r)
<1>1. ASSUME NEW r \in PiReqs, PiStep(r)
      PROVE  Kept(pis) \/ Joins(pis, r)
  <2>1. CASE UNCHANGED pis
    BY <2>1 DEF Kept
  <2>2. CASE PiUpsert(r) /\ pis' # pis
    <3> DEFINE i == req[r].id
    <3>1. CASE i \in DOMAIN pis
      <4>1. pis' = Put(pis, i, [pis[i] EXCEPT !.key = req[r].key])
        BY <2>2, <3>1 DEF PiUpsert
      <4>2. [pis[i] EXCEPT !.key = req[r].key].ip = pis[i].ip
        BY <3>1 DEF TypeInv, TypeOK, PiRow
      <4> QED
        BY <3>1, <4>1, <4>2 DEF Put, Kept
    <3>2. CASE i \notin DOMAIN pis
      <4>1. /\ req[r].pc = "upsert"
            /\ ~Taken(pis, i, "ip", req[r].ip)
            /\ pis' = Put(pis, i, [ip |-> req[r].ip, key |-> req[r].key,
                                   ep |-> NoEp, seen |-> FALSE, load |-> 0])
        BY <2>2, <3>2 DEF PiUpsert
      <4>2. \A y \in DOMAIN pis : pis[y].ip # req[r].ip
        BY <3>2, <4>1 DEF Taken
      <4> QED
        BY <3>2, <4>1, <4>2 DEF Put, Joins
    <3> QED
      BY <3>1, <3>2
  <2> QED
    BY <1>1, <2>1, <2>2 DEF PiStep, PiLookup, PiAlloc
<1>2. ASSUME NEW r \in CuReqs, CuStep(r)
      PROVE  Kept(pis)
  BY <1>2 DEF Kept, CuStep, CuValidate, CuLookup, CuPi, CuPick, CuAlloc,
              CuUpsert, CuBind
<1>3. ASSUME NEW i \in Serials, Silence(i)
      PROVE  Kept(pis)
  BY <1>3 DEF Kept, Silence, TypeInv, TypeOK, PiRow
<1>4. ASSUME NEW i \in Serials, NEW e \in Endpoints \cup {NoEp},
             NEW n \in 0..MaxLoad, Heartbeat(i, e, n)
      PROVE  Kept(pis)
  BY <1>4 DEF Kept, Heartbeat, TypeInv, TypeOK, PiRow
<1>5. ASSUME \/ \E c \in Codes : AddCode(c)
             \/ Restart
             \/ UNCHANGED vars
      PROVE  Kept(pis)
  BY <1>5 DEF Kept, AddCode, Restart, vars
<1> QED
  BY <1>1, <1>2, <1>3, <1>4, <1>5 DEF Next

(* Every step leaves the addresses of customers alone, or one joins. *)
LEMMA CustomersStep ==
  ASSUME TypeInv, [Next]_vars
  PROVE  Kept(customers) \/ \E r \in CuReqs : Joins(customers, r)
<1>1. ASSUME NEW r \in CuReqs, CuStep(r)
      PROVE  Kept(customers) \/ Joins(customers, r)
  <2>1. CASE UNCHANGED customers
    BY <2>1 DEF Kept
  <2>2. CASE CuUpsert(r) /\ customers' # customers
    <3> DEFINE c == req[r].id
    <3>1. CASE c \in DOMAIN customers
      <4>1. customers' = Put(customers, c,
                             [ip |-> customers[c].ip, key |-> req[r].key,
                              pi |-> req[r].pi])
        BY <2>2, <3>1 DEF CuUpsert
      <4> QED
        BY <3>1, <4>1 DEF Put, Kept
    <3>2. CASE c \notin DOMAIN customers
      <4>1. /\ req[r].pc = "upsert"
            /\ ~Taken(customers, c, "ip", req[r].ip)
            /\ customers' = Put(customers, c,
                                [ip |-> req[r].ip, key |-> req[r].key,
                                 pi |-> req[r].pi])
        BY <2>2, <3>2 DEF CuUpsert
      <4>2. \A y \in DOMAIN customers : customers[y].ip # req[r].ip
        BY <3>2, <4>1 DEF Taken
      <4> QED
        BY <3>2, <4>1, <4>2 DEF Put, Joins
    <3> QED
      BY <3>1, <3>2
  <2> QED
    BY <1>1, <2>1, <2>2 DEF CuStep, CuValidate, CuLookup, CuPi, CuPick,
                            CuAlloc, CuBind
<1>2. ASSUME NEW r \in PiReqs, PiStep(r)
      PROVE  Kept(customers)
  BY <1>2 DEF Kept, PiStep, PiLookup, PiAlloc, PiUpsert
<1>3. ASSUME \/ \E i \in Serials : Silence(i)
             \/ \E i \in Serials, e \in Endpoints \cup {NoEp}, n \in 0..MaxLoad :
                  Heartbeat(i, e, n)
             \/ \E c \in Codes : AddCode(c)
             \/ Restart
             \/ UNCHANGED vars
      PROVE  Kept(customers)
  BY <1>3 DEF Kept, Silence, Heartbeat, AddCode, Restart, vars
<1> QED
  BY <1>1, <1>2, <1>3 DEF Next

(* A row that is stored stays, with the address it was stored with, whatever *)
(* requests overlap, fail, are repeated or are cut off by a restart.         *)
THEOREM AddressesKept == Spec => AddressKept
<1>1. TypeInv /\ [Next]_vars =>
        [/\ \A i \in DOMAIN pis : i \in DOMAIN pis' /\ pis'[i].ip = pis[i].ip
         /\ \A c \in DOMAIN customers :
              c \in DOMAIN customers' /\ customers'[c].ip = customers[c].ip]_vars
  BY PisStep, CustomersStep DEF Kept, Joins
<1> QED
  BY <1>1, TypeInvariant, PTL DEF Spec, AddressKept

(* No two rows of a table share an address. *)
UniqueIPs ==
  /\ \A i, j \in DOMAIN pis : pis[i].ip = pis[j].ip => i = j
  /\ \A c, d \in DOMAIN customers : customers[c].ip = customers[d].ip => c = d

(* No two rows of a table ever share an address, failing statements included. *)
LEMMA AddressesUnique == Spec => []UniqueIPs
<1>1. Init => UniqueIPs
  BY DEF Init, UniqueIPs
<1>2. TypeInv /\ UniqueIPs /\ [Next]_vars => UniqueIPs'
  <2> SUFFICES ASSUME TypeInv, UniqueIPs, [Next]_vars
               PROVE  UniqueIPs'
    OBVIOUS
  <2>1. ASSUME NEW i \in DOMAIN pis', NEW j \in DOMAIN pis', pis'[i].ip = pis'[j].ip
       PROVE  i = j
    <3>1. CASE Kept(pis)
      BY <2>1, <3>1 DEF UniqueIPs, Kept
    <3>2. ASSUME NEW r \in PiReqs, Joins(pis, r) PROVE i = j
      <4>1. i \in DOMAIN pis \/ i = req[r].id
        BY <2>1, <3>2 DEF Joins
      <4>2. j \in DOMAIN pis \/ j = req[r].id
        BY <2>1, <3>2 DEF Joins
      <4> QED
        BY <2>1, <3>2, <4>1, <4>2 DEF UniqueIPs, Joins
    <3> QED
      BY <3>1, <3>2, PisStep
  <2>2. ASSUME NEW c \in DOMAIN customers', NEW d \in DOMAIN customers', customers'[c].ip = customers'[d].ip
       PROVE  c = d
    <3>1. CASE Kept(customers)
      BY <2>2, <3>1 DEF UniqueIPs, Kept
    <3>2. ASSUME NEW r \in CuReqs, Joins(customers, r) PROVE c = d
      <4>1. c \in DOMAIN customers \/ c = req[r].id
        BY <2>2, <3>2 DEF Joins
      <4>2. d \in DOMAIN customers \/ d = req[r].id
        BY <2>2, <3>2 DEF Joins
      <4> QED
        BY <2>2, <3>2, <4>1, <4>2 DEF UniqueIPs, Joins
    <3> QED
      BY <3>1, <3>2, CustomersStep
  <2> QED
    BY <2>1, <2>2 DEF UniqueIPs
<1> QED
  BY <1>1, <1>2, TypeInvariant, PTL DEF Spec

-----------------------------------------------------------------------------
(* How one slot moves, as far as its identity and its address go. *)
Keeps(r) == req'[r].id = req[r].id /\ req'[r].ip = req[r].ip

PiMoves(r) ==
  \/ req'[r] = Idle
  \/ /\ req'[r].pc = "alloc" /\ req'[r].ip = BlankIP
     /\ req'[r].id \in SerialsOf[r] \ DOMAIN pis'
  \/ /\ req'[r].pc = "upsert"
     /\ req'[r].id \in SerialsOf[r] \cap DOMAIN pis
     /\ req'[r].ip = pis[req'[r].id].ip
  \/ /\ Faults /\ req'[r].pc = "upsert" /\ req'[r].id \in SerialsOf[r]
     /\ req'[r].ip = BlankIP
  \/ /\ req[r].pc = "alloc" /\ req'[r].pc = "upsert"
     /\ req'[r].id = req[r].id
     /\ req'[r].ip \in Nat /\ req'[r].ip < PiCap
     /\ req'[r].ip = Count(pis) \/ Faults
  \/ /\ req[r].pc = "upsert" /\ req'[r].pc = "ok" /\ Keeps(r)
     /\ req[r].id \in DOMAIN pis'
     /\ req[r].id \notin DOMAIN pis => pis'[req[r].id].ip = req[r].ip

CuMoves(r) ==
  \/ req'[r] = Idle
  \/ /\ req'[r].pc = "lookup" /\ req'[r].ip = BlankIP
     /\ req'[r].id \in CodesOf[r]
  \/ /\ req[r].pc = "lookup" /\ req'[r].pc = "pi"
     /\ req'[r].id = req[r].id /\ req[r].id \in DOMAIN customers
     /\ req'[r].ip = customers[req[r].id].ip
  \/ /\ req[r].pc = "lookup" /\ req'[r].pc = "pick" /\ Keeps(r)
     /\ Faults \/ req[r].id \notin DOMAIN customers
  \/ req[r].pc = "pi" /\ req'[r].pc \in {"pick", "alloc"} /\ Keeps(r)
  \/ req[r].pc = "pick" /\ req'[r].pc = "alloc" /\ Keeps(r)
  \/ /\ req[r].pc = "alloc" /\ req'[r].pc = "upsert"
     /\ req[r].ip # BlankIP /\ Keeps(r)
  \/ /\ req[r].pc = "alloc" /\ req'[r].pc = "upsert"
     /\ req[r].ip = BlankIP
     /\ req'[r].id = req[r].id
     /\ req'[r].ip \in Nat /\ req'[r].ip < CustomerCap
     /\ req'[r].ip <= Count(customers)
  \/ /\ req[r].pc = "upsert" /\ req'[r].pc = "bind" /\ Keeps(r)
     /\ req[r].id \in DOMAIN customers'
     /\ req[r].id \notin DOMAIN customers =>
          customers'[req[r].id].ip = req[r].ip
  \/ req[r].pc = "bind" /\ req'[r].pc = "ok" /\ Keeps(r)

(* Where a statement of a Pi registration leads, and what it can change. *)
LEMMA PiStepMoves ==
  ASSUME TypeInv, NEW r \in PiReqs, PiStep(r)
  PROVE  PiMoves(r) /\ \A q \in (PiReqs \cup CuReqs) \ {r} : req'[q] = req[q]
<1>1. req \in [PiReqs \cup CuReqs -> ReqState] /\ req[r] \in ReqState
      /\ r \in PiReqs \cup CuReqs
  BY DEF TypeInv, TypeOK
<1>2. CASE \E i \in SerialsOf[r], k \in PiKeys : PiLookup(r, i, k)
  <2> PICK i \in SerialsOf[r], k \in PiKeys : PiLookup(r, i, k)
    BY <1>2
  <2>1. PICK pc, ip :
          /\ req' = [req EXCEPT ![r] =
                       [Idle EXCEPT !.pc = pc, !.id = i, !.key = k, !.ip = ip]]
          /\ \/ pc = "upsert" /\ i \in DOMAIN pis /\ ip = pis[i].ip
             \/ pc = "alloc" /\ i \notin DOMAIN pis /\ ip = BlankIP
             \/ pc = "upsert" /\ Faults /\ ip = BlankIP
    BY DEF PiLookup
  <2>2. req'[r].pc = pc /\ req'[r].id = i /\ req'[r].ip = ip
    BY <1>1, <2>1
  <2>3. \A q \in (PiReqs \cup CuReqs) \ {r} : req'[q] = req[q]
    BY <1>1, <2>1
  <2>4. pis' = pis
    BY DEF PiLookup
  <2> QED
    BY <2>1, <2>2, <2>3, <2>4 DEF PiMoves
<1>3. CASE PiAlloc(r)
  <2>1. CASE req' = [req EXCEPT ![r] = Idle]
    BY <1>1, <2>1 DEF PiMoves
  <2>2. ASSUME NEW n \in {Count(pis)} \cup (IF Faults THEN {0} ELSE {}), n < PiCap,
               req' = [req EXCEPT ![r].pc = "upsert", ![r].ip = n]
        PROVE  PiMoves(r) /\ \A q \in (PiReqs \cup CuReqs) \ {r} : req'[q] = req[q]
    <3>1. n \in Nat /\ (n = Count(pis) \/ Faults)
      BY CountType
    <3>2. req'[r].pc = "upsert" /\ req'[r].id = req[r].id /\ req'[r].ip = n
      BY <1>1, <2>2 DEF ReqState
    <3>3. \A q \in (PiReqs \cup CuReqs) \ {r} : req'[q] = req[q]
      BY <1>1, <2>2
    <3> QED
      BY <1>3, <2>2, <3>1, <3>2, <3>3 DEF PiMoves, PiAlloc
  <2> QED
    BY <1>3, <2>1, <2>2, CountType, CapsAssumption DEF PiAlloc
<1>4. CASE PiUpsert(r)
  <2>1. CASE req' = [req EXCEPT ![r] = Idle]
    BY <1>1, <2>1 DEF PiMoves
  <2>2. CASE pis' # pis \/ Goto(r, "ok")
    <3>1. req[r].pc = "upsert" /\ Goto(r, "ok") /\ Keeps(r)
      BY <1>1, <1>4, <2>2 DEF PiUpsert, Keeps, ReqState
    <3>2. /\ req[r].id \in DOMAIN pis'
          /\ req[r].id \notin DOMAIN pis => pis'[req[r].id].ip = req[r].ip
      BY <1>1, <1>4, <3>1 DEF PiUpsert, Put, ReqState
    <3> QED
      BY <1>1, <3>1, <3>2 DEF PiMoves, ReqState
  <2> QED
    BY <1>4, <2>1, <2>2 DEF PiUpsert
<1> QED
  BY <1>2, <1>3, <1>4 DEF PiStep

(* Where a statement of a customer registration leads. *)
LEMMA CuStepMoves ==
  ASSUME TypeInv, NEW r \in CuReqs, CuStep(r)
  PROVE  CuMoves(r) /\ \A q \in (PiReqs \cup CuReqs) \ {r} : req'[q] = req[q]
<1>1. req \in [PiReqs \cup CuReqs -> ReqState] /\ req[r] \in ReqState
      /\ r \in PiReqs \cup CuReqs
  BY DEF TypeInv, TypeOK
<1>2. CASE \E c \in CodesOf[r], k \in Keys : CuValidate(r, c, k)
  <2> PICK c \in CodesOf[r], k \in Keys : CuValidate(r, c, k)
    BY <1>2
  <2> QED
    BY <1>1 DEF CuValidate, CuMoves
<1>3. CASE CuLookup(r)
  BY <1>1, <1>3 DEF CuLookup, CuMoves, Keeps, ReqState
<1>4. CASE CuPi(r)
  BY <1>1, <1>4 DEF CuPi, CuMoves, Keeps, ReqState
<1>5. CASE CuPick(r)
  <2>1. CASE req' = [req EXCEPT ![r] = Idle]
    BY <1>1, <2>1 DEF CuMoves
  <2>2. ASSUME NEW i,
               req' = [req EXCEPT ![r].pc = "alloc", ![r].pi = i]
        PROVE  CuMoves(r) /\ \A q \in (PiReqs \cup CuReqs) \ {r} : req'[q] = req[q]
    <3>1. req'[r].pc = "alloc" /\ Keeps(r)
      BY <1>1, <2>2 DEF Keeps, ReqState
    <3>2. \A q \in (PiReqs \cup CuReqs) \ {r} : req'[q] = req[q]
      BY <1>1, <2>2
    <3> QED
      BY <1>5, <3>1, <3>2 DEF CuMoves, CuPick
  <2>3. CASE \E i \in LeastLoaded :
               req' = [req EXCEPT ![r].pc = "alloc", ![r].pi = i]
    BY <2>2, <2>3
  <2>4. CASE req' = [req EXCEPT ![r].pc = "alloc", ![r].pi = NoPi, ![r].blind = TRUE]
    <3>1. req'[r].pc = "alloc" /\ Keeps(r)
      BY <1>1, <2>4 DEF Keeps, ReqState
    <3>2. \A q \in (PiReqs \cup CuReqs) \ {r} : req'[q] = req[q]
      BY <1>1, <2>4
    <3> QED
      BY <1>5, <3>1, <3>2 DEF CuMoves, CuPick
  <2> QED
    BY <1>5, <2>1, <2>3, <2>4 DEF CuPick
<1>6. CASE CuAlloc(r)
  <2>1. CASE req' = [req EXCEPT ![r] = Idle]
    BY <1>1, <2>1 DEF CuMoves
  <2>2. CASE req[r].ip # BlankIP
    <3>1. req[r].pc = "alloc" /\ req' = [req EXCEPT ![r].pc = "upsert"]
      BY <1>6, <2>2 DEF CuAlloc
    <3>2. req'[r].pc = "upsert" /\ Keeps(r)
      BY <1>1, <3>1 DEF Keeps, ReqState
    <3> QED
      BY <1>1, <2>2, <3>1, <3>2 DEF CuMoves
  <2>3. ASSUME req[r].ip = BlankIP, NEW n \in Nat, n < CustomerCap,
               n <= Count(customers),
               req' = [req EXCEPT ![r].pc = "upsert", ![r].ip = n]
        PROVE  CuMoves(r) /\ \A q \in (PiReqs \cup CuReqs) \ {r} : req'[q] = req[q]
    <3>1. req'[r].pc = "upsert" /\ req'[r].id = req[r].id /\ req'[r].ip = n
      BY <1>1, <2>3 DEF ReqState
    <3>2. \A q \in (PiReqs \cup CuReqs) \ {r} : req'[q] = req[q]
      BY <1>1, <2>3
    <3> QED
      BY <1>6, <2>3, <3>1, <3>2 DEF CuMoves, CuAlloc
  <2> QED
    <3>1. CASE req[r].ip = BlankIP /\ ~ (req' = [req EXCEPT ![r] = Idle])
      <4>1. PICK n \in {Count(customers)} \cup (IF Faults THEN {0} ELSE {}) :
              /\ ~ (n >= CustomerCap)
              /\ req' = [req EXCEPT ![r].pc = "upsert", ![r].ip = n]
        BY <1>6, <3>1 DEF CuAlloc
      <4>2. n \in Nat /\ n < CustomerCap /\ n <= Count(customers)
        BY <4>1, CountType, CapsAssumption
      <4> QED
        BY <2>3, <3>1, <4>1, <4>2
    <3> QED
      BY <2>1, <2>2, <3>1
<1>7. CASE CuUpsert(r)
  <2>1. CASE req' = [req EXCEPT ![r] = Idle]
    BY <1>1, <2>1 DEF CuMoves
  <2>2. CASE customers' # customers \/ Goto(r, "bind")
    <3>1. req[r].pc = "upsert" /\ Goto(r, "bind") /\ Keeps(r)
      BY <1>1, <1>7, <2>2 DEF CuUpsert, Keeps, ReqState
    <3>2. /\ req[r].id \in DOMAIN customers'
          /\ req[r].id \notin DOMAIN customers =>
               customers'[req[r].id].ip = req[r].ip
      BY <1>1, <1>7, <3>1 DEF CuUpsert, Put, ReqState
    <3> QED
      BY <1>1, <3>1, <3>2 DEF CuMoves, ReqState
  <2> QED
    BY <1>7, <2>1, <2>2 DEF CuUpsert
<1>8. CASE CuBind(r)
  BY <1>1, <1>8 DEF CuBind, CuMoves, Keeps, ReqState
<1> QED
  BY <1>2, <1>3, <1>4, <1>5, <1>6, <1>7, <1>8 DEF CuStep

(* A slot that does not move by a step of its own is unchanged or reset. *)
LEMMA SlotMoves ==
  ASSUME TypeInv, [Next]_vars
  PROVE  /\ \A r \in PiReqs : req'[r] = req[r] \/ PiMoves(r)
         /\ \A r \in CuReqs : req'[r] = req[r] \/ CuMoves(r)
<1>1. CASE UNCHANGED req
  BY <1>1
<1>2. ASSUME NEW q \in PiReqs, PiStep(q)
      PROVE  /\ \A r \in PiReqs : req'[r] = req[r] \/ PiMoves(r)
             /\ \A r \in CuReqs : req'[r] = req[r] \/ CuMoves(r)
  BY <1>2, PiStepMoves, SlotsAssumption
<1>3. ASSUME NEW q \in CuReqs, CuStep(q)
      PROVE  /\ \A r \in PiReqs : req'[r] = req[r] \/ PiMoves(r)
             /\ \A r \in CuReqs : req'[r] = req[r] \/ CuMoves(r)
  BY <1>3, CuStepMoves, SlotsAssumption
<1>4. CASE Restart
  BY <1>4 DEF Restart, PiMoves, CuMoves
<1> QED
  BY <1>1, <1>2, <1>3, <1>4 DEF Next, Silence, Heartbeat, AddCode, vars

-----------------------------------------------------------------------------
(* A code is bound only to a stored customer: the request that binds it has  *)
(* stored the row itself, and rows stay.                                     *)
BindInv ==
  /\ BoundHasCustomer
  /\ \A r \in CuReqs : req[r].pc = "bind" => req[r].id \in DOMAIN customers

(* No customer is ever deleted. *)
LEMMA CustomersGrow ==
  ASSUME TypeInv, [Next]_vars
  PROVE  DOMAIN customers \subseteq DOMAIN customers'
BY CustomersStep DEF Kept, Joins

(* An access code is bound only to a stored customer (bindCode runs last). *)
THEOREM BoundCodesHaveCustomers == Spec => []BoundHasCustomer
<1>1. Init => BindInv
  <2> SUFFICES ASSUME Init PROVE BindInv
    OBVIOUS
  <2>1. \A r \in CuReqs : req[r].pc = "idle"
    BY DEF Init
  <2> QED
    BY <2>1 DEF Init, BindInv, BoundHasCustomer
<1>2. TypeInv /\ BindInv /\ [Next]_vars => BindInv'
  <2> SUFFICES ASSUME TypeInv, BindInv, [Next]_vars
               PROVE  BindInv'
    OBVIOUS
  <2>1. ASSUME NEW c \in Codes, codes'[c] = "bound"
        PROVE  c \in DOMAIN customers'
    <3>1. CASE codes[c] = "bound"
      BY <3>1, CustomersGrow DEF BindInv, BoundHasCustomer
    <3>2. CASE codes[c] # "bound"
      <4>1. \E r \in CuReqs : CuBind(r) /\ c = req[r].id
        BY <2>1, <3>2 DEF Next, vars, PiStep, PiLookup, PiAlloc, PiUpsert,
           CuStep, CuValidate, CuLookup, CuPi, CuPick, CuAlloc, CuUpsert, CuBind,
           Silence, Heartbeat, AddCode, Restart, TypeInv, TypeOK
      <4> QED
        BY <4>1, CustomersGrow DEF BindInv, CuBind
    <3> QED
      BY <3>1, <3>2
  <2>2. ASSUME NEW r \in CuReqs, req'[r].pc = "bind"
        PROVE  req'[r].id \in DOMAIN customers'
    <3>1. CASE req'[r] = req[r]
      BY <2>2, <3>1, CustomersGrow DEF BindInv
    <3>2. CASE CuMoves(r)
      BY <2>2, <3>2 DEF CuMoves, Keeps
    <3> QED
      BY <3>1, <3>2, SlotMoves
  <2> QED
    BY <2>1, <2>2 DEF BindInv, BoundHasCustomer
<1>3. BindInv => BoundHasCustomer
  BY DEF BindInv
<1> QED
  BY <1>1, <1>2, <1>3, TypeInvariant, PTL DEF Spec

-----------------------------------------------------------------------------
(* The addresses of a table of n rows are exactly 0, ..., n - 1. *)
Dense(table) == {table[x].ip : x \in DOMAIN table} = 0..(Count(table) - 1)

(* A step that keeps the addresses keeps the pool free of gaps. *)
LEMMA KeptDense ==
  ASSUME NEW t, NEW u, DOMAIN u = DOMAIN t,
         \A x \in DOMAIN t : u[x].ip = t[x].ip, Dense(t)
  PROVE  Dense(u) /\ Count(u) = Count(t)
<1>1. Count(u) = Count(t)
  BY DEF Count
<1>2. {u[x].ip : x \in DOMAIN u} = {t[x].ip : x \in DOMAIN t}
  OBVIOUS
<1> QED
  BY <1>1, <1>2 DEF Dense

(* A row that joins with an unused address of at most the row count has the  *)
(* row count as its address.                                                 *)
LEMMA JoinDense ==
  ASSUME NEW t, NEW u, NEW x, NEW n \in Nat,
         IsFiniteSet(DOMAIN t), Dense(t),
         x \notin DOMAIN t, DOMAIN u = DOMAIN t \cup {x},
         \A y \in DOMAIN t : u[y].ip = t[y].ip, u[x].ip = n,
         \A y \in DOMAIN t : t[y].ip # n, n <= Count(t)
  PROVE  n = Count(t) /\ Dense(u) /\ Count(u) = Count(t) + 1
<1>1. Count(t) \in Nat
  BY FS_CardinalityType DEF Count
<1>2. n \notin 0..(Count(t) - 1)
  BY DEF Dense
<1>3. n = Count(t)
  BY <1>1, <1>2
<1>4. Count(u) = Count(t) + 1
  BY FS_AddElement DEF Count
<1>5. {u[y].ip : y \in DOMAIN u} = {t[y].ip : y \in DOMAIN t} \cup {n}
  OBVIOUS
<1>6. 0..(Count(t) - 1) \cup {n} = 0..(Count(u) - 1)
  BY <1>1, <1>3, <1>4
<1> QED
  BY <1>3, <1>4, <1>5, <1>6 DEF Dense

(* No request in flight holds an index beyond the row count, and one that    *)
(* brings an address to a customer without a row got it from nextCustomerIP. *)
PiReqBook(r) ==
  req[r].pc = "upsert" /\ req[r].id \notin DOMAIN pis =>
    req[r].ip \in Nat /\ req[r].ip <= Count(pis) /\ req[r].ip < PiCap

CuReqBook(r) ==
  /\ req[r].pc = "lookup" => req[r].ip = BlankIP
  /\ req[r].pc \in {"pi", "pick", "alloc"} /\ req[r].ip # BlankIP =>
       req[r].id \in DOMAIN customers
  /\ req[r].pc = "upsert" /\ req[r].id \notin DOMAIN customers =>
       req[r].ip \in Nat /\ req[r].ip <= Count(customers)
       /\ req[r].ip < CustomerCap

PiBookInv == Dense(pis) /\ \A r \in PiReqs : PiReqBook(r)

CuBookInv == Dense(customers) /\ \A r \in CuReqs : CuReqBook(r)

(* The step of a table under its invariant: an AddressBook step or a stutter. *)
BookStep(table, Owners, Cap) ==
  \/ Kept(table)
  \/ \E x \in Owners \ DOMAIN table :
       /\ Count(table) < Cap
       /\ DOMAIN table' = DOMAIN table \cup {x}
       /\ \A y \in DOMAIN table : table'[y].ip = table[y].ip
       /\ table'[x].ip = Count(table)

(* While no statement fails, Pis join with the next index of the pool. *)
LEMMA PisBookStep ==
  ASSUME TypeInv, PiBookInv, [Next]_vars
  PROVE  /\ BookStep(pis, Serials, PiCap)
         /\ Dense(pis)' /\ Count(pis)' \in Nat /\ Count(pis) <= Count(pis)'
         /\ DOMAIN pis \subseteq DOMAIN pis'
<1>1. CASE Kept(pis)
  BY <1>1, KeptDense, CountType DEF PiBookInv, BookStep, Kept
<1>2. ASSUME NEW r \in PiReqs, Joins(pis, r)
      PROVE  /\ BookStep(pis, Serials, PiCap)
             /\ Dense(pis)' /\ Count(pis)' \in Nat /\ Count(pis) <= Count(pis)'
             /\ DOMAIN pis \subseteq DOMAIN pis'
  <2>1. /\ req[r].id \in Serials \ DOMAIN pis
        /\ req[r].ip \in Nat /\ req[r].ip <= Count(pis) /\ req[r].ip < PiCap
    BY <1>2 DEF Joins, PiBookInv, PiReqBook, TypeInv, PiReqOK
  <2>2. /\ req[r].ip = Count(pis)
        /\ Dense(pis') /\ Count(pis') = Count(pis) + 1
    BY <1>2, <2>1, JoinDense, CountType DEF PiBookInv, Joins
  <2>3. BookStep(pis, Serials, PiCap)
    BY <1>2, <2>1, <2>2 DEF Joins, BookStep
  <2>4. Dense(pis)' /\ Count(pis)' = Count(pis) + 1
    BY <2>2 DEF Dense, Count
  <2> QED
    BY <1>2, <2>3, <2>4, CountType DEF Joins
<1> QED
  BY <1>1, <1>2, PisStep

(* Customers join with the next index of their pool, whatever fails. *)
LEMMA CustomersBookStep ==
  ASSUME TypeInv, CuBookInv, [Next]_vars
  PROVE  /\ BookStep(customers, Codes, CustomerCap)
         /\ Dense(customers)' /\ Count(customers)' \in Nat /\ Count(customers) <= Count(customers)'
         /\ DOMAIN customers \subseteq DOMAIN customers'
<1>1. CASE Kept(customers)
  BY <1>1, KeptDense, CountType DEF CuBookInv, BookStep, Kept
<1>2. ASSUME NEW r \in CuReqs, Joins(customers, r)
      PROVE  /\ BookStep(customers, Codes, CustomerCap)
             /\ Dense(customers)' /\ Count(customers)' \in Nat /\ Count(customers) <= Count(customers)'
             /\ DOMAIN customers \subseteq DOMAIN customers'
  <2>1. /\ req[r].id \in Codes \ DOMAIN customers
        /\ req[r].ip \in Nat /\ req[r].ip <= Count(customers)
        /\ req[r].ip < CustomerCap
    BY <1>2 DEF Joins, CuBookInv, CuReqBook, TypeInv, CuReqOK
  <2>2. /\ req[r].ip = Count(customers)
        /\ Dense(customers') /\ Count(customers') = Count(customers) + 1
    BY <1>2, <2>1, JoinDense, CountType DEF CuBookInv, Joins
  <2>3. BookStep(customers, Codes, CustomerCap)
    BY <1>2, <2>1, <2>2 DEF Joins, BookStep
  <2>4. Dense(customers)' /\ Count(customers)' = Count(customers) + 1
    BY <2>2 DEF Dense, Count
  <2> QED
    BY <1>2, <2>3, <2>4, CountType DEF Joins
<1> QED
  BY <1>1, <1>2, CustomersStep

(* Empty pools have no gaps. *)
LEMMA InitBook == Init => PiBookInv /\ CuBookInv
<1> SUFFICES ASSUME Init PROVE PiBookInv /\ CuBookInv
  OBVIOUS
<1>1. \A r \in PiReqs \cup CuReqs : req[r].pc = "idle"
  BY DEF Init
<1>2. Count(pis) = 0 /\ Count(customers) = 0
  BY FS_EmptySet DEF Init, Count
<1>3. {pis[x].ip : x \in DOMAIN pis} = {}
      /\ {customers[x].ip : x \in DOMAIN customers} = {}
  BY DEF Init
<1>4. PiBookInv
  BY <1>1, <1>2, <1>3 DEF PiBookInv, Dense, PiReqBook
<1>5. CuBookInv
  BY <1>1, <1>2, <1>3 DEF CuBookInv, Dense, CuReqBook
<1> QED
  BY <1>4, <1>5

(* A slot that is about to insert a Pi holds an index at most the row count. *)
LEMMA NextPiBook ==
  ASSUME ~Faults, TypeInv, PiBookInv, [Next]_vars
  PROVE  PiBookInv'
<1>1. Dense(pis)'
  BY PisBookStep
<1>2. ASSUME NEW r \in PiReqs PROVE PiReqBook(r)'
  <2>1. Count(pis) \in Nat /\ Count(pis)' \in Nat
    BY CountType, PisBookStep
  <2>2. CASE req'[r] = req[r]
    BY <2>1, <2>2, PisBookStep DEF PiBookInv, PiReqBook
  <2>3. CASE PiMoves(r)
    <3> SUFFICES ASSUME req'[r].pc = "upsert", req'[r].id \notin DOMAIN pis'
                 PROVE  req'[r].ip \in Nat /\ req'[r].ip <= Count(pis)'
                        /\ req'[r].ip < PiCap
      BY DEF PiReqBook
    <3>1. req'[r].id \notin DOMAIN pis
      BY PisBookStep
    <3>2. req'[r].ip = Count(pis) /\ req'[r].ip < PiCap
      BY <2>3, <3>1 DEF PiMoves
    <3> QED
      BY <2>1, <3>2, PisBookStep
  <2> QED
    BY <2>2, <2>3, SlotMoves
<1> QED
  BY <1>1, <1>2 DEF PiBookInv

(* A failing statement does no harm here: the row count that could not be    *)
(* read is taken to be 0, an address that is taken as soon as there is a row. *)
LEMMA NextCuBook ==
  ASSUME TypeInv, CuBookInv, [Next]_vars
  PROVE  CuBookInv'
<1>1. Dense(customers)'
  BY CustomersBookStep
<1>2. ASSUME NEW r \in CuReqs PROVE CuReqBook(r)'
  <2>1. Count(customers) \in Nat /\ Count(customers)' \in Nat
        /\ Count(customers) <= Count(customers)'
        /\ DOMAIN customers \subseteq DOMAIN customers'
    BY CountType, CustomersBookStep
  <2>2. CASE req'[r] = req[r]
    BY <2>1, <2>2 DEF CuBookInv, CuReqBook
  <2>3. CASE CuMoves(r)
    <3>1. req'[r].pc = "lookup" => req'[r].ip = BlankIP
      BY <2>3 DEF CuMoves
    <3>2. ASSUME req'[r].pc \in {"pi", "pick", "alloc"}, req'[r].ip # BlankIP
          PROVE  req'[r].id \in DOMAIN customers'
      BY <2>1, <2>3, <3>2 DEF CuMoves, Keeps, CuBookInv, CuReqBook
    <3>3. ASSUME req'[r].pc = "upsert", req'[r].id \notin DOMAIN customers'
          PROVE  req'[r].ip \in Nat /\ req'[r].ip <= Count(customers)'
                 /\ req'[r].ip < CustomerCap
      <4>1. /\ req'[r].ip \in Nat /\ req'[r].ip <= Count(customers)
            /\ req'[r].ip < CustomerCap
        BY <2>1, <2>3, <3>3 DEF CuMoves, Keeps, CuBookInv, CuReqBook
      <4> QED
        BY <2>1, <4>1
    <3> QED
      BY <3>1, <3>2, <3>3 DEF CuReqBook
  <2> QED
    BY <2>2, <2>3, SlotMoves
<1> QED
  BY <1>1, <1>2 DEF CuBookInv

(* As long as no statement fails, concurrent registrations hand out the Pi   *)
(* pool as an AddressBook: densely, once each, and for good.                 *)
THEOREM PisImplementBook == ~Faults => (Spec => PiBookSpec)
<1> SUFFICES ASSUME ~Faults PROVE Spec => PiBookSpec
  OBVIOUS
<1>1. Init => PiBook!BookInit
  BY DEF Init, PiBook!BookInit, PiAddresses
<1>2. TypeInv /\ PiBookInv /\ [Next]_vars => [PiBook!BookNext]_PiAddresses
  <2> SUFFICES ASSUME TypeInv, PiBookInv, [Next]_vars
               PROVE  [PiBook!BookNext]_PiAddresses
    OBVIOUS
  <2>1. CASE Kept(pis)
    BY <2>1 DEF Kept, PiAddresses
  <2>2. ASSUME NEW x \in Serials \ DOMAIN pis,
               Count(pis) < PiCap, DOMAIN pis' = DOMAIN pis \cup {x},
               \A y \in DOMAIN pis : pis'[y].ip = pis[y].ip,
               pis'[x].ip = Count(pis)
        PROVE  PiBook!BookNext
    <3>1. DOMAIN PiAddresses = DOMAIN pis
      BY DEF PiAddresses
    <3>2. PiBook!Joined = Count(pis)
      BY <3>1 DEF PiBook!Joined, PiBook!Cardinality, Cardinality, Count
    <3>3. PiAddresses' = [y \in DOMAIN PiAddresses \cup {x} |->
                            IF y = x THEN Count(pis) ELSE PiAddresses[y]]
      BY <2>2 DEF PiAddresses
    <3>4. PiBook!Assign(x)
      BY <2>2, <3>1, <3>2, <3>3 DEF PiBook!Assign
    <3> QED
      BY <3>4 DEF PiBook!BookNext
  <2> QED
    BY <2>1, <2>2, PisBookStep DEF BookStep
<1>3. TypeInv /\ PiBookInv /\ [Next]_vars => PiBookInv'
  BY NextPiBook
<1> QED
  BY <1>1, <1>2, <1>3, InitBook, TypeInvariant, PTL
     DEF Spec, PiBookSpec, PiBook!BookSpec

(* The same of the customer pool, failing statements included. *)
THEOREM CustomersImplementBook == Spec => CustomerBookSpec
<1>1. Init => CustomerBook!BookInit
  BY DEF Init, CustomerBook!BookInit, CustomerAddresses
<1>2. TypeInv /\ CuBookInv /\ [Next]_vars =>
        [CustomerBook!BookNext]_CustomerAddresses
  <2> SUFFICES ASSUME TypeInv, CuBookInv, [Next]_vars
               PROVE  [CustomerBook!BookNext]_CustomerAddresses
    OBVIOUS
  <2>1. CASE Kept(customers)
    BY <2>1 DEF Kept, CustomerAddresses
  <2>2. ASSUME NEW x \in Codes \ DOMAIN customers,
               Count(customers) < CustomerCap,
               DOMAIN customers' = DOMAIN customers \cup {x},
               \A y \in DOMAIN customers : customers'[y].ip = customers[y].ip,
               customers'[x].ip = Count(customers)
        PROVE  CustomerBook!BookNext
    <3>1. DOMAIN CustomerAddresses = DOMAIN customers
      BY DEF CustomerAddresses
    <3>2. CustomerBook!Joined = Count(customers)
      BY <3>1 DEF CustomerBook!Joined, CustomerBook!Cardinality, Cardinality, Count
    <3>3. CustomerAddresses' =
            [y \in DOMAIN CustomerAddresses \cup {x} |->
               IF y = x THEN Count(customers) ELSE CustomerAddresses[y]]
      BY <2>2 DEF CustomerAddresses
    <3>4. CustomerBook!Assign(x)
      BY <2>2, <3>1, <3>2, <3>3 DEF CustomerBook!Assign
    <3> QED
      BY <3>4 DEF CustomerBook!BookNext
  <2> QED
    BY <2>1, <2>2, CustomersBookStep DEF BookStep
<1>3. TypeInv /\ CuBookInv /\ [Next]_vars => CuBookInv'
  BY NextCuBook
<1> QED
  BY <1>1, <1>2, <1>3, InitBook, TypeInvariant, PTL
     DEF Spec, CustomerBookSpec, CustomerBook!BookSpec

-----------------------------------------------------------------------------
(* No two slots carry the same serial or code: whoever asks waits for the    *)
(* answer before asking again.                                               *)
OwnSlots ==
  /\ \A r, q \in PiReqs : r # q => SerialsOf[r] \cap SerialsOf[q] = {}
  /\ \A r, q \in CuReqs : r # q => CodesOf[r] \cap CodesOf[q] = {}

(* Then what a handler has learnt about its row stays true until it answers. *)
PiReqReply(r) ==
  /\ req[r].pc # "idle" => req[r].id \in SerialsOf[r]
  /\ req[r].pc = "alloc" => req[r].id \notin DOMAIN pis
  /\ req[r].pc = "upsert" /\ req[r].id \in DOMAIN pis =>
       pis[req[r].id].ip = req[r].ip
  /\ req[r].pc = "ok" =>
       req[r].id \in DOMAIN pis /\ pis[req[r].id].ip = req[r].ip

CuReqReply(r) ==
  LET row == req[r].id \in DOMAIN customers
             /\ customers[req[r].id].ip = req[r].ip
  IN
  /\ req[r].pc # "idle" => req[r].id \in CodesOf[r]
  /\ req[r].pc = "lookup" => req[r].ip = BlankIP
  /\ req[r].pc \in {"pi", "pick", "alloc"} =>
       row \/ (req[r].ip = BlankIP /\ req[r].id \notin DOMAIN customers)
  /\ req[r].pc = "upsert" => row \/ req[r].id \notin DOMAIN customers
  /\ req[r].pc \in {"bind", "ok"} => row

ReplyInv ==
  /\ \A r \in PiReqs : PiReqReply(r)
  /\ \A r \in CuReqs : CuReqReply(r)

(* Once the Pi of a slot has a row, the slot holds the address of the row. *)
LEMMA PiReply ==
  ASSUME ~Faults, OwnSlots, TypeInv, ReplyInv, [Next]_vars, NEW r \in PiReqs
  PROVE  PiReqReply(r)'
<1> DEFINE i == req[r].id
<1>1. /\ DOMAIN pis \subseteq DOMAIN pis'
      /\ \A j \in DOMAIN pis : pis'[j].ip = pis[j].ip
  BY PisStep DEF Kept, Joins
(* The row of this slot's serial is added by this slot, in its upsert step. *)
<1>2. req[r].pc # "idle" /\ i \notin DOMAIN pis /\ i \in DOMAIN pis' =>
        req[r].pc = "upsert" /\ pis'[i].ip = req[r].ip
  <2> SUFFICES ASSUME req[r].pc # "idle", i \notin DOMAIN pis, i \in DOMAIN pis'
               PROVE  req[r].pc = "upsert" /\ pis'[i].ip = req[r].ip
    OBVIOUS
  <2>1. PICK q \in PiReqs : Joins(pis, q)
    BY PisStep DEF Kept
  <2>2. req[q].id = i
    BY <2>1 DEF Joins
  <2>3. i \in SerialsOf[r] /\ i \in SerialsOf[q]
    BY <2>1, <2>2 DEF Joins, ReplyInv, PiReqReply
  <2>4. q = r
    BY <2>3 DEF OwnSlots
  <2> QED
    BY <2>1, <2>4 DEF Joins
<1>3. CASE req'[r] = req[r]
  BY <1>1, <1>2, <1>3 DEF ReplyInv, PiReqReply
<1>4. CASE PiMoves(r)
  <2>1. CASE req'[r] = Idle
    BY <2>1 DEF PiReqReply
  <2>2. CASE /\ req'[r].pc = "alloc" /\ req'[r].ip = BlankIP
             /\ req'[r].id \in SerialsOf[r] \ DOMAIN pis'
    BY <2>2 DEF PiReqReply
  <2>3. CASE /\ req'[r].pc = "upsert"
             /\ req'[r].id \in SerialsOf[r] \cap DOMAIN pis
             /\ req'[r].ip = pis[req'[r].id].ip
    BY <1>1, <2>3 DEF PiReqReply
  <2>4. CASE req[r].pc = "alloc" /\ req'[r].pc = "upsert" /\ req'[r].id = i
    BY <1>2, <2>4 DEF ReplyInv, PiReqReply
  <2>5. CASE /\ req[r].pc = "upsert" /\ req'[r].pc = "ok" /\ Keeps(r)
             /\ i \in DOMAIN pis'
             /\ i \notin DOMAIN pis => pis'[i].ip = req[r].ip
    BY <1>1, <2>5 DEF ReplyInv, PiReqReply, Keeps
  <2> QED
    BY <1>4, <2>1, <2>2, <2>3, <2>4, <2>5 DEF PiMoves
<1> QED
  BY <1>3, <1>4, SlotMoves

(* Once the customer of a slot has a row, the slot holds the address of the row. *)
LEMMA CuReply ==
  ASSUME ~Faults, OwnSlots, TypeInv, ReplyInv, [Next]_vars, NEW r \in CuReqs
  PROVE  CuReqReply(r)'
<1> DEFINE c == req[r].id
<1>1. /\ DOMAIN customers \subseteq DOMAIN customers'
      /\ \A d \in DOMAIN customers : customers'[d].ip = customers[d].ip
  BY CustomersStep DEF Kept, Joins
<1>2. req[r].pc # "idle" /\ c \notin DOMAIN customers /\ c \in DOMAIN customers' =>
        req[r].pc = "upsert" /\ customers'[c].ip = req[r].ip
  <2> SUFFICES ASSUME req[r].pc # "idle", c \notin DOMAIN customers,
                      c \in DOMAIN customers'
               PROVE  req[r].pc = "upsert" /\ customers'[c].ip = req[r].ip
    OBVIOUS
  <2>1. PICK q \in CuReqs : Joins(customers, q)
    BY CustomersStep DEF Kept
  <2>2. req[q].id = c
    BY <2>1 DEF Joins
  <2>3. c \in CodesOf[r] /\ c \in CodesOf[q]
    BY <2>1, <2>2 DEF Joins, ReplyInv, CuReqReply
  <2>4. q = r
    BY <2>3 DEF OwnSlots
  <2> QED
    BY <2>1, <2>4 DEF Joins
<1>3. CASE req'[r] = req[r]
  BY <1>1, <1>2, <1>3 DEF ReplyInv, CuReqReply
<1>4. CASE CuMoves(r)
  <2>0. CuReqReply(r)
    BY DEF ReplyInv
  <2>1. CASE req'[r] = Idle
    BY <2>1 DEF CuReqReply
  <2>2. CASE /\ req'[r].pc = "lookup" /\ req'[r].ip = BlankIP
             /\ req'[r].id \in CodesOf[r]
    BY <2>2 DEF CuReqReply
  <2>3. CASE /\ req[r].pc = "lookup" /\ req'[r].pc = "pi"
             /\ req'[r].id = c /\ c \in DOMAIN customers
             /\ req'[r].ip = customers[c].ip
    BY <1>1, <2>0, <2>3 DEF CuReqReply
  <2>4. CASE /\ req[r].pc = "lookup" /\ req'[r].pc = "pick" /\ Keeps(r)
             /\ c \notin DOMAIN customers
    BY <1>2, <2>0, <2>4 DEF CuReqReply, Keeps
  <2>5. CASE /\ req[r].pc \in {"pi", "pick"} /\ req'[r].pc \in {"pick", "alloc"}
             /\ Keeps(r)
    BY <1>1, <1>2, <2>0, <2>5 DEF CuReqReply, Keeps
  <2>6. CASE /\ req[r].pc = "alloc" /\ req'[r].pc = "upsert"
             /\ req[r].ip # BlankIP /\ Keeps(r)
    BY <1>1, <1>2, <2>0, <2>6 DEF CuReqReply, Keeps
  <2>7. CASE /\ req[r].pc = "alloc" /\ req'[r].pc = "upsert"
             /\ req[r].ip = BlankIP /\ req'[r].id = c
    <3>1. c \in CodesOf[r]
      BY <2>0, <2>7 DEF CuReqReply
    <3>2. c \notin DOMAIN customers
      <4>1. c \in DOMAIN customers => customers[c].ip # BlankIP
        BY DEF TypeInv, TypeOK, CustomerRow, BlankIP
      <4> QED
        BY <2>0, <2>7, <4>1 DEF CuReqReply
    <3> QED
      BY <1>2, <2>7, <3>1, <3>2 DEF CuReqReply
  <2>8. CASE /\ req[r].pc = "upsert" /\ req'[r].pc = "bind" /\ Keeps(r)
             /\ c \in DOMAIN customers'
             /\ c \notin DOMAIN customers => customers'[c].ip = req[r].ip
    BY <1>1, <2>0, <2>8 DEF CuReqReply, Keeps
  <2>9. CASE req[r].pc = "bind" /\ req'[r].pc = "ok" /\ Keeps(r)
    BY <1>1, <2>0, <2>9 DEF CuReqReply, Keeps
  <2> QED
    BY <1>4, <2>1, <2>2, <2>3, <2>4, <2>5, <2>6, <2>7, <2>8, <2>9 DEF CuMoves
<1> QED
  BY <1>3, <1>4, SlotMoves

(* What handlers know of their rows holds throughout. *)
LEMMA ReplyInvariant == ~Faults /\ OwnSlots => (Spec => []ReplyInv)
<1> SUFFICES ASSUME ~Faults, OwnSlots PROVE Spec => []ReplyInv
  OBVIOUS
<1>1. Init => ReplyInv
  <2> SUFFICES ASSUME Init PROVE ReplyInv
    OBVIOUS
  <2>1. \A r \in PiReqs \cup CuReqs : req[r].pc = "idle"
    BY DEF Init
  <2> QED
    BY <2>1 DEF ReplyInv, PiReqReply, CuReqReply
<1>2. TypeInv /\ ReplyInv /\ [Next]_vars => ReplyInv'
  BY PiReply, CuReply DEF ReplyInv
<1> QED
  BY <1>1, <1>2, TypeInvariant, PTL DEF Spec

-----------------------------------------------------------------------------
(* What pi_id of a customer may be: a failed leastLoadedPi leaves none.      *)
PiRefs == DOMAIN pis \cup (IF Faults THEN {NoPi} ELSE {})

(* The Pi of a request that goes on with one. *)
ReqPi(r) == req[r].pi \in IF req[r].blind THEN PiRefs ELSE DOMAIN pis

(* A request that has passed leastLoadedPi, or found its customer's Pi, goes *)
(* on with a registered one, or with none after a failure; Pis are never     *)
(* removed.                                                                  *)
PickInv ==
  /\ \A c \in DOMAIN customers : customers[c].pi \in PiRefs
  /\ \A r \in CuReqs : req[r].pc \in {"alloc", "upsert", "bind", "ok"} => ReqPi(r)

(* No step removes a Pi. *)
LEMMA PisGrow ==
  ASSUME TypeInv, [Next]_vars
  PROVE  DOMAIN pis \subseteq DOMAIN pis'
BY PisStep DEF Kept, Joins

(* A step of a customer's request, as far as its Pi goes. *)
LEMMA CuStepPick ==
  ASSUME TypeInv, PickInv, NEW r \in CuReqs, CuStep(r)
  PROVE  /\ \A c \in DOMAIN customers' : customers'[c].pi \in PiRefs'
         /\ req'[r].pc \in {"alloc", "upsert", "bind", "ok"} => ReqPi(r)'
<1>1. req \in [PiReqs \cup CuReqs -> ReqState] /\ req[r] \in ReqState /\ r \in PiReqs \cup CuReqs
  BY DEF TypeInv, TypeOK
<1> DEFINE Picked == req'[r].pc \in {"alloc", "upsert", "bind", "ok"} => ReqPi(r)'
           Same   == req'[r].pi = req[r].pi /\ req'[r].blind = req[r].blind
<1>0. UNCHANGED pis
  BY DEF CuStep, CuValidate, CuLookup, CuPi, CuPick, CuAlloc, CuUpsert, CuBind
<1>2. CASE req' = [req EXCEPT ![r] = Idle] /\ UNCHANGED customers
  <2>1. req'[r].pc = "idle" BY <1>1, <1>2
  <2> QED BY <1>0, <1>2, <2>1 DEF PickInv, PiRefs
<1>3. CASE (\E c \in CodesOf[r], k \in Keys : CuValidate(r, c, k)) \/ CuLookup(r) \/ CuPi(r)
  <2>1. Picked
    <3>1. CASE \E c \in CodesOf[r], k \in Keys : CuValidate(r, c, k)
      <4>1. req'[r].pc = "lookup" BY <1>1, <3>1 DEF CuValidate
      <4> QED BY <4>1
    <3>2. CASE CuLookup(r)
      <4>1. req'[r].pc \in {"pi", "pick"} BY <1>1, <3>2 DEF CuLookup, ReqState
      <4> QED BY <4>1
    <3>3. CASE CuPi(r)
      <4>1. /\ Same /\ UNCHANGED pis
            /\ req'[r].pc = "pick" \/ req[r].pi \in DOMAIN pis
        BY <1>1, <3>3 DEF CuPi, ReqState
      <4> QED BY <4>1 DEF ReqPi, PiRefs
    <3> QED BY <1>3, <3>1, <3>2, <3>3
  <2>2. UNCHANGED customers BY <1>3 DEF CuValidate, CuLookup, CuPi
  <2> QED BY <1>0, <2>1, <2>2 DEF PickInv, PiRefs
<1>4. CASE CuPick(r)
  <2>1. UNCHANGED <<customers, pis>> BY <1>4 DEF CuPick
  <2>2. ASSUME NEW i \in LeastLoaded, req' = [req EXCEPT ![r].pc = "alloc", ![r].pi = i]
        PROVE  Picked
    <3>1. i \in DOMAIN pis BY DEF LeastLoaded, Eligible
    <3>2. req'[r].pi = i BY <1>1, <2>2 DEF ReqState
    <3> QED BY <2>1, <3>1, <3>2 DEF ReqPi, PiRefs
  <2>3. ASSUME Faults, req' = [req EXCEPT ![r].pc = "alloc", ![r].pi = NoPi, ![r].blind = TRUE]
        PROVE  Picked
    <3>1. req'[r].pi = NoPi /\ req'[r].blind BY <1>1, <2>3 DEF ReqState
    <3>2. NoPi \in PiRefs BY <2>3 DEF PiRefs
    <3> QED BY <2>1, <3>1, <3>2 DEF ReqPi, PiRefs
  <2>4. CASE \E i \in LeastLoaded : req' = [req EXCEPT ![r].pc = "alloc", ![r].pi = i]
    BY <2>1, <2>2, <2>4 DEF PickInv, PiRefs
  <2>5. CASE Faults /\ req' = [req EXCEPT ![r].pc = "alloc", ![r].pi = NoPi, ![r].blind = TRUE]
    BY <2>1, <2>3, <2>5 DEF PickInv, PiRefs
  <2> QED BY <1>2, <1>4, <2>1, <2>4, <2>5 DEF CuPick
<1>5. CASE CuAlloc(r)
  <2>1. ReqPi(r) /\ UNCHANGED <<customers, pis>> BY <1>5 DEF CuAlloc, PickInv
  <2>2. \/ req' = [req EXCEPT ![r] = Idle]
        \/ req' = [req EXCEPT ![r].pc = "upsert"]
        \/ \E n : req' = [req EXCEPT ![r].pc = "upsert", ![r].ip = n]
    BY <1>5 DEF CuAlloc
  <2>3. CASE req' = [req EXCEPT ![r].pc = "upsert"]
    <3>1. Same BY <1>1, <2>3 DEF ReqState
    <3> QED BY <2>1, <3>1 DEF PickInv, ReqPi, PiRefs
  <2>4. CASE \E n : req' = [req EXCEPT ![r].pc = "upsert", ![r].ip = n]
    <3>1. Same BY <1>1, <2>4 DEF ReqState
    <3> QED BY <2>1, <3>1 DEF PickInv, ReqPi, PiRefs
  <2> QED BY <1>2, <2>1, <2>2, <2>3, <2>4
<1>6. CASE CuUpsert(r)
  <2>1. ReqPi(r) /\ req[r].pi \in PiRefs /\ UNCHANGED pis
    BY <1>6 DEF CuUpsert, PickInv, ReqPi, PiRefs
  <2>2. CASE UNCHANGED customers /\ Fail(r) BY <1>2, <2>2
  <2>3. CASE ~(UNCHANGED customers /\ Fail(r))
    <3>1. PICK ip : /\ customers' = Put(customers, req[r].id,
                                        [ip |-> ip, key |-> req[r].key, pi |-> req[r].pi])
                    /\ Goto(r, "bind")
      BY <1>6, <2>3 DEF CuUpsert
    <3>2. Same BY <1>1, <3>1 DEF ReqState
    <3>3. Picked BY <2>1, <3>2 DEF ReqPi, PiRefs
    <3>4. \A c \in DOMAIN customers' : customers'[c].pi \in PiRefs
      BY <2>1, <3>1 DEF Put, PickInv
    <3> QED BY <2>1, <3>3, <3>4 DEF PiRefs
  <2> QED BY <2>2, <2>3
<1>7. CASE CuBind(r)
  <2>1. ReqPi(r) /\ UNCHANGED <<customers, pis>> BY <1>7 DEF CuBind, PickInv
  <2>2. Same BY <1>1, <1>7 DEF CuBind, ReqState
  <2> QED BY <2>1, <2>2 DEF PickInv, ReqPi, PiRefs
<1> QED BY <1>3, <1>4, <1>5, <1>6, <1>7 DEF CuStep

(* What a request has picked, and what is stored, stays a registered Pi.     *)
LEMMA PickInvariant == Spec => []PickInv
<1>1. Init => PickInv
  <2> SUFFICES ASSUME Init PROVE PickInv OBVIOUS
  <2>1. \A r \in CuReqs : req[r].pc = "idle" BY DEF Init
  <2> QED BY <2>1 DEF Init, PickInv
<1>2. TypeInv /\ PickInv /\ [Next]_vars => PickInv'
  <2> SUFFICES ASSUME TypeInv, PickInv, [Next]_vars PROVE PickInv' OBVIOUS
  <2>1. PiRefs \subseteq PiRefs' /\ DOMAIN pis \subseteq DOMAIN pis' BY PisGrow DEF PiRefs
  <2>2. ASSUME NEW r \in CuReqs, CuStep(r) PROVE PickInv'
    <3>1. \A q \in CuReqs \ {r} : req'[q] = req[q] BY <2>2, CuStepMoves
    <3>2. /\ \A c \in DOMAIN customers' : customers'[c].pi \in PiRefs'
          /\ req'[r].pc \in {"alloc", "upsert", "bind", "ok"} => ReqPi(r)'
      BY <2>2, CuStepPick
    <3> QED BY <2>1, <3>1, <3>2 DEF PickInv, ReqPi
  <2>3. ASSUME NEW r \in PiReqs, PiStep(r) PROVE PickInv'
    <3>1. \A q \in CuReqs : req'[q] = req[q] BY <2>3, PiStepMoves, SlotsAssumption
    <3>2. UNCHANGED customers BY <2>3 DEF PiStep, PiLookup, PiAlloc, PiUpsert
    <3> QED BY <2>1, <3>1, <3>2 DEF PickInv, ReqPi
  <2>4. CASE Restart BY <2>1, <2>4 DEF Restart, PickInv
  <2>5. CASE UNCHANGED <<customers, req>> BY <2>1, <2>5 DEF PickInv, ReqPi
  <2> QED BY <2>2, <2>3, <2>4, <2>5 DEF Next, Silence, Heartbeat, AddCode, vars
<1> QED BY <1>1, <1>2, TypeInvariant, PTL DEF Spec

(* A request whose own leastLoadedPi did not fail goes on with a registered  *)
(* Pi, whatever earlier requests stored and whatever else fails              *)
(* (coord.go:494-507).                                                       *)
THEOREM SoundRequestsFindPi == Spec => []SoundRequestFindsPi
<1>1. PickInv => SoundRequestFindsPi BY DEF PickInv, ReqPi, SoundRequestFindsPi
<1> QED BY <1>1, PickInvariant, PTL

-----------------------------------------------------------------------------
(* What a handler knows of its customer's Pi, if nobody else asks for the    *)
(* customer: the Pi in its hands is the stored one, and it picks one only    *)
(* for a customer that has none.                                             *)
CuReqKeep(r) ==
  LET c == req[r].id IN
  /\ req[r].pc \in {"pi", "alloc", "upsert"} /\ c \in DOMAIN customers =>
       customers[c].pi = req[r].pi
  /\ req[r].pc = "pi" => c \in DOMAIN customers
  /\ req[r].pc = "pick" => c \notin DOMAIN customers
  /\ req[r].pc \in {"bind", "ok"} => c \in DOMAIN customers /\ customers[c].pi = req[r].pi

KeepInv == \A r \in CuReqs : CuReqKeep(r)

(* Customers change in upsertCustomer only, which writes one row.            *)
LEMMA UpsertRow ==
  ASSUME NEW r \in CuReqs, CuUpsert(r), customers' # customers
  PROVE  \E ip : customers' = Put(customers, req[r].id,
                                  [ip |-> ip, key |-> req[r].key, pi |-> req[r].pi])
BY DEF CuUpsert

(* The steps of a customer's own request. *)
LEMMA KeepOwn ==
  ASSUME ~Faults, TypeInv, PickInv, KeepInv, NEW r \in CuReqs, CuStep(r)
  PROVE  CuReqKeep(r)'
<1>1. req \in [PiReqs \cup CuReqs -> ReqState] /\ req[r] \in ReqState /\ r \in PiReqs \cup CuReqs
  BY DEF TypeInv, TypeOK
<1>2. CuReqKeep(r) BY DEF KeepInv
<1>3. CASE req' = [req EXCEPT ![r] = Idle]
  <2>1. req'[r].pc = "idle" BY <1>1, <1>3
  <2> QED BY <2>1 DEF CuReqKeep
<1>4. CASE \E c \in CodesOf[r], k \in Keys : CuValidate(r, c, k)
  <2>1. req'[r].pc = "lookup" BY <1>1, <1>4 DEF CuValidate
  <2> QED BY <2>1 DEF CuReqKeep
<1>5. CASE CuLookup(r)
  <2>1. UNCHANGED customers /\ req'[r].id = req[r].id BY <1>1, <1>5 DEF CuLookup, ReqState
  <2>2. \/ req[r].id \in DOMAIN customers /\ req'[r].pc = "pi"
           /\ req'[r].pi = customers[req[r].id].pi
        \/ req[r].id \notin DOMAIN customers /\ req'[r].pc = "pick"
    BY <1>1, <1>5 DEF CuLookup, ReqState
  <2> QED BY <2>1, <2>2 DEF CuReqKeep
<1>6. CASE CuPi(r)
  <2>1. req[r].id \in DOMAIN customers /\ customers[req[r].id].pi = req[r].pi
    BY <1>2, <1>6 DEF CuPi, CuReqKeep
  <2>2. req[r].pi \in DOMAIN pis BY <2>1 DEF PickInv, PiRefs
  <2>3. UNCHANGED customers /\ req' = [req EXCEPT ![r].pc = "alloc"] BY <1>6, <2>2 DEF CuPi
  <2>4. req'[r].pc = "alloc" /\ req'[r].id = req[r].id /\ req'[r].pi = req[r].pi
    BY <1>1, <2>3 DEF ReqState
  <2> QED BY <2>1, <2>3, <2>4 DEF CuReqKeep
<1>7. CASE CuPick(r)
  <2>1. req[r].id \notin DOMAIN customers /\ UNCHANGED customers
    BY <1>2, <1>7 DEF CuPick, CuReqKeep
  <2>2. CASE \E i \in LeastLoaded : req' = [req EXCEPT ![r].pc = "alloc", ![r].pi = i]
    <3>1. req'[r].pc = "alloc" /\ req'[r].id = req[r].id BY <1>1, <2>2 DEF ReqState
    <3> QED BY <2>1, <3>1 DEF CuReqKeep
  <2> QED BY <1>3, <1>7, <2>2 DEF CuPick
<1>8. CASE CuAlloc(r)
  <2>1. req[r].pc = "alloc" /\ UNCHANGED customers BY <1>8 DEF CuAlloc
  <2>2. CASE req' # [req EXCEPT ![r] = Idle]
    <3>1. req'[r].pc = "upsert" /\ req'[r].id = req[r].id /\ req'[r].pi = req[r].pi
      BY <1>1, <1>8, <2>2 DEF CuAlloc, ReqState
    <3> QED BY <1>2, <2>1, <3>1 DEF CuReqKeep
  <2> QED BY <1>3, <2>2
<1>9. CASE CuUpsert(r)
  <2>1. req[r].pc = "upsert" BY <1>9 DEF CuUpsert
  <2>2. CASE ~(UNCHANGED customers /\ Fail(r))
    <3>1. PICK ip : /\ customers' = Put(customers, req[r].id,
                                        [ip |-> ip, key |-> req[r].key, pi |-> req[r].pi])
                    /\ Goto(r, "bind")
      BY <1>9, <2>2 DEF CuUpsert
    <3>2. req'[r].pc = "bind" /\ req'[r].id = req[r].id /\ req'[r].pi = req[r].pi
      BY <1>1, <3>1 DEF ReqState
    <3> QED BY <3>1, <3>2 DEF Put, CuReqKeep
  <2> QED BY <1>3, <2>2
<1>10. CASE CuBind(r)
  <2>1. req[r].pc = "bind" /\ UNCHANGED customers BY <1>10 DEF CuBind
  <2>2. req'[r].pc = "ok" /\ req'[r].id = req[r].id /\ req'[r].pi = req[r].pi
    BY <1>1, <1>10 DEF CuBind, ReqState
  <2> QED BY <1>2, <2>1, <2>2 DEF CuReqKeep
<1> QED BY <1>4, <1>5, <1>6, <1>7, <1>8, <1>9, <1>10 DEF CuStep

(* The steps of others' requests leave its customer alone. *)
LEMMA KeepOthers ==
  ASSUME OwnSlots, TypeInv, ReplyInv, KeepInv,
         NEW r \in CuReqs, NEW q \in CuReqs \ {r}, CuStep(q)
  PROVE  CuReqKeep(r)'
<1>1. req'[r] = req[r] BY CuStepMoves
<1>2. CuReqKeep(r) BY DEF KeepInv
<1>3. CASE customers' = customers BY <1>1, <1>2, <1>3 DEF CuReqKeep
<1>4. CASE customers' # customers
  <2>1. CuUpsert(q)
    BY <1>4 DEF CuStep, CuValidate, CuLookup, CuPi, CuPick, CuAlloc, CuBind
  <2>2. PICK row : customers' = Put(customers, req[q].id, row) BY <1>4, <2>1, UpsertRow
  <2>3. req[q].id \in CodesOf[q] BY <2>1 DEF CuUpsert, ReplyInv, CuReqReply
  <2>4. CASE req[r].pc # "idle"
    <3>1. req[r].id \in CodesOf[r] BY <2>4 DEF ReplyInv, CuReqReply
    <3>2. req[r].id # req[q].id BY <2>3, <3>1 DEF OwnSlots
    <3>3. /\ req[r].id \in DOMAIN customers' <=> req[r].id \in DOMAIN customers
          /\ req[r].id \in DOMAIN customers => customers'[req[r].id] = customers[req[r].id]
      BY <2>2, <3>2 DEF Put
    <3> QED BY <1>1, <1>2, <3>3 DEF CuReqKeep
  <2>5. CASE req[r].pc = "idle" BY <1>1, <2>5 DEF CuReqKeep
  <2> QED BY <2>4, <2>5
<1> QED BY <1>3, <1>4

(* If everybody waits for answers, what handlers know of Pis holds.          *)
LEMMA KeepInvariant == ~Faults /\ OwnSlots => (Spec => []KeepInv)
<1> SUFFICES ASSUME ~Faults, OwnSlots PROVE Spec => []KeepInv OBVIOUS
<1>1. Init => KeepInv
  <2> SUFFICES ASSUME Init PROVE KeepInv OBVIOUS
  <2>1. \A r \in CuReqs : req[r].pc = "idle" BY DEF Init
  <2> QED BY <2>1 DEF KeepInv, CuReqKeep
<1>2. TypeInv /\ PickInv /\ ReplyInv /\ KeepInv /\ [Next]_vars => KeepInv'
  <2> SUFFICES ASSUME TypeInv, PickInv, ReplyInv, KeepInv, [Next]_vars PROVE KeepInv' OBVIOUS
  <2>1. ASSUME NEW q \in CuReqs, CuStep(q) PROVE KeepInv'
    BY <2>1, KeepOwn, KeepOthers DEF KeepInv
  <2>2. ASSUME NEW r \in PiReqs, PiStep(r) PROVE KeepInv'
    <3>1. \A q \in CuReqs : req'[q] = req[q] BY <2>2, PiStepMoves, SlotsAssumption
    <3>2. UNCHANGED customers BY <2>2 DEF PiStep, PiLookup, PiAlloc, PiUpsert
    <3> QED BY <3>1, <3>2 DEF KeepInv, CuReqKeep
  <2>3. CASE Restart
    <3>1. \A q \in CuReqs : req'[q].pc = "idle" BY <2>3 DEF Restart
    <3> QED BY <3>1 DEF KeepInv, CuReqKeep
  <2>4. CASE UNCHANGED <<customers, req>> BY <2>4 DEF KeepInv, CuReqKeep
  <2> QED BY <2>1, <2>2, <2>3, <2>4 DEF Next, Silence, Heartbeat, AddCode, vars
<1> QED BY <1>1, <1>2, TypeInvariant, PickInvariant, ReplyInvariant, PTL DEF Spec

(* Whoever waits for the answer before asking again keeps the Pi it was      *)
(* given as long as that is heard (coord.go:491).                            *)
THEOREM CustomersKeepPi == ~Faults /\ OwnSlots => (Spec => CustomerKeepsPi)
<1> SUFFICES ASSUME ~Faults, OwnSlots PROVE Spec => CustomerKeepsPi OBVIOUS
<1> DEFINE Stays == \A c \in DOMAIN customers : customers'[c].pi = customers[c].pi
<1>1. ASSUME KeepInv, Next PROVE Stays
  <2>1. CASE customers' = customers BY <2>1
  <2>2. CASE customers' # customers
    <3>1. PICK r \in CuReqs : CuUpsert(r)
      BY <1>1, <2>2 DEF Next, PiStep, PiLookup, PiAlloc, PiUpsert, CuStep, CuValidate, CuLookup,
                        CuPi, CuPick, CuAlloc, CuBind, Silence, Heartbeat, AddCode, Restart
    <3>2. PICK ip : customers' = Put(customers, req[r].id,
                                     [ip |-> ip, key |-> req[r].key, pi |-> req[r].pi])
      BY <2>2, <3>1, UpsertRow
    <3>3. req[r].id \in DOMAIN customers => customers[req[r].id].pi = req[r].pi
      BY <1>1, <3>1 DEF CuUpsert, KeepInv, CuReqKeep
    <3> QED BY <3>2, <3>3 DEF Put
  <2> QED BY <2>1, <2>2
<1>2. KeepInv /\ [Next]_vars => [Stays]_vars BY <1>1
<1> DEFINE Keeping == \A c \in DOMAIN customers :
                         Heard(customers[c].pi) => customers'[c].pi = customers[c].pi
<1>3. [Stays]_vars => [Keeping]_vars OBVIOUS
<1> HIDE DEF Stays
<1> QED BY <1>2, <1>3, KeepInvariant, PTL DEF Spec, CustomerKeepsPi

(* ... and is answered with the address and the Pi of its row; the retry run *)
(* shows that waiting is necessary.                                          *)
THEOREM PatientRepliesAreRows == ~Faults /\ OwnSlots => (Spec => []ReplyIsRow)
<1> SUFFICES ASSUME ~Faults, OwnSlots PROVE Spec => []ReplyIsRow OBVIOUS
<1>1. ReplyInv /\ KeepInv => ReplyIsRow
  BY DEF ReplyInv, PiReqReply, CuReqReply, KeepInv, CuReqKeep, ReplyIsRow
<1> QED BY <1>1, ReplyInvariant, KeepInvariant, PTL

-----------------------------------------------------------------------------
(* With the real pools: IPPool counts the rows of the tables here.           *)
Pool == INSTANCE IPPoolProofs WITH
  pis <- Count(pis), customers <- Count(customers),
  MaxPis <- PiCap, MaxCustomers <- CustomerCap

(* The address a row is stored with; the empty string of a Pi whose lookup   *)
(* failed is none.                                                           *)
PiAddress(i)       == IF pis[i].ip = BlankIP THEN <<>> ELSE Pool!PiIP(pis[i].ip)
CustomerAddress(c) == Pool!CustomerIP(customers[c].ip)

(* All devices of the VPN have different addresses, but for the last place   *)
(* of the Pi pool, which is the first customer's.                            *)
DevicesApart ==
  /\ \A i, j \in DOMAIN pis : PiAddress(i) = PiAddress(j) => i = j
  /\ \A c, d \in DOMAIN customers : CustomerAddress(c) = CustomerAddress(d) => c = d
  /\ \A i \in DOMAIN pis, c \in DOMAIN customers :
       PiAddress(i) = CustomerAddress(c) =>
         pis[i].ip = PiCap - 1 /\ customers[c].ip = 0

(* No row and no request in flight has an index outside its pool. *)
PlaceInv ==
  /\ \A i \in DOMAIN pis : pis[i].ip < PiCap
  /\ \A r \in PiReqs : req[r].ip < PiCap
  /\ \A c \in DOMAIN customers : customers[c].ip < CustomerCap
  /\ \A r \in CuReqs : req[r].ip < CustomerCap

(* The capacities are checked before an index is used (nextPiIP,             *)
(* nextCustomerIP), and an index that is found in a table was.               *)
LEMMA PlaceInvariant == Spec => []PlaceInv
<1>1. Init => PlaceInv
  BY CapsAssumption, SlotsAssumption DEF Init, PlaceInv, BlankIP
<1>2. TypeInv /\ PlaceInv /\ [Next]_vars => PlaceInv'
  <2> SUFFICES ASSUME TypeInv, PlaceInv, [Next]_vars PROVE PlaceInv'
    OBVIOUS
  <2>1. \A i \in DOMAIN pis' : pis'[i].ip < PiCap
    <3>1. CASE Kept(pis) BY <3>1 DEF PlaceInv, Kept
    <3>2. ASSUME NEW r \in PiReqs, Joins(pis, r)
          PROVE  \A i \in DOMAIN pis' : pis'[i].ip < PiCap
      BY <3>2 DEF PlaceInv, Joins
    <3> QED BY <3>1, <3>2, PisStep
  <2>2. \A c \in DOMAIN customers' : customers'[c].ip < CustomerCap
    <3>1. CASE Kept(customers) BY <3>1 DEF PlaceInv, Kept
    <3>2. ASSUME NEW r \in CuReqs, Joins(customers, r)
          PROVE  \A c \in DOMAIN customers' : customers'[c].ip < CustomerCap
      BY <3>2 DEF PlaceInv, Joins
    <3> QED BY <3>1, <3>2, CustomersStep
  <2>3. ASSUME NEW r \in PiReqs PROVE req'[r].ip < PiCap
    <3>1. CASE req'[r] = req[r] BY <3>1 DEF PlaceInv
    <3>2. CASE PiMoves(r)
      BY <3>2, CapsAssumption DEF PiMoves, PlaceInv, Keeps, BlankIP
    <3> QED BY <3>1, <3>2, SlotMoves
  <2>4. ASSUME NEW r \in CuReqs PROVE req'[r].ip < CustomerCap
    <3>1. CASE req'[r] = req[r] BY <3>1 DEF PlaceInv
    <3>2. CASE CuMoves(r)
      BY <3>2, CapsAssumption DEF CuMoves, PlaceInv, Keeps, BlankIP
    <3> QED BY <3>1, <3>2, SlotMoves
  <2> QED BY <2>1, <2>2, <2>3, <2>4 DEF PlaceInv
<1> QED BY <1>1, <1>2, TypeInvariant, PTL DEF Spec

(* An index is an address: different places of a pool are different          *)
(* addresses, and only the last Pi's is a customer's.                        *)
LEMMA PlacesApart ==
  ASSUME PiCap = Pool!PiCap, CustomerCap = Pool!CustomerCap
  PROVE  /\ \A m, n \in Nat : Pool!PiIP(m) = Pool!PiIP(n) => m = n
         /\ \A m, n \in Nat : Pool!CustomerIP(m) = Pool!CustomerIP(n) => m = n
         /\ \A m, n \in Nat : /\ m < PiCap /\ n < CustomerCap
                              /\ Pool!PiIP(m) = Pool!CustomerIP(n)
                              => m = PiCap - 1 /\ n = 0
<1>1. Pool!BoundsAssumption BY CapsAssumption DEF Pool!BoundsAssumption
<1>2. \A m, n \in Nat : Pool!PiIP(m) = Pool!PiIP(n) => m = n
  BY <1>1, Pool!SeqIPInjective, 0 \in Nat, 2 \in 1..254
     DEF Pool!PiIP, Pool!SeqIPInjective
<1>3. \A m, n \in Nat : Pool!CustomerIP(m) = Pool!CustomerIP(n) => m = n
  BY <1>1, Pool!SeqIPInjective, 10 \in Nat, 1 \in 1..254
     DEF Pool!CustomerIP, Pool!SeqIPInjective
<1>4. ASSUME NEW m \in Nat, NEW n \in Nat, m < PiCap, n < CustomerCap,
             Pool!PiIP(m) = Pool!CustomerIP(n)
      PROVE  m = PiCap - 1 /\ n = 0
  <2>1. CASE m = PiCap - 1
    <3>1. Pool!CustomerIP(n) = Pool!CustomerIP(0)
      BY <1>1, <1>4, <2>1, Pool!PoolsMeetAtPiCap DEF Pool!PoolsMeetAtPiCap
    <3> QED BY <1>3, <2>1, <3>1
  <2>2. CASE m # PiCap - 1
    <3>1. m \in 0..(Pool!PiCap - 2) BY <1>4, <2>2, CapsAssumption
    <3>2. Pool!PiIP(m) \in Pool!PiRange
      BY <1>1, <3>1, Pool!PiIPInRange DEF Pool!PiIPInRange
    <3>3. Pool!CustomerIP(n) \in Pool!CustomerRange
      BY <1>1, <1>4, Pool!CustomerIPInRange DEF Pool!CustomerIPInRange
    <3>4. Pool!PiRange \cap Pool!CustomerRange = {}
      BY DEF Pool!PiRange, Pool!CustomerRange
    <3> QED BY <1>4, <3>2, <3>3, <3>4
  <2> QED BY <2>1, <2>2
<1> QED BY <1>2, <1>3, <1>4

(* The whole way from a request to an address: with the capacities of the    *)
(* code, no two devices of the VPN ever have the same, faults included.      *)
THEOREM AddressesApart ==
  ASSUME PiCap = Pool!PiCap, CustomerCap = Pool!CustomerCap
  PROVE  Spec => []DevicesApart
<1>1. ASSUME TypeInv, UniqueIPs, PlaceInv PROVE DevicesApart
  <2>1. ASSUME NEW i \in DOMAIN pis
        PROVE  /\ pis[i].ip \in Nat \cup {BlankIP} /\ pis[i].ip < PiCap
               /\ pis[i].ip \in Nat => PiAddress(i) = Pool!PiIP(pis[i].ip)
               /\ pis[i].ip = BlankIP => PiAddress(i) = <<>>
    BY <1>1 DEF TypeInv, TypeOK, PiRow, PlaceInv, PiAddress, BlankIP
  <2>2. ASSUME NEW c \in DOMAIN customers
        PROVE  customers[c].ip \in Nat /\ customers[c].ip < CustomerCap
    BY <1>1 DEF TypeInv, TypeOK, CustomerRow, PlaceInv
  <2>3. \A m \in Nat : Pool!PiIP(m) # <<>> /\ Pool!CustomerIP(m) # <<>>
    BY DEF Pool!PiIP, Pool!CustomerIP, Pool!SeqIP
  <2>4. ASSUME NEW i \in DOMAIN pis, NEW j \in DOMAIN pis, PiAddress(i) = PiAddress(j)
        PROVE  i = j
    <3>1. pis[i].ip = pis[j].ip BY <2>1, <2>3, <2>4, PlacesApart
    <3> QED BY <1>1, <3>1 DEF UniqueIPs
  <2>5. ASSUME NEW c \in DOMAIN customers, NEW d \in DOMAIN customers,
               CustomerAddress(c) = CustomerAddress(d)
        PROVE  c = d
    <3>1. customers[c].ip = customers[d].ip
      BY <2>2, <2>5, PlacesApart DEF CustomerAddress
    <3> QED BY <1>1, <3>1 DEF UniqueIPs
  <2>6. ASSUME NEW i \in DOMAIN pis, NEW c \in DOMAIN customers,
               PiAddress(i) = CustomerAddress(c)
        PROVE  pis[i].ip = PiCap - 1 /\ customers[c].ip = 0
    <3>1. pis[i].ip \in Nat /\ Pool!PiIP(pis[i].ip) = Pool!CustomerIP(customers[c].ip)
      BY <2>1, <2>2, <2>3, <2>6 DEF CustomerAddress
    <3> QED BY <2>1, <2>2, <3>1, PlacesApart
  <2> QED BY <2>4, <2>5, <2>6 DEF DevicesApart
<1> QED BY <1>1, TypeInvariant, AddressesUnique, PlaceInvariant, PTL
==============================================================================
