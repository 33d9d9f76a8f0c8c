---------------------------- MODULE FleetRegistry ----------------------------
(***************************************************************************)
(* The REST side of the coordinator: POST /pi/register, /pi/heartbeat,      *)
(* /customer/register and /admin/codes (coordinator/coord.go) over the      *)
(* SQLite tables pis, customers and access_codes (coordinator/db.go).       *)
(*                                                                         *)
(* A handler is a sequence of separate SQL statements without a transaction *)
(* around them, so every request runs step by step, one statement a step,   *)
(* interleaved with the other requests.  Statements are atomic.             *)
(*                                                                         *)
(* A table is a function from its primary keys to rows.  An address is its  *)
(* index in its pool (IPPool: different indices are different addresses).   *)
(***************************************************************************)
EXTENDS Integers, FiniteSets

CONSTANTS
  Serials,     \* Pi serial numbers (pis.id)
  Codes,       \* access codes (access_codes.code, customers.id)
  PiKeys,      \* WireGuard public keys of Pis
  Keys,        \* WireGuard public keys of customers
  Endpoints,   \* public endpoints STUN may report
  PiReqs,      \* slots for /pi/register requests in flight
  CuReqs,      \* slots for /customer/register requests in flight
  SerialsOf,   \* the serials a slot of PiReqs may carry
  CodesOf,     \* the codes a slot of CuReqs may carry
  PiCap,       \* size of the Pi address pool
  CustomerCap, \* size of the customer address pool
  MaxLoad,     \* bound of the model: customer count a heartbeat may report
  Faults   \* whether a statement may fail other than by a constraint

ASSUME CapsAssumption == PiCap \in Nat /\ CustomerCap \in Nat /\ MaxLoad \in Nat
ASSUME FiniteAssumption == IsFiniteSet(Serials) /\ IsFiniteSet(Codes)
ASSUME SerialsOfAssumption == SerialsOf \in [PiReqs -> SUBSET Serials]
ASSUME CodesOfAssumption == CodesOf \in [CuReqs -> SUBSET Codes]
ASSUME FaultsAssumption == Faults \in BOOLEAN
ASSUME SlotsAssumption == PiReqs \cap CuReqs = {}

(* The empty strings of the code, each outside the set its field ranges over. *)
BlankIP == -1
NoPi    == "no pi"
NoEp    == "no endpoint"
NoId    == "no id"
NoKey   == "no key"

ASSUME BlanksAssumption ==
  NoPi \notin Serials /\ NoEp \notin Endpoints /\ NoId \notin Codes \cup Serials

VARIABLES
  pis,        \* table pis: serial -> row
  customers,  \* table customers: access code -> row
  codes,      \* table access_codes: code -> "unknown", "issued" or "bound"
  req         \* the local variables of the handler in each slot

vars == <<pis, customers, codes, req>>

-----------------------------------------------------------------------------
PiRow == [ip   : Nat \cup {BlankIP},           \* vpn_ip
          key  : PiKeys,                       \* pubkey
          ep   : Endpoints \cup {NoEp},        \* stun_ep
          seen : BOOLEAN,                      \* last_seen within 120 s
          load : 0..MaxLoad]                   \* customers

CustomerRow == [ip : Nat, key : Keys, pi : Serials \cup {NoPi}]

(* Between requests a slot is Idle; "ok" keeps what was answered.  History:  *)
(* blind, the request's own leastLoadedPi has failed.                        *)
Idle == [pc |-> "idle", id |-> NoId, key |-> NoKey, ip |-> BlankIP,
         pi |-> NoPi, blind |-> FALSE]

(* INSERT or UPDATE of the row with primary key x. *)
Put(table, x, row) ==
  [y \in DOMAIN table \cup {x} |-> IF y = x THEN row ELSE table[y]]

(* SELECT COUNT( * ), the index nextPiIP and nextCustomerIP allocate. *)
Count(table) == Cardinality(DOMAIN table)

(* The schema without its UNIQUE columns. *)
TakenNever(table, x, f, v) == FALSE

(* A row other than x's has value v in its UNIQUE column f. *)
Taken(table, x, f, v) == \E y \in DOMAIN table \ {x} : table[y][f] = v

(* The WHERE clause of leastLoadedPi, and its ORDER BY customers. *)
Eligible == {i \in DOMAIN pis : pis[i].seen /\ pis[i].ep # NoEp}
LeastLoaded ==
  {i \in Eligible : \A j \in Eligible : pis[i].load <= pis[j].load}

Goto(r, pc) == req' = [req EXCEPT ![r].pc = pc]
Fail(r)     == req' = [req EXCEPT ![r] = Idle]

-----------------------------------------------------------------------------
(* A lookup whose result is not used. *)
PiLookupForgets(r, i, k) ==
  /\ req[r].pc \in {"idle", "ok"}
  /\ req' = [req EXCEPT ![r] = [Idle EXCEPT !.pc = "alloc", !.id = i, !.key = k]]
  /\ UNCHANGED <<pis, customers, codes>>

(* POST /pi/register.  The slot's first step is piByID: an error there is   *)
(* discarded and leaves a zero record, taken for an existing row.           *)
PiLookup(r, i, k) ==
  /\ req[r].pc \in {"idle", "ok"}
  /\ UNCHANGED <<pis, customers, codes>>
  /\ LET Begin(pc, ip) ==
           req' = [req EXCEPT ![r] =
                     [Idle EXCEPT !.pc = pc, !.id = i, !.key = k, !.ip = ip]]
     IN  \/ i \in DOMAIN pis    /\ Begin("upsert", pis[i].ip)
         \/ i \notin DOMAIN pis /\ Begin("alloc", BlankIP)
         \/ Faults          /\ Begin("upsert", BlankIP)

(* nextPiIP; the error of its COUNT is discarded and leaves 0. *)
PiAlloc(r) ==
  /\ req[r].pc = "alloc"
  /\ UNCHANGED <<pis, customers, codes>>
  /\ \E n \in {Count(pis)} \cup (IF Faults THEN {0} ELSE {}) :
       IF n >= PiCap
       THEN Fail(r)
       ELSE req' = [req EXCEPT ![r].pc = "upsert", ![r].ip = n]

(* upsertPi: an existing row keeps its address; pubkey and vpn_ip are UNIQUE. *)
PiUpsert(r) ==
  /\ req[r].pc = "upsert"
  /\ UNCHANGED <<customers, codes>>
  /\ LET i   == req[r].id
         old == i \in DOMAIN pis
         bad == \/ Taken(pis, i, "key", req[r].key)
                \/ ~old /\ Taken(pis, i, "ip", req[r].ip)
         row == IF old
                THEN [pis[i] EXCEPT !.key = req[r].key]
                ELSE [ip |-> req[r].ip, key |-> req[r].key, ep |-> NoEp,
                      seen |-> FALSE, load |-> 0]
     IN  \/ ~bad /\ pis' = Put(pis, i, row) /\ Goto(r, "ok")
         \/ (bad \/ Faults) /\ UNCHANGED pis /\ Fail(r)

(* POST /pi/heartbeat, piHeartbeat.  The Pi reports the endpoint STUN gave   *)
(* it, or none when STUN failed, and the customers its interface counts.     *)
(* The customer list in the answer is read after it and changes nothing.     *)
Heartbeat(i, e, n) ==
  /\ i \in DOMAIN pis
  /\ pis' = [pis EXCEPT ![i].ep = e, ![i].seen = TRUE, ![i].load = n]
  /\ UNCHANGED <<customers, codes, req>>

(* 120 s pass without a heartbeat of i: the row stays, last_seen is old. *)
Silence(i) ==
  /\ i \in DOMAIN pis /\ pis[i].seen
  /\ pis' = [pis EXCEPT ![i].seen = FALSE]
  /\ UNCHANGED <<customers, codes, req>>

(* POST /admin/codes: INSERT OR IGNORE. *)
AddCode(c) ==
  /\ codes[c] = "unknown"
  /\ codes' = [codes EXCEPT ![c] = "issued"]
  /\ UNCHANGED <<pis, customers, req>>

-----------------------------------------------------------------------------
(* POST /customer/register, first statement: validateCode.  A request that   *)
(* is malformed, rate limited or carries an unknown code changes nothing.    *)
CuValidate(r, c, k) ==
  /\ req[r].pc \in {"idle", "ok"}
  /\ codes[c] # "unknown"
  /\ req' = [req EXCEPT ![r] = [Idle EXCEPT !.pc = "lookup", !.id = c, !.key = k]]
  /\ UNCHANGED <<pis, customers, codes>>

(* Only the address is taken from the row. *)
CuLookupAddress(r) ==
  /\ req[r].pc = "lookup"
  /\ UNCHANGED <<pis, customers, codes>>
  /\ LET c == req[r].id IN
     \/ /\ c \in DOMAIN customers
        /\ req' = [req EXCEPT ![r].pc = "pick", ![r].ip = customers[c].ip]
     \/ c \notin DOMAIN customers /\ Goto(r, "pick")

(* customerByID; its error is discarded and leaves a zero record. *)
CuLookup(r) ==
  /\ req[r].pc = "lookup"
  /\ UNCHANGED <<pis, customers, codes>>
  /\ LET c == req[r].id IN
     \/ /\ c \in DOMAIN customers
        /\ req' = [req EXCEPT ![r].pc = "pi", ![r].ip = customers[c].ip,
                              ![r].pi = customers[c].pi]
     \/ (c \notin DOMAIN customers \/ Faults) /\ Goto(r, "pick")

(* What is stored of the Pi is taken for a Pi. *)
CuPiTrusts(r) ==
  /\ req[r].pc = "pi"
  /\ Goto(r, "alloc")
  /\ UNCHANGED <<pis, customers, codes>>

(* piByID of the customer's Pi.  The row's active column is never written    *)
(* and stays 1, so a Pi that is found is kept.  A discarded error leaves a   *)
(* zero record, whose active is 0.  What the Pi's row says of its endpoint    *)
(* goes into the answer and nowhere else.                                    *)
CuPi(r) ==
  /\ req[r].pc = "pi"
  /\ UNCHANGED <<pis, customers, codes>>
  /\ LET i == req[r].pi IN
     \/ i \in DOMAIN pis /\ Goto(r, "alloc")
     \/ (i \notin DOMAIN pis \/ Faults) /\ Goto(r, "pick")

(* leastLoadedPi.  Ties are broken by last_seen, here by any choice.  A      *)
(* discarded error leaves a zero record, which is not nil: it is assigned.   *)
CuPick(r) ==
  /\ req[r].pc = "pick"
  /\ UNCHANGED <<pis, customers, codes>>
  /\ \/ \E i \in LeastLoaded :
          req' = [req EXCEPT ![r].pc = "alloc", ![r].pi = i]
     \/ Eligible = {} /\ Fail(r)
     \/ /\ Faults
        /\ req' = [req EXCEPT ![r].pc = "alloc", ![r].pi = NoPi,
                              ![r].blind = TRUE]

(* The address is taken to be known already. *)
CuAllocForgotten(r) ==
  /\ req[r].pc = "alloc"
  /\ Goto(r, "upsert")
  /\ UNCHANGED <<pis, customers, codes>>

(* nextCustomerIP, for a customer without an address. *)
CuAlloc(r) ==
  /\ req[r].pc = "alloc"
  /\ UNCHANGED <<pis, customers, codes>>
  /\ IF req[r].ip # BlankIP
     THEN Goto(r, "upsert")
     ELSE \E n \in {Count(customers)} \cup (IF Faults THEN {0} ELSE {}) :
            IF n >= CustomerCap
            THEN Fail(r)
            ELSE req' = [req EXCEPT ![r].pc = "upsert", ![r].ip = n]

(* ON CONFLICT also overwrites vpn_ip. *)
CuUpsertOverwrites(r) ==
  /\ req[r].pc = "upsert"
  /\ ~Taken(customers, req[r].id, "ip", req[r].ip)
  /\ customers' = Put(customers, req[r].id,
                      [ip |-> req[r].ip, key |-> req[r].key, pi |-> req[r].pi])
  /\ Goto(r, "bind")
  /\ UNCHANGED <<pis, codes>>

(* The error of upsertCustomer is discarded, as that of bindCode is. *)
CuUpsertUnchecked(r) ==
  /\ req[r].pc = "upsert"
  /\ customers' = IF Taken(customers, req[r].id, "ip", req[r].ip)
                  THEN customers
                  ELSE Put(customers, req[r].id, [ip |-> req[r].ip,
                           key |-> req[r].key, pi |-> req[r].pi])
  /\ Goto(r, "bind")
  /\ UNCHANGED <<pis, codes>>

(* upsertCustomer: an existing row keeps its address; vpn_ip is UNIQUE. *)
CuUpsert(r) ==
  /\ req[r].pc = "upsert"
  /\ UNCHANGED <<pis, codes>>
  /\ LET c   == req[r].id
         old == c \in DOMAIN customers
         bad == ~old /\ Taken(customers, c, "ip", req[r].ip)
         ip  == IF old THEN customers[c].ip ELSE req[r].ip
     IN  \/ /\ ~bad
            /\ customers' = Put(customers, c, [ip |-> ip, key |-> req[r].key,
                                               pi |-> req[r].pi])
            /\ Goto(r, "bind")
         \/ (bad \/ Faults) /\ UNCHANGED customers /\ Fail(r)

(* bindCode, whose error is discarded, and the answer. *)
CuBind(r) ==
  /\ req[r].pc = "bind"
  /\ \/ codes' = [codes EXCEPT ![req[r].id] = "bound"]
     \/ Faults /\ UNCHANGED codes
  /\ Goto(r, "ok")
  /\ UNCHANGED <<pis, customers>>

(* The process stops and starts: handlers are lost, the tables are not. *)
Restart ==
  /\ req' = [r \in PiReqs \cup CuReqs |-> Idle]
  /\ UNCHANGED <<pis, customers, codes>>

-----------------------------------------------------------------------------
Init ==
  /\ pis = [i \in {} |-> 0] /\ customers = [c \in {} |-> 0]
  /\ codes = [c \in Codes |-> "unknown"]
  /\ req = [r \in PiReqs \cup CuReqs |-> Idle]

PiStep(r) ==
  \/ \E i \in SerialsOf[r], k \in PiKeys : PiLookup(r, i, k)
  \/ PiAlloc(r) \/ PiUpsert(r)

CuStep(r) ==
  \/ \E c \in CodesOf[r], k \in Keys : CuValidate(r, c, k)
  \/ CuLookup(r) \/ CuPi(r) \/ CuPick(r) \/ CuAlloc(r) \/ CuUpsert(r) \/ CuBind(r)

Next ==
  \/ \E r \in PiReqs : PiStep(r)
  \/ \E r \in CuReqs : CuStep(r)
  \/ \E i \in Serials : Silence(i)
  \/ \E i \in Serials, e \in Endpoints \cup {NoEp}, n \in 0..MaxLoad :
       Heartbeat(i, e, n)
  \/ \E c \in Codes : AddCode(c)
  \/ Restart

Spec == Init /\ [][Next]_vars

-----------------------------------------------------------------------------
ReqState ==
  [pc    : {"idle", "lookup", "pi", "pick", "alloc", "upsert", "bind", "ok"},
   id    : Serials \cup Codes \cup {NoId},
   key   : PiKeys \cup Keys \cup {NoKey},
   ip    : Nat \cup {BlankIP},
   pi    : Serials \cup {NoPi},
   blind : BOOLEAN]

(* Every row and every request has the fields of the schema and the code.    *)
(* In particular no customer row is ever stored with the empty address.      *)
TypeOK ==
  /\ DOMAIN pis \subseteq Serials /\ pis \in [DOMAIN pis -> PiRow]
  /\ DOMAIN customers \subseteq Codes
  /\ customers \in [DOMAIN customers -> CustomerRow]
  /\ codes \in [Codes -> {"unknown", "issued", "bound"}]
  /\ req \in [PiReqs \cup CuReqs -> ReqState]

PiAddresses == [i \in DOMAIN pis |-> pis[i].ip]
PiBook == INSTANCE AddressBook WITH
  Owners <- Serials, Cap <- PiCap, book <- PiAddresses

(* As long as no statement fails, the concurrent handlers of /pi/register    *)
(* hand out addresses as an AddressBook does, although each counts the rows  *)
(* in one statement and inserts in another (nextPiIP, upsertPi).             *)
PiBookSpec == PiBook!BookSpec

CustomerAddresses == [c \in DOMAIN customers |-> customers[c].ip]
CustomerBook == INSTANCE AddressBook WITH
  Owners <- Codes, Cap <- CustomerCap, book <- CustomerAddresses

(* The same of the handlers of /customer/register, failing statements        *)
(* included: a row count that cannot be read is taken to be 0, an address    *)
(* that is taken once there is a row (nextCustomerIP, upsertCustomer).       *)
CustomerBookSpec == CustomerBook!BookSpec

(* Failing statements, retries and restarts included: a row, once stored,    *)
(* is never removed and never changes its address (upsertPi, upsertCustomer). *)
AddressKept ==
  [][/\ \A i \in DOMAIN pis : i \in DOMAIN pis' /\ pis'[i].ip = pis[i].ip
     /\ \A c \in DOMAIN customers :
          c \in DOMAIN customers' /\ customers'[c].ip = customers[c].ip]_vars

(* used_by references customers(id): a code is bound only to a stored        *)
(* customer, also when the insert lost a race or the process was restarted   *)
(* between upsertCustomer and bindCode.                                      *)
BoundHasCustomer ==
  \A c \in Codes : codes[c] = "bound" => c \in DOMAIN customers

(* A failed leastLoadedPi leaves a customer stored without a Pi              *)
(* (coord.go:501).  No other request passes that on: whatever rows earlier   *)
(* requests left and whatever else fails, a request whose own leastLoadedPi  *)
(* did not fail goes on with, stores and is answered a registered Pi.        *)
SoundRequestFindsPi ==
  \A r \in CuReqs :
    req[r].pc \in {"alloc", "upsert", "bind", "ok"} /\ ~req[r].blind =>
      req[r].pi \in DOMAIN pis

(* A customer stays with the Pi it was given, through new keys, other        *)
(* customers and other Pis (coord.go:491), as long as that Pi is heard, if   *)
(* it waits for its answers: its old Pi's agent would take it off the        *)
(* interface, its device not move.  Whether it should stay with a Pi that    *)
(* went silent, as it does, or move, as the comment at coord.go:499 has it,  *)
(* is left open here.                                                        *)
Heard(i) == i \in DOMAIN pis /\ pis[i].seen

CustomerKeepsPi ==
  [][\A c \in DOMAIN customers :
       Heard(customers[c].pi) => customers'[c].pi = customers[c].pi]_vars

(* The address a Pi or a customer is told, and configures its interface      *)
(* with, is the address of its row, which is the one its peers are told; and *)
(* the Pi a customer is told to call is the one that will list it.           *)
ReplyIsRow ==
  /\ \A r \in PiReqs : req[r].pc = "ok" =>
       req[r].id \in DOMAIN pis /\ pis[req[r].id].ip = req[r].ip
  /\ \A r \in CuReqs : req[r].pc = "ok" =>
       /\ req[r].id \in DOMAIN customers
       /\ customers[req[r].id].ip = req[r].ip /\ customers[req[r].id].pi = req[r].pi
==============================================================================
