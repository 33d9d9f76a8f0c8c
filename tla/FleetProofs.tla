----------------------------- MODULE FleetProofs -----------------------------
(***************************************************************************)
(* Proofs about Fleet, for any Pis, customers, keys and numbers of faults.  *)
(***************************************************************************)
EXTENDS Fleet, FiniteSetTheorems, TLAPS

(* An interface holds peers with the addresses of customers. *)
WgOK(w) == DOMAIN w \subseteq Keys /\ \A k \in DOMAIN w : w[k] \in Codes \cup {NoCode}

(* ... also after a peer is set or removed (addPeer, removePeer). *)
LEMMA SetOK ==
  ASSUME NEW w, WgOK(w), NEW k \in Keys, NEW c \in Codes
  PROVE  /\ WgOK(Set(w, k, c)) /\ DOMAIN Set(w, k, c) = DOMAIN w \cup {k}
         /\ WgOK(Without(w, k)) /\ DOMAIN Without(w, k) = DOMAIN w \ {k}
  <1> DEFINE u == [y \in DOMAIN w |-> IF w[y] = c THEN NoCode ELSE w[y]]
  <1>1. DOMAIN u = DOMAIN w /\ \A y \in DOMAIN w : u[y] \in Codes \cup {NoCode}
    BY DEF WgOK
  <1>2. Set(w, k, c) = Put(u, k, c)
    BY DEF Set
  <1> HIDE DEF u
  <1>3. WgOK(Set(w, k, c)) /\ DOMAIN Set(w, k, c) = DOMAIN w \cup {k}
    BY <1>1, <1>2 DEF WgOK, Put
  <1>4. WgOK(Without(w, k)) /\ DOMAIN Without(w, k) = DOMAIN w \ {k}
    BY DEF WgOK, Without
  <1> QED BY <1>3, <1>4

Inv == TypeOK /\ KnownIsThere

(* Registered Pis with empty interfaces satisfy the invariant. *)
LEMMA InitHolds == Init => Inv
  <1> SUFFICES ASSUME Init PROVE Inv
    OBVIOUS
  <1>1. NoBeat \in Beats
    BY DEF NoBeat, Beats
  <1>2. DOMAIN <<>> = {}
    OBVIOUS
  <1>3. \A p \in Pis : wg[p] = <<>> /\ DOMAIN wg[p] = {} /\ known[p] = {}
    BY <1>2 DEF Init
  <1>4. astray \in [Pis -> SUBSET Keys] /\ \A p \in Pis : astray[p] = {}
    BY DEF Init
  <1>a. changes \in 0..MaxChanges /\ faults \in 0..MaxFaults
    BY BoundsAssumption DEF Init
  <1>5. /\ DOMAIN rows = {} /\ late \subseteq [pi : Pis, beat : Beats]
        /\ cols \in [Pis -> Beats] /\ beat \in [Pis -> Beats] /\ nat \in [Pis -> Hosts]
    BY <1>1, <1>2 DEF Init
  <1>6. /\ DOMAIN wg = Pis /\ known \in [Pis -> SUBSET Keys]
        /\ pc \in [Pis -> {"idle", "sent", "add", "remove"}]
        /\ list \in [Pis -> SUBSET Entries] /\ seen \in [Pis -> SUBSET Keys]
        /\ \A p \in Pis : list[p] = {} /\ seen[p] = {}
    BY DEF Init
  <1>7. TypeOK
    BY <1>3, <1>4, <1>a, <1>5, <1>6 DEF TypeOK
  <1> QED BY <1>3, <1>4, <1>7 DEF Inv, KnownIsThere

(* What a fault, or none, does to the count of faults. *)
LEMMA FaultOK == TypeOK /\ (Fault \/ NoFault) => faults' \in 0..MaxFaults
  BY BoundsAssumption DEF TypeOK, Fault, NoFault

(* Registrations and remappings. *)
LEMMA EnvironmentKeeps ==
  ASSUME Inv, \/ \E c \in Codes, k \in Keys : Register(c, k)
              \/ \E p \in Pis, h \in Hosts : Remap(p, h)
              \/ ServeLate
  PROVE  Inv'
  <1> USE DEF Inv
  <1>1. ASSUME NEW c \in Codes, NEW k \in Keys, Register(c, k) PROVE Inv'
    <2>1. PICK p \in Pis : rows' = Put(rows, c, [key |-> k, pi |-> p]) /\ (Fault \/ NoFault)
      BY <1>1 DEF Register
    <2>2. k \in KeysOf[c] /\ changes' \in 0..MaxChanges
      BY <1>1, BoundsAssumption DEF Register, TypeOK
    <2>3. /\ DOMAIN rows' \subseteq Codes
          /\ \A d \in DOMAIN rows' : rows'[d].key \in KeysOf[d] /\ rows'[d].pi \in Pis
      BY <2>1, <2>2 DEF TypeOK, Put
    <2>4. faults' \in 0..MaxFaults
      BY <2>1, FaultOK
    <2> QED BY <1>1, <2>2, <2>3, <2>4 DEF Register, TypeOK, KnownIsThere, agent
  <1>2. ASSUME NEW p \in Pis, NEW h \in Hosts, Remap(p, h) PROVE Inv'
    <2>1. changes' \in 0..MaxChanges /\ nat' \in [Pis -> Hosts]
      BY <1>2, BoundsAssumption DEF Remap, TypeOK
    <2> QED BY <1>2, <2>1 DEF Remap, TypeOK, KnownIsThere, agent
  <1>3. ASSUME ServeLate PROVE Inv'
    <2>1. cols' \in [Pis -> Beats] /\ late' \subseteq [pi : Pis, beat : Beats]
      BY <1>3 DEF ServeLate, TypeOK
    <2> QED BY <1>3, <2>1 DEF ServeLate, TypeOK, KnownIsThere, agent
  <1> QED BY <1>1, <1>2, <1>3

(* A tick up to its answer, or without one. *)
LEMMA TickKeeps ==
  ASSUME Inv, NEW p \in Pis, Measure(p) \/ Serve(p) \/ TimeOut(p)
  PROVE  Inv'
  <1> USE DEF Inv
  <1>0. NoBeat \in Beats
    BY DEF NoBeat, Beats
  <1>1. CASE Measure(p)
    <2>1. PICK e \in Stun(p), n \in {PeerCount(p), 0} :
            /\ beat' = [beat EXCEPT ![p] = [ep |-> e, load |-> n]]
            /\ Fault \/ NoFault
      BY <1>1 DEF Measure
    <2>2. n \in Nat
      <3>1. PeerCount(p) \in Nat
        BY FiniteAssumption, FS_Subset, FS_CardinalityType DEF TypeOK, PeerCount
      <3> QED BY <2>1, <3>1
    <2>3. e \in Endpoints \cup {NoEp}
      BY <2>1 DEF Stun, Mapping, Endpoints, TypeOK
    <2>4. beat' \in [Pis -> Beats]
      BY <2>1, <2>2, <2>3 DEF TypeOK, Beats
    <2>5. faults' \in 0..MaxFaults
      BY <2>1, FaultOK
    <2>6. pc' \in [Pis -> {"idle", "sent", "add", "remove"}]
          /\ \A q \in Pis : pc'[q] # "add" => list[q] = {}
      BY <1>1 DEF Measure, TypeOK
    <2> QED BY <1>1, <2>4, <2>5, <2>6 DEF Measure, TypeOK, KnownIsThere, table
  <1>2. CASE Serve(p)
    <2>1. PICK part \in SUBSET Assigned(p) :
            list' = [list EXCEPT ![p] = part] /\ (Fault \/ NoFault)
      BY <1>2 DEF Serve
    <2>2. \A e \in part : e \in Entries /\ e.key \in KeysOf[e.code]
      BY <2>1, KeysOfAssumption DEF Assigned, Entries, TypeOK
    <2>3. /\ list' \in [Pis -> SUBSET Entries]
          /\ \A q \in Pis : \A e \in list'[q] : e.key \in KeysOf[e.code]
      BY <2>1, <2>2 DEF TypeOK
    <2>4. /\ pc' \in [Pis -> {"idle", "sent", "add", "remove"}]
          /\ \A q \in Pis : pc'[q] # "add" => list'[q] = {}
      BY <1>2, <2>1 DEF Serve, TypeOK
    <2>5. /\ cols' \in [Pis -> Beats] /\ beat' \in [Pis -> Beats]
          /\ seen' \in [Pis -> SUBSET Keys]
          /\ \A q \in Pis : seen'[q] \subseteq known[q]
      BY <1>0, <1>2 DEF Serve, TypeOK
    <2>6. faults' \in 0..MaxFaults
      BY <2>1, FaultOK
    <2> QED BY <1>2, <2>3, <2>4, <2>5, <2>6 DEF Serve, TypeOK, KnownIsThere
  <1>3. CASE TimeOut(p)
    <2>1. /\ pc' \in [Pis -> {"idle", "sent", "add", "remove"}]
          /\ \A q \in Pis : pc'[q] # "add" => list[q] = {}
      BY <1>3 DEF TimeOut, TypeOK
    <2>2. beat' \in [Pis -> Beats] /\ late' \subseteq [pi : Pis, beat : Beats]
      BY <1>0, <1>3 DEF TimeOut, TypeOK
    <2>3. faults' \in 0..MaxFaults
      BY <1>3, FaultOK DEF TimeOut
    <2> QED BY <1>3, <2>1, <2>2, <2>3 DEF TimeOut, TypeOK, KnownIsThere, table
  <1> QED BY <1>1, <1>2, <1>3

(* A command concerns one key of one agent: it works, or leaves the          *)
(* interface as it is and that key astray.                                   *)
LEMMA CommandOK ==
  ASSUME TypeOK, NEW p \in Pis, NEW k \in Keys, NEW w, WgOK(w), Command(p, k, w)
  PROVE  /\ DOMAIN wg' = Pis /\ \A q \in Pis : WgOK(wg'[q])
         /\ astray' \in [Pis -> SUBSET Keys] /\ faults' \in 0..MaxFaults
         /\ \A q \in Pis \ {p} : wg'[q] = wg[q] /\ astray'[q] = astray[q]
         /\ \/ wg'[p] = w /\ astray'[p] = astray[p] \ {k}
            \/ wg'[p] = wg[p] /\ astray'[p] = astray[p] \cup {k}
  <1>1. faults' \in 0..MaxFaults
    BY FaultOK DEF Command
  <1>2. CASE wg' = [wg EXCEPT ![p] = w] /\ astray' = [astray EXCEPT ![p] = @ \ {k}]
    BY <1>1, <1>2 DEF TypeOK, WgOK
  <1>3. CASE UNCHANGED wg /\ astray' = [astray EXCEPT ![p] = @ \cup {k}]
    BY <1>1, <1>3 DEF TypeOK, WgOK
  <1> QED BY <1>2, <1>3 DEF Command

(* syncPeers: a key is marked with the command that adds it, and forgotten   *)
(* with the one that removes it.                                             *)
LEMMA SyncKeeps ==
  ASSUME Inv, NEW p \in Pis, SyncAdd(p) \/ SyncAdded(p) \/ SyncRemove(p) \/ SyncDone(p)
  PROVE  Inv'
  <1> USE DEF Inv
  <1>0. \A q \in Pis : WgOK(wg[q])
    BY DEF TypeOK, WgOK
  <1>1. CASE SyncAdd(p)
    <2>1. PICK e \in list[p] :
            /\ list' = [list EXCEPT ![p] = @ \ {e}]
            /\ seen' = [seen EXCEPT ![p] = @ \cup {e.key}]
            /\ known' = [known EXCEPT ![p] = @ \cup {e.key}]
            /\ IF e.key \in known[p]
               THEN UNCHANGED <<wg, faults, astray>>
               ELSE Command(p, e.key, Set(wg[p], e.key, e.code))
      BY <1>1 DEF SyncAdd, See, Mark
    <2>2. e.key \in Keys /\ e.code \in Codes
      BY <2>1 DEF TypeOK, Entries
    <2>3. /\ list' \in [Pis -> SUBSET Entries] /\ seen' \in [Pis -> SUBSET Keys]
          /\ known' \in [Pis -> SUBSET Keys]
          /\ \A q \in Pis : seen'[q] \subseteq known'[q]
          /\ \A q \in Pis : known'[q] = known[q] \cup (IF q = p THEN {e.key} ELSE {})
          /\ \A q \in Pis : list'[q] \subseteq list[q]
      BY <2>1, <2>2 DEF TypeOK
    <2>4. /\ WgOK(Set(wg[p], e.key, e.code))
          /\ DOMAIN Set(wg[p], e.key, e.code) = DOMAIN wg[p] \cup {e.key}
      BY <1>0, <2>2, SetOK
    <2>5. /\ DOMAIN wg' = Pis /\ \A q \in Pis : WgOK(wg'[q])
          /\ astray' \in [Pis -> SUBSET Keys] /\ faults' \in 0..MaxFaults
          /\ \A q \in Pis \ {p} : wg'[q] = wg[q] /\ astray'[q] = astray[q]
          /\ \/ UNCHANGED <<wg, astray>> /\ e.key \in known[p]
             \/ /\ DOMAIN wg'[p] = DOMAIN wg[p] \cup {e.key}
                /\ astray'[p] = astray[p] \ {e.key}
             \/ wg'[p] = wg[p] /\ astray'[p] = astray[p] \cup {e.key}
      <3>1. CASE e.key \in known[p]
        BY <1>0, <2>1, <3>1 DEF TypeOK
      <3>2. CASE e.key \notin known[p]
        <4>1. Command(p, e.key, Set(wg[p], e.key, e.code))
          BY <2>1, <3>2
        <4> QED BY <2>2, <2>4, <4>1, CommandOK
      <3> QED BY <3>1, <3>2
    <2>6. KnownIsThere'
      <3> SUFFICES ASSUME NEW q \in Pis
                   PROVE  known'[q] \ astray'[q] = DOMAIN wg'[q] \ astray'[q]
        BY DEF KnownIsThere
      <3>1. known[q] \ astray[q] = DOMAIN wg[q] \ astray[q]
        BY DEF KnownIsThere
      <3>2. CASE q # p
        BY <2>3, <2>5, <3>1, <3>2
      <3>3. CASE q = p
        <4>1. known'[p] = known[p] \cup {e.key}
          BY <2>3
        <4> QED BY <2>5, <3>1, <3>3, <4>1
      <3> QED BY <3>2, <3>3
    <2>7. \A q \in Pis : /\ \A x \in list'[q] : x.key \in KeysOf[x.code]
                         /\ pc[q] # "add" => list'[q] = {}
      BY <2>3 DEF TypeOK
    <2> QED BY <1>1, <2>3, <2>5, <2>6, <2>7 DEF SyncAdd, TypeOK, WgOK, table
  <1>2. CASE SyncAdded(p)
    <2>1. pc' \in [Pis -> {"idle", "sent", "add", "remove"}]
          /\ \A q \in Pis : pc'[q] # "add" => list[q] = {}
      BY <1>2 DEF SyncAdded, TypeOK
    <2> QED BY <1>2, <2>1 DEF SyncAdded, TypeOK, KnownIsThere, table
  <1>3. CASE SyncRemove(p)
    <2>1. PICK k \in known[p] \ seen[p] :
            /\ known' = [known EXCEPT ![p] = @ \ {k}]
            /\ Command(p, k, Without(wg[p], k))
      BY <1>3 DEF SyncRemove, Forget, RemovePeer
    <2>2. k \in Keys
      BY <2>1 DEF TypeOK
    <2>3. WgOK(Without(wg[p], k)) /\ DOMAIN Without(wg[p], k) = DOMAIN wg[p] \ {k}
      BY <1>0 DEF WgOK, Without
    <2>4. /\ DOMAIN wg' = Pis /\ \A q \in Pis : WgOK(wg'[q])
          /\ astray' \in [Pis -> SUBSET Keys] /\ faults' \in 0..MaxFaults
          /\ \A q \in Pis \ {p} : wg'[q] = wg[q] /\ astray'[q] = astray[q]
          /\ \/ DOMAIN wg'[p] = DOMAIN wg[p] \ {k} /\ astray'[p] = astray[p] \ {k}
             \/ wg'[p] = wg[p] /\ astray'[p] = astray[p] \cup {k}
      BY <2>1, <2>2, <2>3, CommandOK
    <2>5. /\ known' \in [Pis -> SUBSET Keys]
          /\ \A q \in Pis : known'[q] = IF q = p THEN known[p] \ {k} ELSE known[q]
          /\ \A q \in Pis : seen[q] \subseteq known'[q]
      BY <2>1 DEF TypeOK
    <2>6. KnownIsThere'
      <3> SUFFICES ASSUME NEW q \in Pis
                   PROVE  known'[q] \ astray'[q] = DOMAIN wg'[q] \ astray'[q]
        BY DEF KnownIsThere
      <3>1. known[q] \ astray[q] = DOMAIN wg[q] \ astray[q]
        BY DEF KnownIsThere
      <3>2. CASE q # p
        BY <2>4, <2>5, <3>1, <3>2
      <3>3. CASE q = p
        <4>1. known'[p] = known[p] \ {k}
          BY <2>5
        <4> QED BY <2>4, <3>1, <3>3, <4>1
      <3> QED BY <3>2, <3>3
    <2> QED BY <1>3, <2>4, <2>5, <2>6 DEF SyncRemove, TypeOK, WgOK, table
  <1>4. CASE SyncDone(p)
    <2>1. /\ pc' \in [Pis -> {"idle", "sent", "add", "remove"}]
          /\ \A q \in Pis : pc'[q] # "add" => list[q] = {}
          /\ seen' \in [Pis -> SUBSET Keys] /\ \A q \in Pis : seen'[q] \subseteq known[q]
      BY <1>4 DEF SyncDone, TypeOK
    <2> QED BY <1>4, <2>1 DEF SyncDone, TypeOK, KnownIsThere, table
  <1> QED BY <1>1, <1>2, <1>3, <1>4

(* A restarted agent believes nothing. *)
LEMMA RestartKeeps == ASSUME Inv, NEW p \in Pis, Restart(p) PROVE Inv'
  <1> USE DEF Inv
  <1>0. NoBeat \in Beats /\ DOMAIN <<>> = {}
    BY DEF NoBeat, Beats
  <1>1. PICK w \in {wg[p], <<>>} :
          wg' = [wg EXCEPT ![p] = w] /\ astray' = [astray EXCEPT ![p] = DOMAIN w]
    BY DEF Restart
  <1>a. WgOK(w)
    BY <1>0, <1>1 DEF TypeOK, WgOK
  <1>2. /\ DOMAIN wg' = Pis /\ astray' \in [Pis -> SUBSET Keys]
        /\ wg'[p] = w /\ astray'[p] = DOMAIN w
        /\ \A q \in Pis : WgOK(wg'[q])
        /\ \A q \in Pis \ {p} : wg'[q] = wg[q] /\ astray'[q] = astray[q]
    BY <1>1, <1>a DEF TypeOK, WgOK
  <1>3. /\ known' \in [Pis -> SUBSET Keys]
        /\ \A q \in Pis : known'[q] = IF q = p THEN {} ELSE known[q]
    BY DEF Restart, TypeOK
  <1>4. /\ list' \in [Pis -> SUBSET Entries] /\ seen' \in [Pis -> SUBSET Keys]
        /\ \A q \in Pis : list'[q] = IF q = p THEN {} ELSE list[q]
        /\ \A q \in Pis : seen'[q] = IF q = p THEN {} ELSE seen[q]
        /\ pc' \in [Pis -> {"idle", "sent", "add", "remove"}]
        /\ \A q \in Pis : pc'[q] # "add" => list'[q] = {}
    BY DEF Restart, TypeOK
  <1>5. beat' \in [Pis -> Beats] /\ late' \subseteq [pi : Pis, beat : Beats]
    BY <1>0 DEF Restart, TypeOK
  <1>6. faults' \in 0..MaxFaults
    BY FaultOK DEF Restart
  <1>7. KnownIsThere'
    BY <1>2, <1>3 DEF KnownIsThere
  <1>8. TypeOK'
    BY <1>2, <1>3, <1>4, <1>5, <1>6 DEF Restart, TypeOK, WgOK, table
  <1> QED BY <1>7, <1>8

(* The invariant holds throughout, whatever fails. *)
LEMMA Invariance == Spec => []Inv
  <1>1. Inv /\ UNCHANGED vars => Inv'
    BY DEF Inv, TypeOK, KnownIsThere, vars, table, agent
  <1>2. Inv /\ [Next]_vars => Inv'
    BY <1>1, EnvironmentKeeps, TickKeeps, SyncKeeps, RestartKeeps DEF Next, Agent
  <1> QED BY InitHolds, <1>2, PTL DEF Spec

(* The types of the tables, the interfaces and the agents. *)
THEOREM TypeCorrect == Spec => []TypeOK
  <1>1. Inv => TypeOK
    BY DEF Inv
  <1> QED BY Invariance, <1>1, PTL

(* An agent never looks at its interface, and is right about it all the same. *)
THEOREM KnownIsThereHolds == Spec => []KnownIsThere
  <1>1. Inv => KnownIsThere
    BY DEF Inv
  <1> QED BY Invariance, <1>1, PTL
-----------------------------------------------------------------------------
(* Each customer has keys of its own, as in the run. *)
KeysApart == \A c, d \in Codes : c # d => KeysOf[c] \cap KeysOf[d] = {}

(* An address goes to keys of its customer; a list has one entry per         *)
(* customer, none for a customer whose key was seen in it; and a known key   *)
(* without its address, if commands for it have worked, was displaced in     *)
(* this very tick, by an entry of its customer with another key, so that it  *)
(* will be removed.                                                          *)
Lists(p) ==
  /\ \A e, f \in list[p] : e.code = f.code => e = f
  /\ \A k \in seen[p], e \in list[p] : k \notin KeysOf[e.code]

Owned(p) == \A k \in DOMAIN wg[p] : wg[p][k] = NoCode \/ k \in KeysOf[wg[p][k]]

Displaced(p) ==
  \A k \in known[p] \ astray[p] : wg[p][k] = NoCode => Removing(p, k) /\ \A e \in list[p] : e.key # k

Addresses(p) == Lists(p) /\ Owned(p) /\ Displaced(p)

AddrInv == \A p \in Pis : Addresses(p)

(* What a list holds: keys of the customers it gives their addresses. *)
LEMMA Entry ==
  ASSUME TypeOK, NEW p \in Pis, NEW e \in list[p]
  PROVE  e \in Entries /\ e.key \in Keys /\ e.code \in Codes /\ e.key \in KeysOf[e.code]
  BY DEF TypeOK, Entries

(* A step that touches nothing an address depends on. *)
LEMMA SameAddresses ==
  ASSUME AddrInv, UNCHANGED <<wg, known, list, seen, astray>>,
         \A p \in Pis : pc[p] \in {"add", "remove"} => pc'[p] \in {"add", "remove"}
  PROVE  AddrInv'
  BY DEF AddrInv, Addresses, Lists, Owned, Displaced, Removing

(* A step of one agent that keeps the addresses of its own interface keeps   *)
(* those of all.                                                             *)
LEMMA OneAgent ==
  ASSUME AddrInv, NEW p \in Pis, Addresses(p)',
         \A q \in Pis \ {p} : /\ wg'[q] = wg[q] /\ astray'[q] = astray[q]
                              /\ known'[q] = known[q] /\ list'[q] = list[q]
                              /\ seen'[q] = seen[q] /\ pc'[q] = pc[q]
  PROVE  AddrInv'
  <1> SUFFICES ASSUME NEW q \in Pis PROVE Addresses(q)'
    BY DEF AddrInv
  <1>1. CASE q = p
    BY <1>1
  <1>2. CASE q # p
    <2>1. Addresses(q)
      BY DEF AddrInv
    <2> QED BY <1>2, <2>1 DEF Addresses, Lists, Owned, Displaced, Removing
  <1> QED BY <1>1, <1>2

(* An answer has one entry per customer of the table; before it no known key *)
(* is without its address.                                                   *)
LEMMA ServeAddresses ==
  ASSUME TypeOK, AddrInv, NEW p \in Pis, Serve(p)
  PROVE  AddrInv'
  <1>1. PICK part \in SUBSET Assigned(p) : list' = [list EXCEPT ![p] = part]
    BY DEF Serve
  <1>2. /\ UNCHANGED <<wg, known, astray>> /\ pc[p] = "sent"
        /\ pc' = [pc EXCEPT ![p] = "add"] /\ seen' = [seen EXCEPT ![p] = {}]
    BY DEF Serve
  <1>3. /\ list'[p] = part /\ seen'[p] = {} /\ pc'[p] = "add"
        /\ \A q \in Pis \ {p} : list'[q] = list[q] /\ seen'[q] = seen[q] /\ pc'[q] = pc[q]
    BY <1>1, <1>2 DEF TypeOK
  <1>4. \A e, f \in part : e.code = f.code => e = f
    BY <1>1 DEF Assigned
  <1>5. Addresses(p)'
    <2>1. Owned(p) /\ Displaced(p)
      BY DEF AddrInv, Addresses
    <2>2. \A k \in known[p] \ astray[p] : wg[p][k] # NoCode
      BY <1>2, <2>1 DEF Displaced, Removing
    <2> QED BY <1>2, <1>3, <1>4, <2>1, <2>2 DEF Addresses, Lists, Owned, Displaced
  <1> QED BY <1>2, <1>3, <1>5, OneAgent

(* An entry is handled: its key is skipped, or takes its customer's address  *)
(* from a key that this list no longer has.                                  *)
LEMMA AddAddresses ==
  ASSUME KeysApart, Inv, AddrInv, NEW p \in Pis, SyncAdd(p)
  PROVE  AddrInv'
  <1> USE DEF Inv
  <1>1. PICK e \in list[p] :
          /\ list' = [list EXCEPT ![p] = @ \ {e}]
          /\ seen' = [seen EXCEPT ![p] = @ \cup {e.key}]
          /\ known' = [known EXCEPT ![p] = @ \cup {e.key}]
          /\ IF e.key \in known[p]
             THEN UNCHANGED <<wg, faults, astray>>
             ELSE Command(p, e.key, Set(wg[p], e.key, e.code))
    BY DEF SyncAdd, See, Mark
  <1>2. pc[p] = "add" /\ UNCHANGED pc
    BY DEF SyncAdd
  <1>3. /\ list'[p] = list[p] \ {e} /\ seen'[p] = seen[p] \cup {e.key}
        /\ known'[p] = known[p] \cup {e.key}
        /\ \A q \in Pis \ {p} : list'[q] = list[q] /\ seen'[q] = seen[q] /\ known'[q] = known[q]
    BY <1>1 DEF TypeOK
  <1>4. e.key \in Keys /\ e.code \in Codes /\ e.key \in KeysOf[e.code]
    BY Entry
  <1>5. \A q \in Pis \ {p} : wg'[q] = wg[q] /\ astray'[q] = astray[q]
    BY <1>1 DEF Command, TypeOK
  <1>6. Addresses(p)'
    <2>1. Lists(p) /\ Owned(p) /\ Displaced(p)
      BY DEF AddrInv, Addresses
    <2>2. ASSUME NEW f \in list'[p] PROVE f \in list[p] /\ f.code # e.code /\ e.key \notin KeysOf[f.code]
      <3>1. f \in list[p] /\ f # e
        BY <1>3
      <3>2. f.code # e.code
        BY <2>1, <3>1 DEF Lists
      <3>3. f.code \in Codes
        BY <3>1, Entry
      <3> QED BY <1>4, <3>1, <3>2, <3>3 DEF KeysApart
    <2>3. Lists(p)'
      BY <1>3, <2>1, <2>2 DEF Lists
    <2>4. CASE e.key \in known[p]
      <3>1. wg' = wg /\ astray' = astray /\ known'[p] = known[p]
        BY <1>1, <1>3, <2>4
      <3>2. Owned(p)'
        BY <2>1, <3>1 DEF Owned
      <3>3. Displaced(p)'
        BY <1>2, <1>3, <2>1, <3>1 DEF Displaced, Removing
      <3> QED BY <2>3, <3>2, <3>3 DEF Addresses
    <2>5. CASE e.key \notin known[p]
      <3>1. \A q \in Pis : WgOK(wg[q])
        BY DEF TypeOK, WgOK
      <3>2. WgOK(Set(wg[p], e.key, e.code)) /\ Command(p, e.key, Set(wg[p], e.key, e.code))
        BY <1>1, <1>4, <2>5, <3>1, SetOK
      <3>3. \/ /\ wg'[p] = Set(wg[p], e.key, e.code)
               /\ astray'[p] = astray[p] \ {e.key}
            \/ wg'[p] = wg[p] /\ astray'[p] = astray[p] \cup {e.key}
        BY <1>4, <3>2, CommandOK
      <3>4. CASE wg'[p] = wg[p] /\ astray'[p] = astray[p] \cup {e.key}
        <4>1. Owned(p)'
          BY <2>1, <3>4 DEF Owned
        <4>2. Displaced(p)'
          BY <1>2, <1>3, <2>1, <3>4 DEF Displaced, Removing
        <4> QED BY <2>3, <4>1, <4>2 DEF Addresses
      <3>5. CASE wg'[p] = Set(wg[p], e.key, e.code) /\ astray'[p] = astray[p] \ {e.key}
        <4>1. /\ DOMAIN wg'[p] = DOMAIN wg[p] \cup {e.key} /\ wg'[p][e.key] = e.code
              /\ \A k \in DOMAIN wg[p] \ {e.key} :
                   wg'[p][k] = IF wg[p][k] = e.code THEN NoCode ELSE wg[p][k]
          BY <3>5 DEF Set, Put
        <4>2. e.code # NoCode
          BY <1>4, BlanksAssumption
        <4>3. Owned(p)'
          BY <1>4, <2>1, <4>1 DEF Owned
        <4>4. ASSUME NEW k \in known'[p] \ astray'[p], wg'[p][k] = NoCode
              PROVE  k \notin seen'[p] /\ \A f \in list'[p] : f.key # k
          <5>1. k # e.key
            BY <4>1, <4>2, <4>4
          <5>2. k \in known[p] \ astray[p] /\ k \in DOMAIN wg[p]
            BY <1>3, <3>5, <4>4, <5>1 DEF KnownIsThere
          <5>3. CASE wg[p][k] = NoCode
            BY <1>3, <2>1, <5>1, <5>2, <5>3 DEF Displaced, Removing
          <5>4. CASE wg[p][k] # NoCode
            <6>1. wg[p][k] = e.code
              BY <4>1, <4>4, <5>1, <5>2, <5>4
            <6>2. k \in KeysOf[e.code]
              BY <2>1, <5>2, <5>4, <6>1 DEF Owned
            <6>3. k \notin seen'[p]
              BY <1>3, <2>1, <5>1, <6>2 DEF Lists
            <6>4. ASSUME NEW f \in list'[p], f.key = k PROVE FALSE
              <7>1. f.code \in Codes /\ k \in KeysOf[f.code] /\ f.code # e.code
                BY <2>2, <6>4, Entry
              <7> QED BY <1>4, <6>2, <7>1 DEF KeysApart
            <6> QED BY <6>3, <6>4
          <5> QED BY <5>3, <5>4
        <4>5. Displaced(p)'
          BY <1>2, <4>4 DEF Displaced, Removing
        <4> QED BY <2>3, <4>3, <4>5 DEF Addresses
      <3> QED BY <3>3, <3>4, <3>5
    <2> QED BY <2>4, <2>5
  <1> QED BY <1>2, <1>3, <1>5, <1>6, OneAgent

(* A key that is removed is forgotten as well. *)
LEMMA RemoveAddresses ==
  ASSUME Inv, AddrInv, NEW p \in Pis, SyncRemove(p)
  PROVE  AddrInv'
  <1> USE DEF Inv
  <1>1. PICK k \in known[p] \ seen[p] :
          known' = [known EXCEPT ![p] = @ \ {k}] /\ Command(p, k, Without(wg[p], k))
    BY DEF SyncRemove, Forget, RemovePeer
  <1>2. UNCHANGED <<pc, list, seen>>
    BY DEF SyncRemove
  <1>3. k \in Keys /\ WgOK(wg[p])
    BY <1>1 DEF TypeOK, WgOK
  <1>4. WgOK(Without(wg[p], k))
    BY <1>3 DEF WgOK, Without
  <1>5. /\ \A q \in Pis \ {p} : wg'[q] = wg[q] /\ astray'[q] = astray[q]
        /\ \/ wg'[p] = Without(wg[p], k) /\ astray'[p] = astray[p] \ {k}
           \/ wg'[p] = wg[p] /\ astray'[p] = astray[p] \cup {k}
    BY <1>1, <1>3, <1>4, CommandOK
  <1>6. /\ known'[p] = known[p] \ {k}
        /\ \A q \in Pis \ {p} : known'[q] = known[q]
    BY <1>1 DEF TypeOK
  <1>7. Addresses(p)'
    <2>1. Lists(p) /\ Owned(p) /\ Displaced(p)
      BY DEF AddrInv, Addresses
    <2>2. /\ DOMAIN wg'[p] \subseteq DOMAIN wg[p]
          /\ \A l \in DOMAIN wg'[p] : wg'[p][l] = wg[p][l]
      BY <1>5 DEF Without
    <2>3. ASSUME NEW l \in known'[p] \ astray'[p]
          PROVE  l \in known[p] \ astray[p] /\ wg'[p][l] = wg[p][l]
      <3>1. l # k /\ l \in known[p] \ astray[p]
        BY <1>5, <1>6
      <3>2. l \in DOMAIN wg[p]
        BY <3>1 DEF KnownIsThere
      <3> QED BY <1>5, <3>1, <3>2 DEF Without
    <2> QED BY <1>2, <2>1, <2>2, <2>3 DEF Addresses, Lists, Owned, Displaced, Removing
  <1> QED BY <1>2, <1>5, <1>6, <1>7, OneAgent

(* A tick ends when every known key was in the list, hence has its address.  *)
LEMMA DoneAddresses ==
  ASSUME TypeOK, AddrInv, NEW p \in Pis, SyncDone(p)
  PROVE  AddrInv'
  <1>1. /\ UNCHANGED <<wg, known, list, astray>> /\ pc[p] = "remove" /\ known[p] \subseteq seen[p]
        /\ pc' = [pc EXCEPT ![p] = "idle"] /\ seen' = [seen EXCEPT ![p] = {}]
    BY DEF SyncDone
  <1>2. /\ seen'[p] = {} /\ list[p] = {}
        /\ \A q \in Pis \ {p} : seen'[q] = seen[q] /\ pc'[q] = pc[q]
    BY <1>1 DEF TypeOK
  <1>3. Addresses(p)'
    <2>1. Owned(p) /\ Displaced(p)
      BY DEF AddrInv, Addresses
    <2>2. \A k \in known[p] \ astray[p] : wg[p][k] # NoCode
      BY <1>1, <2>1 DEF Displaced, Removing
    <2> QED BY <1>1, <1>2, <2>1, <2>2 DEF Addresses, Lists, Owned, Displaced
  <1> QED BY <1>1, <1>2, <1>3, OneAgent

(* A restart forgets all keys; the interface keeps its peers, or loses them. *)
LEMMA RestartAddresses ==
  ASSUME TypeOK, AddrInv, NEW p \in Pis, Restart(p)
  PROVE  AddrInv'
  <1>1. PICK w \in {wg[p], <<>>} :
          wg' = [wg EXCEPT ![p] = w] /\ astray' = [astray EXCEPT ![p] = DOMAIN w]
    BY DEF Restart
  <1>2. /\ wg'[p] = w /\ known'[p] = {} /\ list'[p] = {} /\ seen'[p] = {}
        /\ \A q \in Pis \ {p} : /\ wg'[q] = wg[q] /\ astray'[q] = astray[q]
                                /\ known'[q] = known[q] /\ list'[q] = list[q]
                                /\ seen'[q] = seen[q] /\ pc'[q] = pc[q]
    BY <1>1 DEF Restart, TypeOK
  <1>3. Addresses(p)'
    <2>1. Owned(p)
      BY DEF AddrInv, Addresses
    <2>2. DOMAIN <<>> = {}
      OBVIOUS
    <2>3. Owned(p)'
      BY <1>1, <1>2, <2>1, <2>2 DEF Owned
    <2> QED BY <1>2, <2>3 DEF Addresses, Lists, Displaced
  <1> QED BY <1>2, <1>3, OneAgent

(* A key an agent skips because it knows it has its customer's address, if   *)
(* customers have keys of their own: whatever was lost, truncated or         *)
(* restarted, and however often customers re-keyed (main.go:284).            *)
THEOREM KnownHasAddressHolds == KeysApart => (Spec => []KnownHasAddress)
  <1> SUFFICES ASSUME KeysApart PROVE Spec => []KnownHasAddress
    OBVIOUS
  <1>1. Init => AddrInv
    <2> SUFFICES ASSUME Init, NEW p \in Pis PROVE Addresses(p)
      BY DEF AddrInv
    <2>1. wg[p] = <<>> /\ known[p] = {} /\ list[p] = {} /\ seen[p] = {} /\ DOMAIN <<>> = {}
      BY DEF Init
    <2> QED BY <2>1 DEF Addresses, Lists, Owned, Displaced
  <1>2. Inv /\ AddrInv /\ [Next]_vars => AddrInv'
    <2> SUFFICES ASSUME Inv, AddrInv, [Next]_vars PROVE AddrInv'
      OBVIOUS
    <2>1. TypeOK
      BY DEF Inv
    <2>2. ASSUME \/ \E c \in Codes, k \in Keys : Register(c, k)
                 \/ \E p \in Pis, h \in Hosts : Remap(p, h)
                 \/ ServeLate \/ UNCHANGED vars
          PROVE  AddrInv'
      BY <2>2, SameAddresses DEF Register, Remap, ServeLate, vars, agent
    <2>3. ASSUME NEW p \in Pis, Measure(p) \/ TimeOut(p) \/ SyncAdded(p) PROVE AddrInv'
      <3>1. UNCHANGED <<wg, known, list, seen, astray>>
        BY <2>3 DEF Measure, TimeOut, SyncAdded
      <3>2. \A q \in Pis : pc[q] \in {"add", "remove"} => pc'[q] \in {"add", "remove"}
        BY <2>1, <2>3 DEF Measure, TimeOut, SyncAdded, TypeOK
      <3> QED BY <3>1, <3>2, SameAddresses
    <2> QED
      BY <2>1, <2>2, <2>3, ServeAddresses, AddAddresses, RemoveAddresses, DoneAddresses,
         RestartAddresses DEF Next, Agent
  <1>3. Inv /\ AddrInv => KnownHasAddress
    <2> SUFFICES ASSUME Inv, AddrInv, NEW p \in Pis, NEW c \in Codes,
                        NEW k \in known[p] \ astray[p], k \in KeysOf[c]
                 PROVE  k \in DOMAIN wg[p] /\ (wg[p][k] = c \/ Removing(p, k))
      BY DEF KnownHasAddress
    <2>1. k \in DOMAIN wg[p]
      BY DEF Inv, KnownIsThere
    <2>2. Owned(p) /\ Displaced(p)
      BY DEF AddrInv, Addresses
    <2>3. CASE wg[p][k] = NoCode
      BY <2>1, <2>2, <2>3 DEF Displaced
    <2>4. CASE wg[p][k] # NoCode
      <3>1. wg[p][k] \in Codes /\ k \in KeysOf[wg[p][k]]
        BY <2>1, <2>2, <2>4 DEF Owned, Inv, TypeOK
      <3> QED BY <2>1, <3>1 DEF KeysApart
    <2> QED BY <2>3, <2>4
  <1> QED BY <1>1, <1>2, <1>3, Invariance, PTL DEF Spec

-----------------------------------------------------------------------------
(* One step of the loops of syncPeers moves keys from what is still to be    *)
(* looked at to what was seen, and loses none.                               *)
LEMMA SyncKeepsDue ==
  ASSUME TypeOK, NEW p \in Pis, SyncAdd(p) \/ SyncAdded(p) \/ SyncRemove(p)
  PROVE  \A q \in Pis : Due(q)' = Due(q)
  <1> SUFFICES ASSUME NEW q \in Pis PROVE Due(q)' = Due(q)
    OBVIOUS
  <1>1. CASE SyncAdd(p)
    <2>1. PICK e \in list[p] : /\ list' = [list EXCEPT ![p] = @ \ {e}]
                              /\ seen' = [seen EXCEPT ![p] = @ \cup {e.key}]
      BY <1>1 DEF SyncAdd, See
    <2>2. CASE q = p
      <3>1. list'[q] = list[q] \ {e} /\ seen'[q] = seen[q] \cup {e.key}
        BY <2>1, <2>2 DEF TypeOK
      <3> QED BY <2>1, <2>2, <3>1 DEF Due
    <2>3. CASE q # p
      BY <2>1, <2>3 DEF Due, TypeOK
    <2> QED BY <2>2, <2>3
  <1>2. CASE SyncAdded(p) \/ SyncRemove(p)
    BY <1>2 DEF SyncAdded, SyncRemove, Due
  <1> QED BY <1>1, <1>2

(* A step outside syncPeers touches no loop that is under way; it starts     *)
(* one, or ends one with the agent.                                          *)
LEMMA OthersKeepDue ==
  ASSUME TypeOK, NEW p \in Pis, Measure(p) \/ Serve(p) \/ TimeOut(p) \/ Restart(p),
         NEW q \in Pis, pc[q] \in {"add", "remove"}
  PROVE  \/ Due(q)' = Due(q) /\ pc'[q] = pc[q]
         \/ q = p /\ Restart(p) /\ pc'[q] = "idle"
  <1>1. CASE q = p
    <2>1. Restart(p)
      BY <1>1 DEF Measure, Serve, TimeOut
    <2>2. pc'[p] = "idle"
      BY <2>1 DEF Restart, TypeOK
    <2> QED BY <1>1, <2>1, <2>2
  <1>2. CASE q # p
    <2>1. pc'[q] = pc[q]
      BY <1>2 DEF Measure, Serve, TimeOut, Restart, TypeOK
    <2>2. list'[q] = list[q] /\ seen'[q] = seen[q]
      <3>1. CASE Measure(p) \/ TimeOut(p)
        BY <3>1 DEF Measure, TimeOut
      <3>2. CASE Serve(p)
        BY <1>2, <3>2 DEF Serve, TypeOK
      <3>3. CASE Restart(p)
        BY <1>2, <3>3 DEF Restart, TypeOK
      <3> QED BY <3>1, <3>2, <3>3
    <2> QED BY <2>1, <2>2 DEF Due
  <1> QED BY <1>1, <1>2

(* A tick that runs to its end leaves the interface as its answer says: the  *)
(* safety half of InterfaceIsTable.                                          *)
THEOREM TicksReachAnswers == Spec => TickReachesAnswer
  <1>1. Inv /\ [Next]_vars => [\A p \in Pis : TowardsAnswer(p)]_vars
    <2> SUFFICES ASSUME Inv, [Next]_vars, NEW q \in Pis PROVE TowardsAnswer(q)
      OBVIOUS
    <2> USE DEF Inv, TowardsAnswer
    <2>1. ASSUME \/ \E c \in Codes, k \in Keys : Register(c, k)
                 \/ \E p \in Pis, h \in Hosts : Remap(p, h)
                 \/ ServeLate \/ UNCHANGED vars
          PROVE  TowardsAnswer(q)
      BY <2>1 DEF Register, Remap, ServeLate, vars, agent, Due
    <2>2. ASSUME NEW p \in Pis, Measure(p) \/ Serve(p) \/ TimeOut(p) \/ Restart(p)
          PROVE  TowardsAnswer(q)
      BY <2>2, OthersKeepDue
    <2>3. ASSUME NEW p \in Pis, SyncAdd(p) \/ SyncAdded(p) \/ SyncRemove(p) PROVE TowardsAnswer(q)
      <3>1. Due(q)' = Due(q)
        BY <2>3, SyncKeepsDue
      <3>2. pc[q] = "remove" => pc'[q] # "idle"
        BY <2>3 DEF SyncAdd, SyncAdded, SyncRemove, TypeOK
      <3> QED BY <3>1, <3>2
    <2>4. ASSUME NEW p \in Pis, SyncDone(p) PROVE TowardsAnswer(q)
      <3>1. CASE q = p
        <4>1. pc[p] = "remove" /\ pc'[p] = "idle" /\ known[p] \subseteq seen[p]
              /\ UNCHANGED <<wg, astray>>
          BY <2>4 DEF SyncDone, TypeOK
        <4>2. known[p] = seen[p] /\ list[p] = {}
          BY <4>1 DEF TypeOK
        <4>3. Due(p) = known[p]
          BY <4>2 DEF Due
        <4> QED BY <3>1, <4>1, <4>3 DEF KnownIsThere
      <3>2. CASE q # p
        BY <2>4, <3>2 DEF SyncDone, TypeOK, Due
      <3> QED BY <3>1, <3>2
    <2> QED BY <2>1, <2>2, <2>3, <2>4 DEF Next, Agent
  <1> QED BY <1>1, Invariance, PTL DEF Spec, TickReachesAnswer
=============================================================================
