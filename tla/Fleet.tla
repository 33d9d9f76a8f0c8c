-------------------------------- MODULE Fleet --------------------------------
(***************************************************************************)
(* The agents of the Pis (agent/main.go) and the part of the coordinator's  *)
(* tables they work with.  Every tick an agent learns its endpoint, sends a *)
(* heartbeat with it, gets the customers the coordinator has assigned to    *)
(* its Pi, and brings the peers of its WireGuard interface in line.         *)
(*                                                                         *)
(* Customers register, and NATs remap, between and during ticks.  A         *)
(* registration is one step here, its statements are those of               *)
(* FleetRegistry; a customer's address never changes and is nobody else's   *)
(* (proved there), so that its code stands for it.                          *)
(***************************************************************************)
EXTENDS Integers, FiniteSets

CONSTANTS
  Pis,          \* serial numbers of registered Pis
  Codes,        \* access codes of customers
  Keys,         \* WireGuard public keys of customers
  KeysOf,       \* code -> the keys its customer may register
  Hosts,        \* public addresses
  HostsOf,      \* Pi -> the addresses its NAT may give it
  MaxChanges,   \* bound of the model: registrations and remappings
  MaxFaults     \* bound of the model: faults of any kind

ASSUME BoundsAssumption == MaxChanges \in Nat /\ MaxFaults \in Nat
ASSUME KeysOfAssumption == KeysOf \in [Codes -> SUBSET Keys]
ASSUME HostsOfAssumption == HostsOf \in [Pis -> SUBSET Hosts]
ASSUME FiniteAssumption == IsFiniteSet(Keys)

(* An endpoint is a public address and the public port the NAT maps a socket *)
(* of the Pi to.  Ports are told apart by that socket: "wireguard" is the     *)
(* ListenPort of wgd0.conf, "probe" the socket of one call of stunSRFLX.      *)
Endpoints == [host : Hosts, socket : {"wireguard", "probe"}]
NoEp   == [host |-> "no host", socket |-> "none"]   \* no heartbeat, or no STUN
NoCode == "no code"                    \* a peer that has lost its allowed-ips
ASSUME BlanksAssumption == NoEp.host \notin Hosts /\ NoCode \notin Codes

VARIABLES
  rows,   \* table customers: code -> [key, pi]
  cols,   \* table pis, the columns of the heartbeat: Pi -> [ep, load]
  nat,    \* the public address a Pi's NAT gives it
  wg,     \* peers of a Pi's interface: key -> code whose address it has
  known,  \* a.known
  pc,     \* the agent: "idle", "sent" (its heartbeat), "add" or "remove"
  beat,   \* the heartbeat it is about to have answered: [ep, load]
  late,   \* heartbeats nobody waits for any more, still to be served
  list,   \* the entries of the answer that syncPeers has still to look at
  seen,   \* the keys of those it has looked at
  changes, faults,
  astray  \* history: the keys whose last wg command failed, and the peers an
          \* agent that stopped has left behind

table == <<rows, cols, nat>>
agent == <<wg, known, pc, beat, list, seen, astray>>
vars  == <<table, agent, late, changes, faults>>

Beats   == [ep : Endpoints \cup {NoEp}, load : Nat]
NoBeat  == [ep |-> NoEp, load |-> 0]
Entries == [key : Keys, code : Codes]

Put(f, x, v) == [y \in DOMAIN f \cup {x} |-> IF y = x THEN v ELSE f[y]]
Without(f, x) == [y \in DOMAIN f \ {x} |-> f[y]]

Fault   == faults < MaxFaults /\ faults' = faults + 1
NoFault == UNCHANGED faults

(* customersByPi, in any order. *)
Assigned(p) == {[key |-> rows[c].key, code |-> c] :
                  c \in {d \in DOMAIN rows : rows[d].pi = p}}

-----------------------------------------------------------------------------
(* POST /customer/register.  A customer keeps its Pi, silent or not          *)
(* (FleetRegistry, CuPi); a new one, one whose Pi cannot be read, or one     *)
(* that asks twice at once, gets a Pi with an endpoint.  Which of them have  *)
(* been heard within 120 s is left open, and so is which has fewest          *)
(* customers.                                                                *)
Register(c, k) ==
  /\ changes < MaxChanges /\ k \in KeysOf[c]
  /\ \E p \in Pis :
       /\ rows' = Put(rows, c, [key |-> k, pi |-> p]) /\ rows' # rows
       /\ \/ c \in DOMAIN rows /\ rows[c].pi = p /\ NoFault
          \/ c \notin DOMAIN rows /\ cols[p].ep # NoEp /\ NoFault
          \/ c \in DOMAIN rows /\ cols[p].ep # NoEp /\ Fault
  /\ changes' = changes + 1
  /\ UNCHANGED <<cols, nat, agent, late>>

(* The carrier's NAT gives a Pi another address. *)
Remap(p, h) ==
  /\ changes < MaxChanges /\ h \in HostsOf[p] /\ nat[p] # h
  /\ nat' = [nat EXCEPT ![p] = h]
  /\ changes' = changes + 1
  /\ UNCHANGED <<rows, cols, agent, late, faults>>

-----------------------------------------------------------------------------
(* What the NAT makes of a socket of p. *)
Mapping(p, socket) == [host |-> nat[p], socket |-> socket]

(* Mutant: STUN is asked until it has answered once. *)
StunOnce(p) == IF cols[p].ep = NoEp THEN {Mapping(p, "probe")} ELSE {cols[p].ep}

(* What stunSRFLX may return: the mapping of a socket it has opened for this *)
(* call and closes before it returns (main.go:59, 63), never that of         *)
(* WireGuard's port; nothing when it fails.                                  *)
Stun(p) == {Mapping(p, "probe"), NoEp}

PeerCount(p) == Cardinality(DOMAIN wg[p])

(* tick: the endpoint and the peer count, and the heartbeat is sent.         *)
(* wgPeerCount yields 0 when it fails.                                       *)
Measure(p) ==
  /\ pc[p] = "idle" /\ pc' = [pc EXCEPT ![p] = "sent"]
  /\ \E e \in Stun(p), n \in {PeerCount(p), 0} :
       /\ IF e = NoEp \/ n # PeerCount(p) THEN Fault ELSE NoFault
       /\ beat' = [beat EXCEPT ![p] = [ep |-> e, load |-> n]]
  /\ UNCHANGED <<table, wg, known, list, seen, late, changes, astray>>

(* handlePiHeartbeat, and the answer is received.  The list is incomplete    *)
(* when the coordinator discards the error of customersByPi, and empty when  *)
(* the agent discards that of Decode.                                        *)
Serve(p) ==
  /\ pc[p] = "sent" /\ pc' = [pc EXCEPT ![p] = "add"]
  /\ cols' = [cols EXCEPT ![p] = beat[p]]
  /\ \/ list' = [list EXCEPT ![p] = Assigned(p)] /\ NoFault
     \/ /\ \E part \in SUBSET Assigned(p) :
             part # Assigned(p) /\ list' = [list EXCEPT ![p] = part]
        /\ Fault
  /\ seen' = [seen EXCEPT ![p] = {}] /\ beat' = [beat EXCEPT ![p] = NoBeat]
  /\ UNCHANGED <<rows, nat, wg, known, late, changes, astray>>

(* No answer within 10 s, or one that is not 200: the tick ends with an      *)
(* error.  The coordinator may still serve the heartbeat, later than those   *)
(* that come after it.                                                       *)
TimeOut(p) ==
  /\ pc[p] = "sent" /\ pc' = [pc EXCEPT ![p] = "idle"]
  /\ late' = late \cup {[pi |-> p, beat |-> beat[p]]}
  /\ beat' = [beat EXCEPT ![p] = NoBeat]
  /\ Fault
  /\ UNCHANGED <<table, wg, known, list, seen, changes, astray>>

ServeLate ==
  /\ \E b \in late : cols' = [cols EXCEPT ![b.pi] = b.beat] /\ late' = late \ {b}
  /\ UNCHANGED <<rows, nat, agent, changes, faults>>

-----------------------------------------------------------------------------
(* wg set peer k allowed-ips: the address moves to k from whoever has it.    *)
Set(w, k, c) == Put([y \in DOMAIN w |-> IF w[y] = c THEN NoCode ELSE w[y]], k, c)

(* addPeer, removePeer: a command about k makes the interface w, or fails,   *)
(* which is only logged.                                                     *)
Command(p, k, w) ==
  \/ wg' = [wg EXCEPT ![p] = w] /\ NoFault /\ astray' = [astray EXCEPT ![p] = @ \ {k}]
  \/ UNCHANGED wg /\ Fault /\ astray' = [astray EXCEPT ![p] = @ \cup {k}]

(* Mutant: a key that is added is not marked. *)
MarkNot(p, k) == UNCHANGED known

Mark(p, k) == known' = [known EXCEPT ![p] = @ \cup {k}]

(* Mutant: only a key that is added counts as seen. *)
SeeNew(p, k) == seen' = [seen EXCEPT ![p] = IF k \in known[p] THEN @ ELSE @ \cup {k}]

See(p, k) == seen' = [seen EXCEPT ![p] = @ \cup {k}]

(* Mutant: a key that is removed stays marked. *)
ForgetNot(p, k) == UNCHANGED known

Forget(p, k) == known' = [known EXCEPT ![p] = @ \ {k}]

(* Mutant: a key that is not listed is forgotten and stays a peer. *)
RemoveNot(p, k) == Command(p, k, wg[p])

RemovePeer(p, k) == Command(p, k, Without(wg[p], k))

(* syncPeers, first loop: a key that is not known is added and marked known, *)
(* whether the command worked or not.                                        *)
SyncAdd(p) ==
  /\ pc[p] = "add"
  /\ \E e \in list[p] :
       /\ list' = [list EXCEPT ![p] = @ \ {e}]
       /\ See(p, e.key) /\ Mark(p, e.key)
       /\ IF e.key \in known[p]
          THEN UNCHANGED <<wg, faults, astray>>
          ELSE Command(p, e.key, Set(wg[p], e.key, e.code))
  /\ UNCHANGED <<table, pc, beat, late, changes>>

SyncAdded(p) ==
  /\ pc[p] = "add" /\ list[p] = {} /\ pc' = [pc EXCEPT ![p] = "remove"]
  /\ UNCHANGED <<table, wg, known, beat, list, seen, late, changes, faults, astray>>

(* syncPeers, second loop: a known key that was not in the list is removed.  *)
SyncRemove(p) ==
  /\ pc[p] = "remove"
  /\ \E k \in known[p] \ seen[p] :
       Forget(p, k) /\ RemovePeer(p, k)
  /\ UNCHANGED <<table, pc, beat, list, seen, late, changes>>

(* Mutant: the second loop may end before the last key. *)
SyncDoneEarly(p) ==
  /\ pc[p] = "remove"
  /\ pc' = [pc EXCEPT ![p] = "idle"] /\ seen' = [seen EXCEPT ![p] = {}]
  /\ UNCHANGED <<table, wg, known, beat, list, late, changes, faults, astray>>

SyncDone(p) ==
  /\ pc[p] = "remove" /\ known[p] \subseteq seen[p]
  /\ pc' = [pc EXCEPT ![p] = "idle"] /\ seen' = [seen EXCEPT ![p] = {}]
  /\ UNCHANGED <<table, wg, known, beat, list, late, changes, faults, astray>>

(* The agent stops and is started again (Restart=always).  The interface and *)
(* its peers stay, unless the whole Pi restarts: wgd0.conf lists no peers.   *)
Restart(p) ==
  /\ Fault
  /\ \E w \in {wg[p], <<>>} :
       wg' = [wg EXCEPT ![p] = w] /\ astray' = [astray EXCEPT ![p] = DOMAIN w]
  /\ known' = [known EXCEPT ![p] = {}]
  /\ pc' = [pc EXCEPT ![p] = "idle"]
  /\ list' = [list EXCEPT ![p] = {}] /\ seen' = [seen EXCEPT ![p] = {}]
  /\ late' = late \cup (IF pc[p] = "sent" THEN {[pi |-> p, beat |-> beat[p]]} ELSE {})
  /\ beat' = [beat EXCEPT ![p] = NoBeat]
  /\ UNCHANGED <<table, changes>>

-----------------------------------------------------------------------------
Init ==
  /\ rows = <<>> /\ cols = [p \in Pis |-> NoBeat]
  /\ nat \in {f \in [Pis -> Hosts] : \A p \in Pis : f[p] \in HostsOf[p]}
  /\ wg = [p \in Pis |-> <<>>] /\ known = [p \in Pis |-> {}]
  /\ pc = [p \in Pis |-> "idle"]
  /\ beat = [p \in Pis |-> NoBeat] /\ late = {}
  /\ list = [p \in Pis |-> {}] /\ seen = [p \in Pis |-> {}]
  /\ changes = 0 /\ faults = 0 /\ astray = [p \in Pis |-> {}]

Agent(p) == Measure(p) \/ Serve(p) \/ SyncAdd(p) \/ SyncAdded(p) \/ SyncRemove(p) \/ SyncDone(p)

Next ==
  \/ \E c \in Codes, k \in Keys : Register(c, k)
  \/ \E p \in Pis, h \in Hosts : Remap(p, h)
  \/ \E p \in Pis : Agent(p) \/ TimeOut(p) \/ Restart(p)
  \/ ServeLate

Spec == Init /\ [][Next]_vars

(* run never stops: after a tick there is another one, 30 s or a backoff of  *)
(* at most 72 s later.  That there are finitely many faults stands for "not  *)
(* for ever".  A late heartbeat need never be served.                        *)
FairSpec == Spec /\ \A p \in Pis : WF_vars(Agent(p))

-----------------------------------------------------------------------------
TypeOK ==
  /\ DOMAIN rows \subseteq Codes
  /\ \A c \in DOMAIN rows : rows[c].key \in KeysOf[c] /\ rows[c].pi \in Pis
  /\ cols \in [Pis -> Beats] /\ nat \in [Pis -> Hosts]
  /\ DOMAIN wg = Pis
  /\ \A p \in Pis : /\ DOMAIN wg[p] \subseteq Keys
                    /\ \A k \in DOMAIN wg[p] : wg[p][k] \in Codes \cup {NoCode}
  /\ known \in [Pis -> SUBSET Keys]
  /\ pc \in [Pis -> {"idle", "sent", "add", "remove"}]
  /\ beat \in [Pis -> Beats] /\ late \subseteq [pi : Pis, beat : Beats]
  /\ list \in [Pis -> SUBSET Entries]
  /\ \A p \in Pis : /\ \A e \in list[p] : e.key \in KeysOf[e.code]
                    /\ pc[p] # "add" => list[p] = {}
  /\ seen \in [Pis -> SUBSET Keys] /\ \A p \in Pis : seen[p] \subseteq known[p]
  /\ changes \in 0..MaxChanges /\ faults \in 0..MaxFaults
  /\ astray \in [Pis -> SUBSET Keys]

(* What an agent believes to be on its interface is there, and nothing else  *)
(* is, though it never looks (a.known, syncPeers).  A failed command, or a   *)
(* restart, makes it wrong only about the keys concerned, and only until the *)
(* next command for them succeeds.                                           *)
KnownIsThere ==
  \A p \in Pis : known[p] \ astray[p] = DOMAIN wg[p] \ astray[p]

(* A key that is skipped because it is known (main.go:284) has its           *)
(* customer's address, through re-keying to and fro, truncated lists,        *)
(* restarts and failed commands for other keys; only one that is about to be *)
(* removed may have lost it.                                                 *)
Removing(p, k) == pc[p] \in {"add", "remove"} /\ k \notin seen[p]

KnownHasAddress ==
  \A p \in Pis, c \in Codes : \A k \in (known[p] \cap KeysOf[c]) \ astray[p] :
    k \in DOMAIN wg[p] /\ (wg[p][k] = c \/ Removing(p, k))

(* A tick that runs to its end leaves the interface as the answer it was     *)
(* given says, keys astray apart, whatever the interface was before and      *)
(* whatever customers, NATs and other agents do meanwhile.                   *)
Due(p) == seen[p] \cup {e.key : e \in list[p]}

TowardsAnswer(p) ==
  /\ pc[p] \in {"add", "remove"} /\ pc'[p] # "idle" => Due(p)' = Due(p)
  /\ pc[p] = "remove" /\ pc'[p] = "idle" /\ ~Restart(p) =>
       DOMAIN wg'[p] \ astray'[p] = Due(p) \ astray'[p]

TickReachesAnswer == [][\A p \in Pis : TowardsAnswer(p)]_vars

Served(c) ==
  LET w == wg[rows[c].pi] IN rows[c].key \in DOMAIN w /\ w[rows[c].key] = c

(* Once the table rests, every customer gets to be a peer of its Pi with its *)
(* address and stays one, whatever answers were lost or incomplete, whenever *)
(* agents restarted, and whichever commands failed - if the command for its  *)
(* own key, which is not repeated, did not.                                  *)
EveryCustomerServed ==
  <>[](\A c \in DOMAIN rows : Served(c) \/ rows[c].key \in astray[rows[c].pi])

(* ... and it is in the end a peer of no other Pi, nor are keys it has given *)
(* up, except peers left by a restart or by a removal that failed.           *)
InterfaceIsTable ==
  <>[](\A p \in Pis :
         DOMAIN wg[p] \ astray[p] = {e.key : e \in Assigned(p)} \ astray[p])

(* The address customers are told comes to be the one the Pi has, and the    *)
(* load leastLoadedPi goes by the number of its customers, though heartbeats *)
(* without an endpoint or a count, and those served late, overwrite them.    *)
(* Only the address: the port beside it is that of a closed socket of the    *)
(* agent (Stun), not the one the Pi's WireGuard has.                         *)
ColumnsFollow ==
  <>[](\A p \in Pis :
         /\ cols[p].ep.host = nat[p]
         /\ astray[p] = {} => cols[p].load = Cardinality(Assigned(p)))
=============================================================================
