------------------------------ MODULE Provision ------------------------------
(***************************************************************************)
(* The provisioning API of the hub-and-spoke stack (provisioning/           *)
(* provision.py), and the script that restores the hub after a boot         *)
(* (provisioning/apply-routes.sh).                                          *)
(*                                                                         *)
(* What they keep in step: the allocations in peers.json, the peers of the  *)
(* live WireGuard interface, the [Peer] stanzas of wgd0.conf, and the       *)
(* policy routes.  A request holds the file lock from its first to its last *)
(* step, so that there is one at a time; each of its commands and file      *)
(* replacements is a step, after which it may be the last: the process may  *)
(* stop, a command may fail, the machine may reboot.  apply-routes.sh does  *)
(* not take the lock.                                                       *)
(***************************************************************************)
EXTENDS Integers, SequencesExt

CONSTANTS
  PubKeys,     \* WireGuard public keys of devices
  Devices,     \* device ids
  PoolStart, PoolEnd,  \* the last byte of the first and last address
  MaxAborts,   \* bound of the model: requests that end half-way
  MaxReboots   \* bound of the model: reboots of the hub

ASSUME PoolAssumption   == PoolStart \in Nat /\ PoolEnd \in Nat
ASSUME BoundsAssumption == MaxAborts \in Nat /\ MaxReboots \in Nat

NoDevice == "no device"   \* a legacy client sends no device_id
NoKey    == "no key"
NoIP     == -1            \* a live peer without allowed-ips
ASSUME BlanksAssumption == NoDevice \notin Devices /\ NoKey \notin PubKeys

Pool == PoolStart..PoolEnd

VARIABLES
  peers,    \* peers.json: key -> [ip, dev]
  live,     \* peers of the interface wgd0: key -> allowed ip
  conf,     \* the [Peer] stanzas of wgd0.conf, in order: [key, ip]
  rules,    \* addresses with a policy route
  req,      \* the request that holds the lock: step, key, ip, old key
  boot,     \* apply-routes.sh: "wait", "run" or "done"
  todo,     \* the peers it has read and not applied yet: key -> ip
  aborts, reboots,
  served,   \* keys that were answered and keep that address (history)
  missed,   \* keys a command of apply-routes.sh has failed for (history)
  overlap   \* a request ran between a boot and "done" (history)

vars == <<peers, live, conf, rules, req, boot, todo, aborts, reboots, served, missed, overlap>>

Free == [pc |-> "free", key |-> NoKey, ip |-> NoIP, old |-> NoKey]

-----------------------------------------------------------------------------
Put(f, x, v) == [y \in DOMAIN f \cup {x} |-> IF y = x THEN v ELSE f[y]]
Without(f, x) == [y \in DOMAIN f \ {x} |-> f[y]]

Entry(ip, d) == [ip |-> ip, dev |-> d]

(* A device is never recognised. *)
FindByDeviceNever(d) == {}

(* find_by_device: the keys registered for a device; a device id is needed.  *)
FindByDevice(d) == {k \in DOMAIN peers : d # NoDevice /\ peers[k].dev = d}

(* alloc_ip: the lowest address of the pool that no entry has, if any. *)
AllocIP ==
  LET unused == Pool \ {peers[k].ip : k \in DOMAIN peers}
  IN  {n \in unused : \A m \in unused : n <= m}

(* wg set peer k allowed-ips ip: the address moves to k from whoever has it. *)
WgSet(w, k, ip) ==
  Put([y \in DOMAIN w |-> IF w[y] = ip THEN NoIP ELSE w[y]], k, ip)

(* save_peers of new, followed by the commands from step pc on. *)
Save(new, pc, k, ip, old) ==
  /\ peers' = new
  /\ req' = [pc |-> pc, key |-> k, ip |-> ip, old |-> old]
  /\ served' = {s \in served : s \in DOMAIN new /\ s \in DOMAIN peers
                               /\ new[s].ip = peers[s].ip}
  /\ overlap' = (overlap \/ boot # "done")
  /\ UNCHANGED <<live, conf, rules, boot, todo, aborts, reboots, missed>>

-----------------------------------------------------------------------------
(* provision, a known device with a new key; the old entry is kept. *)
RekeyKeepsOld(k, d) ==
  /\ req = Free
  /\ \E old \in FindByDevice(d) :
       old # k /\ Save(Put(peers, k, Entry(peers[old].ip, d)),
                       "wg_remove", k, peers[old].ip, old)

(* provision, a known device with a new key: the same address, re-keyed. *)
Rekey(k, d) ==
  /\ req = Free
  /\ \E old \in FindByDevice(d) :
       old # k /\ Save(Put(Without(peers, old), k, Entry(peers[old].ip, d)),
                       "wg_remove", k, peers[old].ip, old)

(* provision, a known device with its key. *)
Again(k, d) ==
  /\ req = Free
  /\ k \in FindByDevice(d)
  /\ Save(peers, "wg_set", k, peers[k].ip, NoKey)

(* provision, a key that is known, from a legacy client or an unknown device. *)
ByKey(k, d) ==
  /\ req = Free
  /\ FindByDevice(d) = {} /\ k \in DOMAIN peers
  /\ LET dev == IF d = NoDevice THEN peers[k].dev ELSE d
     IN  Save([peers EXCEPT ![k].dev = dev], "wg_set", k, peers[k].ip, NoKey)

(* provision, a new device.  An exhausted pool raises, and nothing changes. *)
Create(k, d) ==
  /\ req = Free
  /\ FindByDevice(d) = {} /\ k \notin DOMAIN peers
  /\ \E ip \in AllocIP : Save(Put(peers, k, Entry(ip, d)), "wg_set", k, ip, NoKey)

Goto(pc) == req' = [req EXCEPT !.pc = pc]
Kept == UNCHANGED <<peers, boot, todo, aborts, reboots, overlap>>

(* remove_peer: wg set peer remove, check=False: it may fail unnoticed. *)
WgRemove ==
  /\ req.pc = "wg_remove" /\ Goto("conf_remove")
  /\ live' \in {live, Without(live, req.old)}
  /\ Kept /\ UNCHANGED <<conf, rules, served, missed>>

(* Where a key has a stanza in wgd0.conf. *)
Stanzas(k) == {i \in 1..Len(conf) : conf[i].key = k}

(* remove_peer: wgd0.conf without the stanza of the old key; no key has two. *)
ConfRemove ==
  /\ req.pc = "conf_remove" /\ Goto("wg_set")
  /\ IF Stanzas(req.old) = {} THEN UNCHANGED conf
     ELSE \E i \in Stanzas(req.old) : conf' = RemoveAt(conf, i)
  /\ Kept /\ UNCHANGED <<live, rules, served, missed>>

(* A peer that is in the configuration is taken to be on the interface. *)
WgSetOnce ==
  /\ req.pc = "wg_set" /\ Goto("conf_add")
  /\ live' = IF Stanzas(req.key) # {} THEN live ELSE WgSet(live, req.key, req.ip)
  /\ Kept /\ UNCHANGED <<conf, rules, served, missed>>

(* apply_peer: the live peer. *)
WgSetPeer ==
  /\ req.pc = "wg_set" /\ Goto("conf_add")
  /\ live' = WgSet(live, req.key, req.ip)
  /\ Kept /\ UNCHANGED <<conf, rules, served, missed>>

(* A stanza is added each time. *)
ConfAddAlways ==
  /\ req.pc = "conf_add" /\ Goto("rule")
  /\ conf' = Append(conf, [key |-> req.key, ip |-> req.ip])
  /\ Kept /\ UNCHANGED <<live, rules, served, missed>>

(* apply_peer: a stanza, unless the key is in the file already. *)
ConfAdd ==
  /\ req.pc = "conf_add" /\ Goto("rule")
  /\ conf' = IF Stanzas(req.key) # {}
             THEN conf
             ELSE Append(conf, [key |-> req.key, ip |-> req.ip])
  /\ Kept /\ UNCHANGED <<live, rules, served, missed>>

(* apply_peer: the policy route; the lock is released and the answer sent. *)
RuleAdd ==
  /\ req.pc = "rule" /\ req' = Free
  /\ rules' = rules \cup {req.ip}
  /\ served' = served \cup {req.key} /\ missed' = missed \ {req.key}
  /\ Kept /\ UNCHANGED <<live, conf>>

(* A command fails and raises (the answer is 500), or the process stops:     *)
(* the lock is released, and what was done stays.                            *)
Abort ==
  /\ req # Free /\ aborts < MaxAborts
  /\ req' = Free /\ aborts' = aborts + 1
  /\ UNCHANGED <<peers, live, conf, rules, boot, todo, reboots, served, missed, overlap>>

-----------------------------------------------------------------------------
(* wg-quick sets the interface up from wgd0.conf: an address goes to the     *)
(* last stanza that claims it (external).                                    *)
FromConf ==
  [k \in {conf[i].key : i \in 1..Len(conf)} |->
     LET i == CHOOSE i \in Stanzas(k) : TRUE
     IN  IF \E j \in i + 1..Len(conf) : conf[j].ip = conf[i].ip
         THEN NoIP ELSE conf[i].ip]

(* The machine reboots: files stay, the interface and the rules are set up   *)
(* anew, and a request in flight ends.                                       *)
Reboot ==
  /\ reboots < MaxReboots /\ reboots' = reboots + 1
  /\ live' = FromConf /\ rules' = {}
  /\ req' = Free
  /\ boot' = "wait" /\ todo' = <<>> /\ missed' = {} /\ overlap' = FALSE
  /\ UNCHANGED <<peers, conf, aborts, served>>

(* apply-routes.sh reads peers.json, if nothing before that ends it (set -e). *)
RoutesRead ==
  /\ boot = "wait" /\ boot' = "run"
  /\ todo' = [k \in DOMAIN peers |-> peers[k].ip]
  /\ UNCHANGED <<peers, live, conf, rules, req, aborts, reboots, served, missed, overlap>>

(* ... sets one of its peers, and the route of its address.  Both commands   *)
(* run with check=False: one that fails is not noticed, and the script goes  *)
(* on to its end.                                                            *)
RoutesApply ==
  /\ boot = "run"
  /\ \E k \in DOMAIN todo :
       /\ live' \in {live, WgSet(live, k, todo[k])}
       /\ rules' \in {rules, rules \cup {todo[k]}}
       /\ missed' = IF /\ live' = WgSet(live, k, todo[k])
                       /\ rules' = rules \cup {todo[k]}
                    THEN missed ELSE missed \cup {k}
       /\ todo' = Without(todo, k)
  /\ UNCHANGED <<peers, conf, req, boot, aborts, reboots, served, overlap>>

RoutesDone ==
  /\ boot = "run" /\ DOMAIN todo = {}
  /\ boot' = "done"
  /\ UNCHANGED <<peers, live, conf, rules, req, todo, aborts, reboots, served, missed,
                 overlap>>

-----------------------------------------------------------------------------
Init ==
  /\ peers = <<>> /\ live = <<>> /\ conf = <<>> /\ rules = {}
  /\ req = Free /\ boot = "done" /\ todo = <<>>
  /\ aborts = 0 /\ reboots = 0 /\ served = {} /\ missed = {} /\ overlap = FALSE

Request(k, d) == Rekey(k, d) \/ Again(k, d) \/ ByKey(k, d) \/ Create(k, d)

Next ==
  \/ \E k \in PubKeys, d \in Devices \cup {NoDevice} : Request(k, d)
  \/ WgRemove \/ ConfRemove \/ WgSetPeer \/ ConfAdd \/ RuleAdd \/ Abort
  \/ Reboot \/ RoutesRead \/ RoutesApply \/ RoutesDone

Spec == Init /\ [][Next]_vars

-----------------------------------------------------------------------------
TypeOK ==
  /\ DOMAIN peers \subseteq PubKeys
  /\ \A k \in DOMAIN peers :
       peers[k].ip \in Pool /\ peers[k].dev \in Devices \cup {NoDevice}
  /\ DOMAIN live \subseteq PubKeys /\ \A k \in DOMAIN live : live[k] \in Pool \cup {NoIP}
  /\ conf \in Seq([key : PubKeys, ip : Pool])
  /\ \A i, j \in 1..Len(conf) : conf[i].key = conf[j].key => i = j
  /\ rules \subseteq Pool
  /\ req.pc \in {"free", "wg_remove", "conf_remove", "wg_set", "conf_add", "rule"}
  /\ boot \in {"wait", "run", "done"}
  /\ DOMAIN todo \subseteq PubKeys /\ \A k \in DOMAIN todo : todo[k] \in Pool
  /\ aborts \in 0..MaxAborts /\ reboots \in 0..MaxReboots
  /\ served \subseteq DOMAIN peers /\ missed \subseteq PubKeys /\ overlap \in BOOLEAN

(* One allocation per address and per device, through re-keying, legacy      *)
(* clients, reuse of addresses given back and requests that end half-way     *)
(* (alloc_ip, find_by_device).                                               *)
AllocationsDistinct ==
  \A k, l \in DOMAIN peers :
    k # l => /\ peers[k].ip # peers[l].ip
             /\ peers[k].dev = NoDevice \/ peers[k].dev # peers[l].dev

(* "Known device - ALWAYS the same IP, even if the keypair was regenerated"  *)
(* (provision.py:127): as long as a device is known, by whatever keys.       *)
DeviceKeepsIP ==
  [][\A k \in DOMAIN peers, l \in DOMAIN peers' :
       peers[k].dev # NoDevice /\ peers[k].dev = peers'[l].dev
         => peers[k].ip = peers'[l].ip]_vars

(* A device that was answered works: its key has its address on the          *)
(* interface, and the address has its route.                                 *)
Works(k) ==
  k \in DOMAIN live /\ live[k] = peers[k].ip /\ peers[k].ip \in rules

(* ... whatever requests of others, aborted ones too, came later, and after  *)
(* a boot once apply-routes.sh is done ("provisioned nodes survive a         *)
(* reboot"), if it ran without a request.  A command of it that has failed   *)
(* harms its own key only, until that is provisioned again.                  *)
ServedWorks ==
  boot = "done" /\ ~overlap => \A k \in served \ missed : Works(k)

-----------------------------------------------------------------------------
(* What a comment of the code says, and a run refutes.                       *)

(* "so provisioned nodes survive a reboot" (apply-routes.sh:3): requests     *)
(* while the script runs included, and none of its commands fails.           *)
SurvivesReboot == boot = "done" => \A k \in served \ missed : Works(k)
=============================================================================
