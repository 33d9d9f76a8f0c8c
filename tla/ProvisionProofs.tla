--------------------------- MODULE ProvisionProofs ---------------------------
(***************************************************************************)
(* What provisioning promises for any keys, devices, pool, requests that    *)
(* end half-way and reboots.  wgd0.conf plays no part in it: what a boot    *)
(* makes of it, apply-routes.sh replaces.                                   *)
(***************************************************************************)
EXTENDS Provision, SequenceTheorems, TLAPS

EntryType == [ip : Pool, dev : Devices \cup {NoDevice}]
ReqType == [pc  : {"free", "wg_remove", "conf_remove", "wg_set", "conf_add", "rule"},
            key : PubKeys \cup {NoKey}, ip : Pool \cup {NoIP}, old : PubKeys \cup {NoKey}]

PeersOK == DOMAIN peers \subseteq PubKeys /\ \A k \in DOMAIN peers : peers[k] \in EntryType

(* A request works on the allocation it has saved; its old key has none.     *)
ReqOK ==
  /\ req \in ReqType
  /\ req.pc # "free" => req.key \in DOMAIN peers /\ req.ip = peers[req.key].ip
  /\ req.pc = "wg_remove" => req.old \notin DOMAIN peers

(* While apply-routes.sh runs alone, each peer is set or still to be set, or *)
(* a command for it has failed.                                              *)
BootOK ==
  boot # "done" /\ ~overlap =>
    /\ req.pc = "free"
    /\ boot = "run" =>
         /\ DOMAIN todo \subseteq DOMAIN peers
         /\ \A k \in DOMAIN peers :
              IF k \in DOMAIN todo THEN todo[k] = peers[k].ip ELSE k \in missed \/ Works(k)

(* A request that has set its peer alone finds it set.                       *)
ReqSet ==
  req.pc \in {"conf_add", "rule"} /\ boot = "done" /\ ~overlap =>
    req.key \in DOMAIN live /\ live[req.key] = req.ip

Allocs == PeersOK /\ AllocationsDistinct
Hub    == ReqOK /\ served \subseteq DOMAIN peers /\ BootOK /\ ReqSet /\ ServedWorks
Inv    == Allocs /\ Hub

-----------------------------------------------------------------------------
(* alloc_ip finds an address of the pool that nobody has. *)
LEMMA AllocIPUnused ==
  ASSUME NEW ip \in AllocIP
  PROVE  ip \in Pool /\ \A k \in DOMAIN peers : peers[k].ip # ip
BY DEF AllocIP

(* What a request may save: allocations that stay distinct, and no device    *)
(* that was known under another address.                                     *)
Sound(new) ==
  /\ DOMAIN new \subseteq PubKeys /\ \A k \in DOMAIN new : new[k] \in EntryType
  /\ \A k, l \in DOMAIN new :
       k # l => /\ new[k].ip # new[l].ip
                /\ new[k].dev = NoDevice \/ new[k].dev # new[l].dev
  /\ \A k \in DOMAIN peers, l \in DOMAIN new :
       peers[k].dev # NoDevice /\ peers[k].dev = new[l].dev => peers[k].ip = new[l].ip

(* provision saves what is sound, and goes on with the key it has saved.     *)
LEMMA RequestSaves ==
  ASSUME Allocs, NEW k \in PubKeys, NEW d \in Devices \cup {NoDevice}, Request(k, d)
  PROVE  \E new, pc, old :
           /\ req = Free /\ Sound(new) /\ k \in DOMAIN new
           /\ Save(new, pc, k, new[k].ip, old)
           /\ \/ pc = "wg_set" /\ old = NoKey
              \/ pc = "wg_remove" /\ old \in PubKeys /\ old \notin DOMAIN new
<1> USE DEF Allocs, PeersOK, AllocationsDistinct
<1>1. CASE Rekey(k, d)
  <2>1. PICK old \in FindByDevice(d) :
          /\ req = Free /\ old # k
          /\ Save(Put(Without(peers, old), k, Entry(peers[old].ip, d)),
                  "wg_remove", k, peers[old].ip, old)
    BY <1>1 DEF Rekey
  <2> DEFINE new == Put(Without(peers, old), k, Entry(peers[old].ip, d))
  <2>2. old \in DOMAIN peers /\ d # NoDevice /\ peers[old].dev = d BY DEF FindByDevice
  <2>3. /\ DOMAIN new = (DOMAIN peers \ {old}) \cup {k}
        /\ new[k].ip = peers[old].ip /\ new[k].dev = d /\ new[k] \in EntryType
        /\ \A l \in DOMAIN new : l # k => l \in DOMAIN peers /\ l # old /\ new[l] = peers[l]
    BY <2>2 DEF Put, Without, Entry, EntryType
  <2> HIDE DEF new
  <2>4. Sound(new) BY <2>2, <2>3 DEF Sound
  <2>5. old \notin DOMAIN new /\ k \in DOMAIN new BY <2>1, <2>3
  <2>6. Save(new, "wg_remove", k, new[k].ip, old) BY <2>1, <2>3 DEF new
  <2> QED BY <2>1, <2>2, <2>4, <2>5, <2>6
<1>2. CASE Again(k, d)
  <2>1. /\ req = Free /\ k \in DOMAIN peers /\ Save(peers, "wg_set", k, peers[k].ip, NoKey)
    BY <1>2 DEF Again, FindByDevice
  <2>2. Sound(peers) BY DEF Sound
  <2> QED BY <2>1, <2>2
<1>3. CASE ByKey(k, d)
  <2> DEFINE dev == IF d = NoDevice THEN peers[k].dev ELSE d
             new == [peers EXCEPT ![k].dev = dev]
  <2>1. /\ req = Free /\ FindByDevice(d) = {} /\ k \in DOMAIN peers
        /\ Save(new, "wg_set", k, peers[k].ip, NoKey)
    BY <1>3 DEF ByKey
  <2>2. /\ DOMAIN new = DOMAIN peers
        /\ new[k].ip = peers[k].ip /\ new[k].dev = dev /\ new[k] \in EntryType
        /\ \A l \in DOMAIN peers : l # k => new[l] = peers[l]
    BY <2>1 DEF EntryType
  <2>3. \A l \in DOMAIN peers : d # NoDevice => peers[l].dev # d
    BY <2>1 DEF FindByDevice
  <2>4. dev = peers[k].dev \/ \A l \in DOMAIN peers : peers[l].dev # dev BY <2>3
  <2> HIDE DEF new, dev
  <2>5. Sound(new) BY <2>1, <2>2, <2>4 DEF Sound
  <2>6. Save(new, "wg_set", k, new[k].ip, NoKey) BY <2>1, <2>2
  <2> QED BY <2>1, <2>2, <2>5, <2>6
<1>4. CASE Create(k, d)
  <2>1. PICK ip \in AllocIP :
          /\ req = Free /\ FindByDevice(d) = {} /\ k \notin DOMAIN peers
          /\ Save(Put(peers, k, Entry(ip, d)), "wg_set", k, ip, NoKey)
    BY <1>4 DEF Create
  <2> DEFINE new == Put(peers, k, Entry(ip, d))
  <2>2. ip \in Pool /\ \A l \in DOMAIN peers : peers[l].ip # ip BY AllocIPUnused
  <2>3. /\ DOMAIN new = DOMAIN peers \cup {k}
        /\ new[k].ip = ip /\ new[k].dev = d /\ new[k] \in EntryType
        /\ \A l \in DOMAIN new : l # k => l \in DOMAIN peers /\ new[l] = peers[l]
    BY <2>1, <2>2 DEF Put, Entry, EntryType
  <2>4. \A l \in DOMAIN peers : d # NoDevice => peers[l].dev # d
    BY <2>1 DEF FindByDevice
  <2> HIDE DEF new
  <2>5. Sound(new) BY <2>1, <2>2, <2>3, <2>4 DEF Sound
  <2>6. Save(new, "wg_set", k, new[k].ip, NoKey) BY <2>1, <2>3 DEF new
  <2> QED BY <2>1, <2>3, <2>5, <2>6
<1> QED BY <1>1, <1>2, <1>3, <1>4 DEF Request

(* A request begins: allocations stay sound, and who keeps being served      *)
(* keeps what serves it.                                                     *)
LEMMA RequestInv ==
  ASSUME Inv, NEW k \in PubKeys, NEW d \in Devices \cup {NoDevice}, Request(k, d)
  PROVE  Inv'
<1>1. PICK new, pc, old :
        /\ req = Free /\ Sound(new) /\ k \in DOMAIN new
        /\ Save(new, pc, k, new[k].ip, old)
        /\ \/ pc = "wg_set" /\ old = NoKey
           \/ pc = "wg_remove" /\ old \in PubKeys /\ old \notin DOMAIN new
  BY RequestSaves DEF Inv
<1>2. /\ peers' = new /\ req' = [pc |-> pc, key |-> k, ip |-> new[k].ip, old |-> old]
      /\ served' = {s \in served : s \in DOMAIN new /\ s \in DOMAIN peers
                                   /\ new[s].ip = peers[s].ip}
      /\ boot' = boot /\ live' = live /\ rules' = rules /\ todo' = todo /\ missed' = missed
  BY <1>1 DEF Save
<1>3. overlap' = (overlap \/ boot # "done") BY <1>1, Zenon DEF Save
<1>4. Allocs' BY <1>1, <1>2 DEF Allocs, PeersOK, AllocationsDistinct, Sound
<1>5. ReqOK' BY <1>1, <1>2 DEF ReqOK, ReqType, Sound, EntryType
<1>6. (served \subseteq DOMAIN peers)' BY <1>2
<1>7. BootOK' BY <1>2, <1>3, Zenon DEF BootOK
<1>9. ReqSet' BY <1>1, <1>2 DEF ReqSet
<1>8. ServedWorks'
  <2>1. CASE boot = "done" /\ ~overlap
    BY <1>2, <2>1 DEF ServedWorks, Works, Inv, Hub
  <2>2. CASE ~(boot = "done" /\ ~overlap) BY <1>2, <1>3, <2>2, Zenon DEF ServedWorks
  <2> QED BY <2>1, <2>2
<1> QED BY <1>4, <1>5, <1>6, <1>7, <1>8, <1>9 DEF Inv, Hub

(* A request moves on, and nobody's allocation does. *)
LEMMA GotoOK ==
  ASSUME Inv, NEW pc \in {"conf_remove", "wg_set", "conf_add", "rule"}, req.pc # "free",
         Goto(pc), peers' = peers
  PROVE  Allocs' /\ ReqOK' /\ req'.pc = pc /\ req'.key = req.key /\ req'.ip = req.ip
<1>1. /\ req' = [pc |-> pc, key |-> req.key, ip |-> req.ip, old |-> req.old]
      /\ req \in ReqType
  BY DEF Goto, Inv, Hub, ReqOK, ReqType
<1>2. Allocs' BY DEF Allocs, PeersOK, AllocationsDistinct, Inv
<1>3. ReqOK' BY <1>1 DEF ReqOK, ReqType, Inv, Hub
<1> QED BY <1>1, <1>2, <1>3

(* While a request runs, no boot script runs alone.                          *)
LEMMA Overlaps ==
  ASSUME Inv, req.pc # "free"
  PROVE  boot = "done" \/ overlap
BY DEF Inv, Hub, BootOK

(* Setting a peer takes its address from nobody who works. *)
LEMMA WgSetWorks ==
  ASSUME Allocs, NEW k \in DOMAIN peers, NEW l \in DOMAIN peers,
         l \in DOMAIN live, live[l] = peers[l].ip, live' = WgSet(live, k, peers[k].ip)
  PROVE  l \in DOMAIN live' /\ live'[l] = peers[l].ip
BY DEF WgSet, Put, Allocs, AllocationsDistinct

(* Setting a peer sets it. *)
LEMMA WgSetSets ==
  ASSUME NEW k, NEW ip, live' = WgSet(live, k, ip)
  PROVE  k \in DOMAIN live' /\ live'[k] = ip
BY DEF WgSet, Put

(* The steps of a request after the first. *)
LEMMA StepInv ==
  ASSUME Inv, WgRemove \/ ConfRemove \/ WgSetPeer \/ ConfAdd \/ RuleAdd
  PROVE  Inv'
<1>1. /\ req.pc # "free" /\ peers' = peers /\ boot' = boot /\ todo' = todo /\ overlap' = overlap
  BY DEF WgRemove, ConfRemove, WgSetPeer, ConfAdd, RuleAdd, Kept
<1>2. boot = "done" \/ overlap BY <1>1, Overlaps
<1>3. BootOK' BY <1>1, <1>2, Zenon DEF BootOK
<1>4. /\ req.key \in DOMAIN peers /\ req.ip = peers[req.key].ip
  BY <1>1 DEF Inv, Hub, ReqOK
<1>5. CASE WgRemove
  <2>1. Allocs' /\ ReqOK' BY <1>1, <1>5, GotoOK DEF WgRemove
  <2>2. req.old \notin DOMAIN peers BY <1>5 DEF WgRemove, Inv, Hub, ReqOK
  <2>3. /\ served' = served /\ rules' = rules /\ missed' = missed
        /\ \A l \in DOMAIN live : l # req.old => l \in DOMAIN live' /\ live'[l] = live[l]
    BY <1>5 DEF WgRemove, Without
  <2>4. ServedWorks' BY <1>1, <2>2, <2>3 DEF ServedWorks, Works, Inv, Hub
  <2>5. ReqSet' BY <1>1, <1>5, GotoOK DEF WgRemove, ReqSet
  <2> QED BY <1>1, <1>3, <2>1, <2>3, <2>4, <2>5 DEF Inv, Hub
<1>6. CASE ConfRemove \/ ConfAdd
  <2>1. Allocs' /\ ReqOK' BY <1>1, <1>6, GotoOK DEF ConfRemove, ConfAdd
  <2>2. UNCHANGED <<served, rules, live, missed>> BY <1>6 DEF ConfRemove, ConfAdd
  <2>3. ServedWorks' BY <1>1, <2>2 DEF ServedWorks, Works, Inv, Hub
  <2>4. CASE ConfRemove
    <3>1. req'.pc = "wg_set" BY <1>1, <2>4, GotoOK DEF ConfRemove
    <3> QED BY <1>1, <1>3, <2>1, <2>2, <2>3, <3>1 DEF Inv, Hub, ReqSet
  <2>5. CASE ConfAdd
    <3>1. req.pc = "conf_add" /\ req'.key = req.key /\ req'.ip = req.ip
      BY <1>1, <2>5, GotoOK DEF ConfAdd
    <3>2. ReqSet' BY <1>1, <2>2, <3>1 DEF ReqSet, Inv, Hub
    <3> QED BY <1>1, <1>3, <2>1, <2>2, <2>3, <3>2 DEF Inv, Hub
  <2> QED BY <1>6, <2>4, <2>5
<1>7. CASE WgSetPeer
  <2>1. Allocs' /\ ReqOK' BY <1>1, <1>7, GotoOK DEF WgSetPeer
  <2>2. /\ UNCHANGED <<served, rules, missed>>
        /\ live' = WgSet(live, req.key, peers[req.key].ip)
    BY <1>4, <1>7 DEF WgSetPeer
  <2>3. ServedWorks'
    BY <1>1, <1>4, <2>2, WgSetWorks DEF ServedWorks, Works, Inv, Hub
  <2>4. req'.key = req.key /\ req'.ip = req.ip BY <1>1, <1>7, GotoOK DEF WgSetPeer
  <2>5. ReqSet' BY <1>4, <2>2, <2>4, WgSetSets DEF ReqSet
  <2> QED BY <1>1, <1>3, <2>1, <2>2, <2>3, <2>5 DEF Inv, Hub
<1>8. CASE RuleAdd
  <2>1. /\ req.pc = "rule" /\ req' = Free /\ live' = live
        /\ rules' = rules \cup {req.ip} /\ served' = served \cup {req.key}
        /\ missed' = missed \ {req.key}
    BY <1>8 DEF RuleAdd
  <2>2. Allocs' BY <1>1 DEF Allocs, PeersOK, AllocationsDistinct, Inv
  <2>3. ReqOK' /\ ReqSet' BY <2>1 DEF ReqOK, ReqType, ReqSet, Free
  <2>4. ServedWorks'
    <3>1. CASE boot = "done" /\ ~overlap
      BY <1>1, <1>4, <2>1, <3>1 DEF ServedWorks, Works, ReqSet, Inv, Hub
    <3> QED BY <1>1, <3>1, Zenon DEF ServedWorks
  <2> QED BY <1>1, <1>3, <1>4, <2>1, <2>2, <2>3, <2>4 DEF Inv, Hub
<1> QED BY <1>5, <1>6, <1>7, <1>8


(* A request that ends half-way leaves every allocation, and every peer,     *)
(* as it is.                                                                 *)
LEMMA AbortInv ==
  ASSUME Inv, Abort
  PROVE  Inv'
<1>1. req' = Free /\ UNCHANGED <<peers, live, rules, boot, todo, served, missed, overlap>>
  BY DEF Abort
<1>2. Allocs' BY <1>1 DEF Allocs, PeersOK, AllocationsDistinct, Inv
<1>3. ReqOK' /\ ReqSet' BY <1>1 DEF ReqOK, ReqType, ReqSet, Free
<1>4. ServedWorks' /\ (served \subseteq DOMAIN peers)'
  BY <1>1 DEF ServedWorks, Works, Inv, Hub
<1>5. BootOK' BY <1>1 DEF BootOK, Works, Free, Inv, Hub
<1> QED BY <1>2, <1>3, <1>4, <1>5 DEF Inv, Hub

(* A reboot ends the request, and promises nothing until the script is done. *)
LEMMA RebootInv ==
  ASSUME Inv, Reboot
  PROVE  Inv'
<1>1. req' = Free /\ boot' = "wait" /\ UNCHANGED <<peers, served>>
  BY DEF Reboot
<1>2. Allocs' BY <1>1 DEF Allocs, PeersOK, AllocationsDistinct, Inv
<1>3. ReqOK' /\ ReqSet' BY <1>1 DEF ReqOK, ReqType, ReqSet, Free
<1>4. (served \subseteq DOMAIN peers)' BY <1>1 DEF Inv, Hub
<1>5. BootOK' /\ ServedWorks' BY <1>1 DEF BootOK, ServedWorks, Free
<1> QED BY <1>2, <1>3, <1>4, <1>5 DEF Inv, Hub

(* apply-routes.sh reads every allocation there is. *)
LEMMA RoutesReadInv ==
  ASSUME Inv, RoutesRead
  PROVE  Inv'
<1>1. /\ boot = "wait" /\ boot' = "run" /\ todo' = [k \in DOMAIN peers |-> peers[k].ip]
      /\ UNCHANGED <<peers, live, rules, req, served, missed, overlap>>
  BY DEF RoutesRead
<1>2. Allocs' BY <1>1 DEF Allocs, PeersOK, AllocationsDistinct, Inv
<1>3. ReqOK' /\ (served \subseteq DOMAIN peers)' BY <1>1 DEF ReqOK, Inv, Hub
<1>4. ReqSet' /\ ServedWorks' BY <1>1 DEF ReqSet, ServedWorks
<1>5. BootOK' BY <1>1 DEF BootOK, Inv, Hub
<1> QED BY <1>2, <1>3, <1>4, <1>5 DEF Inv, Hub

(* It sets one peer, or fails to, and those it has set stay set. *)
LEMMA RoutesApplyInv ==
  ASSUME Inv, RoutesApply
  PROVE  Inv'
<1>1. PICK k \in DOMAIN todo :
        /\ live' \in {live, WgSet(live, k, todo[k])}
        /\ rules' \in {rules, rules \cup {todo[k]}}
        /\ missed' = IF live' = WgSet(live, k, todo[k]) /\ rules' = rules \cup {todo[k]}
                     THEN missed ELSE missed \cup {k}
        /\ todo' = Without(todo, k)
  BY DEF RoutesApply
<1>2. boot = "run" /\ UNCHANGED <<peers, req, boot, served, overlap>>
  BY DEF RoutesApply
<1>3. Allocs' BY <1>2 DEF Allocs, PeersOK, AllocationsDistinct, Inv
<1>4. ReqOK' /\ (served \subseteq DOMAIN peers)' BY <1>2 DEF ReqOK, Inv, Hub
<1>5. ReqSet' /\ ServedWorks' BY <1>2 DEF ReqSet, ServedWorks
<1>6. ASSUME ~overlap PROVE BootOK'
  <2>1. /\ req.pc = "free" /\ DOMAIN todo \subseteq DOMAIN peers
        /\ \A l \in DOMAIN peers :
             IF l \in DOMAIN todo THEN todo[l] = peers[l].ip
                                  ELSE l \in missed \/ Works(l)
    BY <1>2, <1>6 DEF BootOK, Inv, Hub
  <2>2. /\ DOMAIN todo' = DOMAIN todo \ {k}
        /\ \A l \in DOMAIN todo' : todo'[l] = todo[l]
    BY <1>1 DEF Without
  <2>3. k \in DOMAIN peers /\ todo[k] = peers[k].ip BY <2>1
  <2>4. ASSUME NEW l \in DOMAIN peers, l \notin DOMAIN todo', l \notin missed'
        PROVE  l \in DOMAIN live' /\ live'[l] = peers[l].ip /\ peers[l].ip \in rules'
    <3>1. CASE l = k
      <4>1. live' = WgSet(live, k, todo[k]) /\ rules' = rules \cup {todo[k]}
        BY <1>1, <2>4, <3>1
      <4> QED BY <2>3, <3>1, <4>1, WgSetSets
    <3>2. CASE l # k
      <4>1. missed \subseteq missed' /\ rules \subseteq rules' BY <1>1
      <4>2. Works(l) BY <2>1, <2>2, <2>4, <3>2, <4>1
      <4>3. l \in DOMAIN live' /\ live'[l] = peers[l].ip
        <5>1. CASE live' = live BY <4>2, <5>1 DEF Works
        <5>2. CASE live' = WgSet(live, k, peers[k].ip)
          BY <2>3, <4>2, <5>2, WgSetWorks DEF Works, Inv
        <5> QED BY <1>1, <2>3, <5>1, <5>2
      <4> QED BY <4>1, <4>2, <4>3 DEF Works
    <3> QED BY <3>1, <3>2
  <2> QED BY <1>2, <2>1, <2>2, <2>4 DEF BootOK, Works
<1>7. BootOK' BY <1>2, <1>6 DEF BootOK
<1> QED BY <1>3, <1>4, <1>5, <1>7 DEF Inv, Hub

(* When it has set every peer, all that were answered work. *)
LEMMA RoutesDoneInv ==
  ASSUME Inv, RoutesDone
  PROVE  Inv'
<1>1. /\ boot = "run" /\ DOMAIN todo = {} /\ boot' = "done"
      /\ UNCHANGED <<peers, live, rules, req, todo, served, missed, overlap>>
  BY DEF RoutesDone
<1>2. Allocs' BY <1>1 DEF Allocs, PeersOK, AllocationsDistinct, Inv
<1>3. ReqOK' /\ (served \subseteq DOMAIN peers)' /\ BootOK'
  BY <1>1 DEF ReqOK, BootOK, Inv, Hub
<1>4. ReqSet' /\ ServedWorks'
  BY <1>1 DEF ReqSet, ServedWorks, Works, BootOK, Inv, Hub
<1> QED BY <1>2, <1>3, <1>4 DEF Inv, Hub

(* Every step keeps the invariant. *)
LEMMA NextInv ==
  ASSUME Inv, [Next]_vars
  PROVE  Inv'
<1>1. CASE Next
  BY <1>1, RequestInv, StepInv, AbortInv, RebootInv, RoutesReadInv, RoutesApplyInv,
     RoutesDoneInv DEF Next
<1>2. CASE UNCHANGED vars
  BY <1>2 DEF vars, Inv, Allocs, PeersOK, AllocationsDistinct, Hub, ReqOK, ReqSet,
              BootOK, ServedWorks, Works
<1> QED BY <1>1, <1>2

(* The invariant holds of every reachable state. *)
LEMMA Invariant == Spec => []Inv
<1>1. Init => Inv
  BY DEF Init, Inv, Allocs, PeersOK, AllocationsDistinct, Hub, ReqOK, ReqType, ReqSet,
         BootOK, ServedWorks, Free
<1> QED BY <1>1, NextInv, PTL DEF Spec

-----------------------------------------------------------------------------
(* No two keys share an address and no device has two keys, whatever         *)
(* requests came and wherever they stopped (alloc_ip, find_by_device).       *)
THEOREM AllocationsStayDistinct == Spec => []AllocationsDistinct
<1>1. Inv => AllocationsDistinct BY DEF Inv, Allocs
<1> QED BY <1>1, Invariant, PTL

(* A key that was answered works as long as it keeps its address, and after  *)
(* a boot once apply-routes.sh is done, if no request ran beside it.         *)
THEOREM ServedKeepWorking == Spec => []ServedWorks
<1>1. Inv => ServedWorks BY DEF Inv, Hub
<1> QED BY <1>1, Invariant, PTL

(* No step gives a known device another address (provision.py:127).          *)
THEOREM DevicesKeepIP == Spec => DeviceKeepsIP
<1> DEFINE Keeps == \A k \in DOMAIN peers, l \in DOMAIN peers' :
                      peers[k].dev # NoDevice /\ peers[k].dev = peers'[l].dev
                        => peers[k].ip = peers'[l].ip
<1>1. ASSUME Inv, Next PROVE Keeps
  <2>1. CASE \E k \in PubKeys, d \in Devices \cup {NoDevice} : Request(k, d)
    <3>1. PICK new : Sound(new) /\ peers' = new
      BY <1>1, <2>1, RequestSaves DEF Inv, Save
    <3> QED BY <3>1 DEF Sound
  <2>2. CASE UNCHANGED peers BY <1>1, <2>2 DEF Inv, Allocs, AllocationsDistinct
  <2> QED
    BY <1>1, <2>1, <2>2 DEF Next, WgRemove, ConfRemove, WgSetPeer, ConfAdd, RuleAdd, Kept,
                            Abort, Reboot, RoutesRead, RoutesApply, RoutesDone
<1>2. Inv /\ [Next]_vars => [Keeps]_vars BY <1>1
<1> QED BY <1>2, Invariant, PTL DEF Spec, DeviceKeepsIP
-----------------------------------------------------------------------------
(* Types.  The stanzas of wgd0.conf have keys and addresses of allocations,  *)
(* and no key has two: that is what the invariant above does without.        *)
Stanza == [key : PubKeys, ip : Pool]

LiveOK == DOMAIN live \subseteq PubKeys /\ \A k \in DOMAIN live : live[k] \in Pool \cup {NoIP}
ConfOK == conf \in Seq(Stanza) /\ \A i, j \in 1..Len(conf) : conf[i].key = conf[j].key => i = j
ScriptOK ==
  /\ rules \subseteq Pool /\ boot \in {"wait", "run", "done"}
  /\ DOMAIN todo \subseteq PubKeys /\ \A k \in DOMAIN todo : todo[k] \in Pool
  /\ missed \subseteq PubKeys
BoundsOK == aborts \in 0..MaxAborts /\ reboots \in 0..MaxReboots /\ overlap \in BOOLEAN
Typed == Inv /\ LiveOK /\ ConfOK /\ ScriptOK /\ BoundsOK

(* What is left of a sequence without its element i: the others, in order.   *)
LEMMA RemoveAtProperties ==
  ASSUME NEW S, NEW s \in Seq(S), NEW i \in 1..Len(s)
  PROVE  /\ RemoveAt(s, i) \in Seq(S)
         /\ Len(RemoveAt(s, i)) = Len(s) - 1
         /\ \A n \in 1..Len(s) - 1 :
              RemoveAt(s, i)[n] = IF n < i THEN s[n] ELSE s[n + 1]
<1> DEFINE a == SubSeq(s, 1, i - 1)
           b == SubSeq(s, i + 1, Len(s))
<1>1. Len(s) \in Nat /\ \A n \in 1..Len(s) : s[n] \in S BY LenProperties, ElementOfSeq
<1>2. /\ a \in Seq(S) /\ Len(a) = i - 1
      /\ \A n \in 1..i - 1 : a[n] = s[n]
  <2>1. \A n \in 1..i - 1 : s[n] \in S BY <1>1
  <2>2. /\ a \in Seq(S) /\ Len(a) = (IF 1 <= i - 1 THEN i - 1 - 1 + 1 ELSE 0)
        /\ \A n \in 1..i - 1 - 1 + 1 : a[n] = s[1 + n - 1]
    BY <1>1, <2>1, SubSeqProperties
  <2> HIDE DEF a
  <2> QED BY <1>1, <2>2
<1>3. /\ b \in Seq(S) /\ Len(b) = Len(s) - i
      /\ \A n \in 1..Len(s) - i : b[n] = s[i + n]
  <2>1. \A n \in i + 1..Len(s) : s[n] \in S BY <1>1
  <2>2. /\ b \in Seq(S)
        /\ Len(b) = (IF i + 1 <= Len(s) THEN Len(s) - (i + 1) + 1 ELSE 0)
        /\ \A n \in 1..Len(s) - (i + 1) + 1 : b[n] = s[i + 1 + n - 1]
    BY <1>1, <2>1, SubSeqProperties
  <2> HIDE DEF b
  <2> QED BY <1>1, <2>2
<1>4. RemoveAt(s, i) = a \o b BY DEF RemoveAt
<1> HIDE DEF a, b
<1>5. /\ a \o b \in Seq(S) /\ Len(a \o b) = Len(a) + Len(b)
      /\ \A n \in 1..Len(a) + Len(b) : (a \o b)[n] = IF n <= Len(a) THEN a[n] ELSE b[n - Len(a)]
  BY <1>2, <1>3, ConcatProperties
<1>6. Len(a) + Len(b) = Len(s) - 1 BY <1>1, <1>2, <1>3
<1>7. ASSUME NEW n \in 1..Len(s) - 1
      PROVE  (a \o b)[n] = IF n < i THEN s[n] ELSE s[n + 1]
  <2>1. CASE n < i
    <3>1. n \in 1..i - 1 /\ n <= Len(a) /\ n \in 1..Len(a) + Len(b) BY <1>1, <1>2, <1>6, <2>1
    <3> QED BY <1>2, <1>5, <2>1, <3>1
  <2>2. CASE ~(n < i)
    <3>1. /\ n - (i - 1) \in 1..Len(s) - i /\ ~(n <= Len(a)) /\ n \in 1..Len(a) + Len(b)
          /\ i + (n - (i - 1)) = n + 1
      BY <1>1, <1>2, <1>6, <2>2
    <3> QED BY <1>2, <1>3, <1>5, <2>2, <3>1
  <2> QED BY <2>1, <2>2
<1> QED BY <1>4, <1>5, <1>6, <1>7

(* Setting a peer keeps the types of the interface's peers.                  *)
LEMMA WgSetType ==
  ASSUME LiveOK, NEW k \in PubKeys, NEW ip \in Pool, live' = WgSet(live, k, ip)
  PROVE  LiveOK'
BY DEF LiveOK, WgSet, Put

(* A request in progress has a key and an address of the pool. *)
LEMMA ReqTyped ==
  ASSUME Inv, req.pc # "free"
  PROVE  req.key \in PubKeys /\ req.ip \in Pool
BY DEF Inv, Hub, ReqOK, Allocs, PeersOK, EntryType

(* remove_peer leaves at most one stanza of each key.                        *)
LEMMA ConfRemoveType ==
  ASSUME Typed, ConfRemove
  PROVE  ConfOK'
<1>1. CASE UNCHANGED conf BY <1>1 DEF ConfOK, Typed
<1>2. CASE \E i \in Stanzas(req.old) : conf' = RemoveAt(conf, i)
  <2>1. PICK i \in 1..Len(conf) : conf' = RemoveAt(conf, i) BY <1>2 DEF Stanzas
  <2>2. conf \in Seq(Stanza) /\ Len(conf) \in Nat BY LenProperties DEF Typed, ConfOK
  <2>3. /\ conf' \in Seq(Stanza) /\ Len(conf') = Len(conf) - 1
        /\ \A n \in 1..Len(conf) - 1 : conf'[n] = IF n < i THEN conf[n] ELSE conf[n + 1]
    BY <2>1, <2>2, RemoveAtProperties
  <2> DEFINE from(n) == IF n < i THEN n ELSE n + 1
  <2>4. \A n \in 1..Len(conf') : from(n) \in 1..Len(conf) /\ conf'[n] = conf[from(n)]
    BY <2>2, <2>3
  <2>5. \A m, n \in 1..Len(conf') : from(m) = from(n) => m = n BY <2>2, <2>3
  <2> HIDE DEF from
  <2>6. ASSUME NEW m \in 1..Len(conf'), NEW n \in 1..Len(conf'), conf'[m].key = conf'[n].key
        PROVE  m = n
    <3>1. /\ from(m) \in 1..Len(conf) /\ from(n) \in 1..Len(conf)
          /\ conf[from(m)].key = conf[from(n)].key
      BY <2>4, <2>6
    <3>2. from(m) = from(n) BY <3>1 DEF ConfOK, Typed
    <3> QED BY <2>5, <3>2
  <2> QED BY <2>3, <2>6 DEF ConfOK
<1> QED BY <1>1, <1>2 DEF ConfRemove

(* apply_peer adds a stanza of a key that has none.                          *)
LEMMA ConfAddType ==
  ASSUME Typed, ConfAdd
  PROVE  ConfOK'
<1>1. CASE UNCHANGED conf BY <1>1 DEF ConfOK, Typed
<1>2. CASE Stanzas(req.key) = {} /\ conf' = Append(conf, [key |-> req.key, ip |-> req.ip])
  <2> DEFINE new == [key |-> req.key, ip |-> req.ip]
  <2>1. new \in Stanza /\ new.key = req.key
    <3>1. req.pc # "free" BY DEF ConfAdd
    <3> QED BY <3>1, ReqTyped DEF Typed, Stanza
  <2>2. conf \in Seq(Stanza) /\ Len(conf) \in Nat BY LenProperties DEF Typed, ConfOK
  <2>3. conf' = Append(conf, new) BY <1>2
  <2> HIDE DEF new
  <2>4. /\ conf' \in Seq(Stanza) /\ Len(conf') = Len(conf) + 1
        /\ \A n \in 1..Len(conf) : conf'[n] = conf[n]
        /\ conf'[Len(conf) + 1] = new
    BY <2>1, <2>2, <2>3, AppendProperties
  <2>5. \A n \in 1..Len(conf) : conf'[n].key # req.key BY <1>2, <2>4 DEF Stanzas
  <2>6. ASSUME NEW m \in 1..Len(conf'), NEW n \in 1..Len(conf'), conf'[m].key = conf'[n].key
        PROVE  m = n
    <3>1. \A l \in 1..Len(conf') : l \in 1..Len(conf) \/ l = Len(conf) + 1 BY <2>2, <2>4
    <3>2. CASE m \in 1..Len(conf) /\ n \in 1..Len(conf)
      BY <2>4, <2>6, <3>2 DEF Typed, ConfOK
    <3>3. CASE ~(m \in 1..Len(conf) /\ n \in 1..Len(conf))
      BY <2>1, <2>4, <2>5, <2>6, <3>1, <3>3
    <3> QED BY <3>2, <3>3
  <2> QED BY <2>4, <2>6 DEF ConfOK
<1> QED BY <1>1, <1>2 DEF ConfAdd

(* What wg-quick makes of wgd0.conf: peers with their address, or none.      *)
LEMMA FromConfType ==
  ASSUME Typed, live' = FromConf
  PROVE  LiveOK'
<1>1. \A i \in 1..Len(conf) : conf[i].key \in PubKeys /\ conf[i].ip \in Pool
  <2>1. conf \in Seq(Stanza) BY DEF Typed, ConfOK
  <2>2. \A i \in 1..Len(conf) : conf[i] \in Stanza BY <2>1, ElementOfSeq
  <2> QED BY <2>2 DEF Stanza
<1>2. DOMAIN live' = {conf[i].key : i \in 1..Len(conf)} BY DEF FromConf
<1>3. ASSUME NEW k \in DOMAIN live' PROVE live'[k] \in Pool \cup {NoIP}
  <2> DEFINE i == CHOOSE i \in Stanzas(k) : TRUE
  <2>1. Stanzas(k) # {} BY <1>2 DEF Stanzas
  <2>2. i \in 1..Len(conf) BY <2>1 DEF Stanzas
  <2>3. live'[k] = IF \E j \in i + 1..Len(conf) : conf[j].ip = conf[i].ip
                   THEN NoIP ELSE conf[i].ip
    BY <1>2 DEF FromConf
  <2> HIDE DEF i
  <2> QED BY <1>1, <2>2, <2>3
<1> QED BY <1>1, <1>2, <1>3 DEF LiveOK

(* Every step keeps the types. *)
LEMMA NextTyped ==
  ASSUME Typed, [Next]_vars
  PROVE  Typed'
<1>1. Inv' BY NextInv DEF Typed
<1>2. CASE \E k \in PubKeys, d \in Devices \cup {NoDevice} : Request(k, d)
  <2>1. /\ UNCHANGED <<live, conf, rules, boot, todo, missed, aborts, reboots>>
        /\ overlap' = (overlap \/ boot # "done")
    BY <1>2, Zenon DEF Request, Rekey, Again, ByKey, Create, Save
  <2>2. LiveOK' /\ ConfOK' /\ ScriptOK' BY <2>1 DEF Typed, LiveOK, ConfOK, ScriptOK
  <2>3. overlap' \in BOOLEAN BY <2>1, Zenon DEF Typed, BoundsOK
  <2>4. BoundsOK' BY <2>1, <2>3, Zenon DEF Typed, BoundsOK
  <2> QED BY <1>1, <2>2, <2>4 DEF Typed
<1>3. CASE WgRemove \/ ConfRemove \/ WgSetPeer \/ ConfAdd \/ RuleAdd
  <2>1. /\ req.pc # "free" /\ UNCHANGED <<boot, todo, aborts, reboots, overlap>>
    BY <1>3 DEF WgRemove, ConfRemove, WgSetPeer, ConfAdd, RuleAdd, Kept
  <2>2. req.key \in PubKeys /\ req.ip \in Pool BY <2>1, ReqTyped DEF Typed
  <2>3. BoundsOK' BY <2>1, Zenon DEF Typed, BoundsOK
  <2>4. ScriptOK'
    BY <1>3, <2>1, <2>2
       DEF Typed, ScriptOK, WgRemove, ConfRemove, WgSetPeer, ConfAdd, RuleAdd
  <2>5. ConfOK'
    <3>1. CASE WgRemove \/ WgSetPeer \/ RuleAdd
      BY <3>1 DEF WgRemove, WgSetPeer, RuleAdd, Typed, ConfOK
    <3> QED BY <1>3, <3>1, ConfRemoveType, ConfAddType
  <2>6. LiveOK'
    <3>1. CASE WgRemove BY <3>1 DEF WgRemove, Without, Typed, LiveOK
    <3>2. CASE WgSetPeer BY <2>2, <3>2, WgSetType DEF WgSetPeer, Typed
    <3>3. CASE ConfRemove \/ ConfAdd \/ RuleAdd
      BY <3>3 DEF ConfRemove, ConfAdd, RuleAdd, Typed, LiveOK
    <3> QED BY <1>3, <3>1, <3>2, <3>3
  <2> QED BY <1>1, <2>3, <2>4, <2>5, <2>6 DEF Typed
<1>4. CASE Abort
  <2>1. /\ UNCHANGED <<live, conf, rules, boot, todo, missed, reboots, overlap>>
        /\ aborts < MaxAborts /\ aborts' = aborts + 1
    BY <1>4 DEF Abort
  <2>2. LiveOK' /\ ConfOK' /\ ScriptOK' BY <2>1 DEF Typed, LiveOK, ConfOK, ScriptOK
  <2>3. aborts' \in 0..MaxAborts BY <2>1, BoundsAssumption DEF Typed, BoundsOK
  <2>4. BoundsOK' BY <2>1, <2>3, Zenon DEF Typed, BoundsOK
  <2> QED BY <1>1, <2>2, <2>4 DEF Typed
<1>5. CASE Reboot
  <2>1. /\ reboots < MaxReboots /\ reboots' = reboots + 1
        /\ live' = FromConf /\ rules' = {} /\ boot' = "wait" /\ todo' = <<>> /\ missed' = {}
        /\ overlap' = FALSE /\ UNCHANGED <<conf, aborts>>
    BY <1>5 DEF Reboot
  <2>2. LiveOK' BY <2>1, FromConfType
  <2>3. ConfOK' /\ ScriptOK' BY <2>1 DEF Typed, ConfOK, ScriptOK
  <2>4. reboots' \in 0..MaxReboots BY <2>1, BoundsAssumption DEF Typed, BoundsOK
  <2>5. BoundsOK' BY <2>1, <2>4, Zenon DEF Typed, BoundsOK
  <2> QED BY <1>1, <2>2, <2>3, <2>5 DEF Typed
<1>6. CASE RoutesRead
  <2>1. /\ boot' = "run" /\ todo' = [k \in DOMAIN peers |-> peers[k].ip]
        /\ UNCHANGED <<live, conf, rules, missed, aborts, reboots, overlap>>
    BY <1>6 DEF RoutesRead
  <2>2. LiveOK' /\ ConfOK' BY <2>1 DEF Typed, LiveOK, ConfOK
  <2>3. ScriptOK' BY <2>1 DEF Typed, ScriptOK, Inv, Allocs, PeersOK, EntryType
  <2>4. BoundsOK' BY <2>1, Zenon DEF Typed, BoundsOK
  <2> QED BY <1>1, <2>2, <2>3, <2>4 DEF Typed
<1>7. CASE RoutesApply
  <2>1. PICK k \in DOMAIN todo :
          /\ live' \in {live, WgSet(live, k, todo[k])}
          /\ rules' \in {rules, rules \cup {todo[k]}}
          /\ missed' \in {missed, missed \cup {k}}
          /\ todo' = Without(todo, k)
    BY <1>7 DEF RoutesApply
  <2>2. UNCHANGED <<conf, boot, aborts, reboots, overlap>> BY <1>7 DEF RoutesApply
  <2>3. k \in PubKeys /\ todo[k] \in Pool BY DEF Typed, ScriptOK
  <2>4. LiveOK'
    <3>1. CASE live' = live BY <3>1 DEF Typed, LiveOK
    <3> QED BY <2>1, <2>3, <3>1, WgSetType DEF Typed
  <2>5. ConfOK' BY <2>2 DEF Typed, ConfOK
  <2>6. ScriptOK' BY <2>1, <2>2, <2>3 DEF Typed, ScriptOK, Without
  <2>7. BoundsOK' BY <2>2, Zenon DEF Typed, BoundsOK
  <2> QED BY <1>1, <2>4, <2>5, <2>6, <2>7 DEF Typed
<1>8. CASE RoutesDone \/ UNCHANGED vars
  <2>1. /\ UNCHANGED <<live, conf, rules, todo, missed, aborts, reboots, overlap>>
        /\ boot' \in {boot, "done"}
    BY <1>8 DEF RoutesDone, vars
  <2>2. LiveOK' /\ ConfOK' /\ ScriptOK' BY <2>1 DEF Typed, LiveOK, ConfOK, ScriptOK
  <2>3. BoundsOK' BY <2>1, Zenon DEF Typed, BoundsOK
  <2> QED BY <1>1, <2>2, <2>3 DEF Typed
<1> QED BY <1>2, <1>3, <1>4, <1>5, <1>6, <1>7, <1>8 DEF Next

(* What the state is made of, at every step; in particular wgd0.conf never   *)
(* has two stanzas of one key (apply_peer and remove_peer), which is what    *)
(* remove_peer and a boot rely on.                                           *)
THEOREM TypeCorrect == Spec => []TypeOK
<1>1. Init => Typed
  <2> SUFFICES ASSUME Init PROVE Typed OBVIOUS
  <2>1. Inv
    BY DEF Init, Inv, Allocs, PeersOK, AllocationsDistinct, Hub, ReqOK, ReqType, ReqSet,
           BootOK, ServedWorks, Free
  <2>2. conf \in Seq(Stanza) /\ Len(conf) = 0 BY EmptySeq DEF Init
  <2>3. LiveOK /\ ConfOK /\ ScriptOK BY <2>2 DEF Init, LiveOK, ConfOK, ScriptOK
  <2>4. 0 \in 0..MaxAborts /\ 0 \in 0..MaxReboots BY BoundsAssumption
  <2>5. BoundsOK BY <2>4, Zenon DEF Init, BoundsOK
  <2> QED BY <2>1, <2>3, <2>5 DEF Typed
<1>2. Typed => TypeOK
  <2> SUFFICES ASSUME Typed PROVE TypeOK OBVIOUS
  <2>1. /\ DOMAIN peers \subseteq PubKeys
        /\ \A k \in DOMAIN peers : peers[k].ip \in Pool /\ peers[k].dev \in Devices \cup {NoDevice}
    BY DEF Typed, Inv, Allocs, PeersOK, EntryType
  <2>2. /\ req.pc \in {"free", "wg_remove", "conf_remove", "wg_set", "conf_add", "rule"}
        /\ served \subseteq DOMAIN peers
    BY DEF Typed, Inv, Hub, ReqOK, ReqType
  <2> QED BY <2>1, <2>2, Zenon
             DEF Typed, LiveOK, ConfOK, ScriptOK, BoundsOK, TypeOK, Stanza
<1> QED BY <1>1, <1>2, NextTyped, PTL DEF Spec
=============================================================================
