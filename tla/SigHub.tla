------------------------------- MODULE SigHub -------------------------------
(***************************************************************************)
(* The signaling hub of the coordinator (sigHub in coordinator/coord.go):   *)
(* WebSocket connections, the registry of peers behind h.mu, one bounded    *)
(* send channel per peer, and the messages peers exchange through it.       *)
(*                                                                         *)
(* Every connection has a handler goroutine (handleWS, readLoop, drop) and  *)
(* a writer goroutine (writeLoop).  A critical section under h.mu is one    *)
(* step, together with what its goroutine does alone before or after it     *)
(* (reading a frame, validating a hello): nobody sees the middle.  The one  *)
(* that never unlocks, an introduce that panics, sets wedged, and no        *)
(* critical section runs after it.                                          *)
(*                                                                         *)
(* A connection is used once; a peer that reconnects uses another one.      *)
(***************************************************************************)
EXTENDS Integers, Sequences, FiniteSets

CONSTANTS
  Conns,      \* WebSocket connections
  Keys,       \* public keys peers register under
  HelloOf,    \* what each connection says in its hello: key, role, cred
  FleetToken, \* the credential of exits
  CodeNet,    \* access code -> network, the table access_codes
  QCap,       \* capacity of a send channel (64 in the code)
  Frames,     \* bound of the model: the frames each connection may send
  MaxFrames,  \* bound of the model: frames read from one connection
  Leavers     \* bound of the model: connections whose remote end may vanish

None == "none"    \* no connection

(* hasPublicCandidate is the only thing the hub asks of candidates. *)
Candidates == {"private", "public"}

AllFrames == [type : {"endpoints"}, cand : Candidates]
             \cup [type : {"connect"}, key : Keys]
             \cup [type : {"result"}, direct : BOOLEAN]

ASSUME NoneAssumption   == None \notin Conns
ASSUME QCapAssumption   == QCap \in Nat \ {0}
ASSUME FramesAssumption == MaxFrames \in Nat
ASSUME ScriptAssumption == Frames \in [Conns -> SUBSET AllFrames]
ASSUME LeaversAssumption == Leavers \subseteq Conns
ASSUME TokenAssumption  == FleetToken \notin DOMAIN CodeNet
ASSUME HelloAssumption  ==
  \A c \in Conns : HelloOf[c].key \in Keys /\ HelloOf[c].role \in {"exit", "client"}

VARIABLES
  pc,      \* where the handler of a connection is
  frames,  \* how many frames its readLoop has read
  info,    \* p.info: candidates and directOK
  open,    \* p.conn is not closed
  up,      \* the remote end is there
  writer,  \* writeLoop: "none", "running" or "ended"
  queue,   \* the messages in p.send
  shut,    \* p.send is closed
  pushed,  \* the last peer list put into p.send
  peers,   \* h.peers: key -> connection
  wedged   \* h.mu is held by a goroutine that waits for it

vars == <<pc, frames, info, open, up, writer, queue, shut, pushed, peers, wedged>>

-----------------------------------------------------------------------------
KeyOf(c) == HelloOf[c].key
IsExit(c) == HelloOf[c].role = "exit" /\ HelloOf[c].cred = FleetToken
Accepted(c) == IsExit(c) \/ HelloOf[c].cred \in DOMAIN CodeNet
NetOf(c) == IF IsExit(c) THEN "fleet" ELSE CodeNet[HelloOf[c].cred]

Registered(c) == peers[KeyOf(c)] = c
Members(net) == {c \in Conns : Registered(c) /\ NetOf(c) = net}

Entry(c) == [conn |-> c, cand |-> info[c].cand, direct |-> info[c].direct]

(* The list broadcastPeers sends to c: the others of its network. *)
Roster(c) == {Entry(d) : d \in Members(NetOf(c)) \ {c}}

Msg(type, about) == [type |-> type, about |-> about]

-----------------------------------------------------------------------------
(* The part of the state trySend works on, and whether it has panicked: a    *)
(* send on a closed channel panics, and then nothing after it is done.       *)
Hub == [peers |-> peers, queue |-> queue, shut |-> shut, panic |-> FALSE]

(* A peer whose channel is full stays, and the message is queued. *)
TrySendAlways(h, c, m) ==
  IF h.panic THEN h
  ELSE IF h.shut[c] THEN [h EXCEPT !.panic = TRUE]
       ELSE [h EXCEPT !.queue[c] = Append(@, m)]

(* A peer whose channel is full is closed and stays registered. *)
TrySendKeepsPeer(h, c, m) ==
  IF h.panic THEN h
  ELSE IF h.shut[c] THEN [h EXCEPT !.panic = TRUE]
  ELSE IF Len(h.queue[c]) < QCap
       THEN [h EXCEPT !.queue[c] = Append(@, m)]
       ELSE [h EXCEPT !.shut[c] = TRUE]

(* trySend: a peer whose channel is full is closed and forgotten. *)
TrySend(h, c, m) ==
  IF h.panic THEN h
  ELSE IF h.shut[c] THEN [h EXCEPT !.panic = TRUE]
  ELSE IF Len(h.queue[c]) < QCap
       THEN [h EXCEPT !.queue[c] = Append(@, m)]
       ELSE [h EXCEPT !.shut[c] = TRUE, !.peers[KeyOf(c)] = None]

(* broadcastPeers: the list is collected first, then sent to each member.    *)
(* Members have open channels (RegisteredOpen), so that no send panics.      *)
Broadcast(net) ==
  LET full == {c \in Members(net) : Len(queue[c]) >= QCap}
      got  == Members(net) \ full
  IN  /\ ~wedged
      /\ queue' = [c \in Conns |-> IF c \in got
                                   THEN Append(queue[c], Msg("peers", None))
                                   ELSE queue[c]]
      /\ pushed' = [c \in Conns |-> IF c \in got THEN Roster(c) ELSE pushed[c]]
      /\ shut' = [c \in Conns |-> shut[c] \/ c \in full]
      /\ peers' = [k \in Keys |-> IF peers[k] \in full THEN None ELSE peers[k]]

Goto(c, p) == pc' = [pc EXCEPT ![c] = p]
HubUnchanged == UNCHANGED <<queue, shut, pushed, peers, wedged>>
ConnUnchanged == UNCHANGED <<frames, info, open, up, writer>>

-----------------------------------------------------------------------------
(* handleWS: no hello within 10 s, a malformed one or an unknown code.       *)
Reject(c) ==
  /\ pc[c] = "hello"
  /\ Goto(c, "done")
  /\ open' = [open EXCEPT ![c] = FALSE]
  /\ UNCHANGED <<frames, info, up, writer>> /\ HubUnchanged

(* handleWS: a hello in time with a known credential; the new peer takes the *)
(* place of an older connection with its key, which is closed.               *)
Register(c) ==
  /\ pc[c] = "hello" /\ up[c] /\ Accepted(c) /\ ~wedged
  /\ open' = [d \in Conns |-> open[d] /\ d # peers[KeyOf(c)]]
  /\ peers' = [peers EXCEPT ![KeyOf(c)] = c]
  /\ Goto(c, "greet")
  /\ UNCHANGED <<frames, info, up, writer, queue, shut, pushed, wedged>>

(* p.send <- welcome, outside the lock and before there is a writer: it      *)
(* waits while the channel is full, and panics once the channel is closed.   *)
(* net/http recovers the panic; nobody closes the connection.  Then          *)
(* go h.writeLoop(p).                                                        *)
Greet(c) ==
  /\ pc[c] = "greet"
  /\ \/ /\ shut[c]
        /\ Goto(c, "crashed")
        /\ UNCHANGED <<queue, writer>>
     \/ /\ ~shut[c] /\ Len(queue[c]) < QCap
        /\ queue' = [queue EXCEPT ![c] = Append(@, Msg("welcome", None))]
        /\ writer' = [writer EXCEPT ![c] = "running"]
        /\ Goto(c, "bcast")
  /\ UNCHANGED <<frames, info, open, up, shut, pushed, peers, wedged>>

(* broadcastPeers after a change; readLoop goes on, or the handler ends. *)
Announce(c) ==
  /\ pc[c] \in {"bcast", "left"}
  /\ Broadcast(NetOf(c))
  /\ Goto(c, IF pc[c] = "bcast" THEN "read" ELSE "done")
  /\ ConnUnchanged /\ UNCHANGED wedged

(* readLoop gets a frame.  Frames that arrived before a Close are still read. *)
Reads(c, f) ==
  /\ pc[c] = "read" /\ ~wedged
  /\ f \in Frames[c] /\ frames[c] < MaxFrames
  /\ frames' = [frames EXCEPT ![c] = @ + 1]

Reported(c, f) ==
  info' = [info EXCEPT ![c] = [cand |-> f.cand, direct |-> f.cand = "public"]]

(* New candidates are recorded and not pushed. *)
HandleEndpointsSilently(c) ==
  /\ \E f \in [type : {"endpoints"}, cand : Candidates] :
       Reads(c, f) /\ Reported(c, f)
  /\ UNCHANGED <<pc, open, up, writer>> /\ HubUnchanged

(* New candidates, then broadcastPeers. *)
HandleEndpoints(c) ==
  /\ \E f \in [type : {"endpoints"}, cand : Candidates] :
       Reads(c, f) /\ Reported(c, f)
  /\ Goto(c, "bcast")
  /\ UNCHANGED <<open, up, writer>> /\ HubUnchanged

(* onResult: the outcome is recorded and not pushed. *)
HandleResult(c) ==
  /\ \E f \in [type : {"result"}, direct : BOOLEAN] :
       Reads(c, f) /\ info' = [info EXCEPT ![c].direct = f.direct]
  /\ UNCHANGED <<pc, open, up, writer>> /\ HubUnchanged

(* The target's network is not compared. *)
UnmatchedAnyNet(c, t) == t = None

(* introduce, when there is nobody to introduce to. *)
Unmatched(c, t) == t = None \/ NetOf(t) # NetOf(c)

(* The punch is sent before the relay. *)
IntroducedPunchFirst(c, t) ==
  LET h1 == TrySend(Hub, c, Msg("punch", t))
      h2 == TrySend(h1,  t, Msg("punch", c))
      h3 == TrySend(h2,  c, Msg("relay", t))
  IN  TrySend(h3, t, Msg("relay", c))

(* Only the side that asked is told to punch. *)
IntroducedOneSide(c, t) ==
  LET h1 == TrySend(Hub, c, Msg("relay", t))
      h2 == TrySend(h1,  t, Msg("relay", c))
  IN  TrySend(h2, c, Msg("punch", t))

(* The sends of introduce: the relay to both, then the punch to both. *)
Introduced(c, t) ==
  LET h1 == TrySend(Hub, c, Msg("relay", t))
      h2 == TrySend(h1,  t, Msg("relay", c))
      h3 == TrySend(h2,  c, Msg("punch", t))
  IN  TrySend(h3, t, Msg("punch", c))

(* introduce.  A panic leaves h.mu locked, and the deferred drop of readLoop *)
(* waits for it: from then on nobody gets it.                                *)
HandleConnect(c, k) ==
  /\ Reads(c, [type |-> "connect", key |-> k])
  /\ LET t == peers[k]
         h == IF Unmatched(c, t) THEN Hub ELSE Introduced(c, t)
     IN  /\ peers' = h.peers /\ queue' = h.queue /\ shut' = h.shut
         /\ wedged' = h.panic
         /\ Goto(c, IF h.panic THEN "stuck" ELSE "read")
  /\ UNCHANGED <<info, open, up, writer, pushed>>

(* ReadMessage fails: the connection is closed at one of its ends. *)
Leaves(c) ==
  /\ pc[c] = "read" /\ ~wedged
  /\ ~open[c] \/ ~up[c]
  /\ open' = [open EXCEPT ![c] = FALSE]
  /\ Goto(c, "left")
  /\ UNCHANGED <<frames, info, up, writer, queue, pushed, wedged>>

(* Whoever is registered under the key is removed. *)
DropAnyone(c) ==
  /\ Leaves(c)
  /\ peers' = [peers EXCEPT ![KeyOf(c)] = None]
  /\ shut' = [shut EXCEPT ![c] = TRUE]

(* The channel is closed, the entry is left. *)
DropKeepsEntry(c) ==
  /\ Leaves(c)
  /\ shut' = [shut EXCEPT ![c] = TRUE]
  /\ UNCHANGED peers

(* drop: only the registration of this very connection is removed. *)
Drop(c) ==
  /\ Leaves(c)
  /\ IF Registered(c)
     THEN /\ peers' = [peers EXCEPT ![KeyOf(c)] = None]
          /\ shut' = [shut EXCEPT ![c] = TRUE]
     ELSE UNCHANGED <<peers, shut>>

-----------------------------------------------------------------------------
(* writeLoop takes the next message; the write succeeds or fails. *)
Write(c) ==
  /\ writer[c] = "running" /\ queue[c] # <<>>
  /\ queue' = [queue EXCEPT ![c] = Tail(@)]
  /\ \/ open[c] /\ UNCHANGED <<open, writer>>
     \/ /\ ~open[c] \/ ~up[c]
        /\ open' = [open EXCEPT ![c] = FALSE]
        /\ writer' = [writer EXCEPT ![c] = "ended"]
  /\ UNCHANGED <<pc, frames, info, up, shut, pushed, peers, wedged>>

WriterEnds(c) ==
  /\ open' = [open EXCEPT ![c] = FALSE]
  /\ writer' = [writer EXCEPT ![c] = "ended"]
  /\ UNCHANGED <<pc, frames, info, up>> /\ HubUnchanged

(* The writer leaves without closing the connection. *)
DrainedLeaves(c) ==
  /\ writer[c] = "running" /\ queue[c] = <<>> /\ shut[c]
  /\ writer' = [writer EXCEPT ![c] = "ended"]
  /\ UNCHANGED <<pc, frames, info, open, up>> /\ HubUnchanged

(* The channel is closed and drained. *)
Drained(c) ==
  writer[c] = "running" /\ queue[c] = <<>> /\ shut[c] /\ WriterEnds(c)

(* The writer has no ticker. *)
PingNever(c) == FALSE /\ WriterEnds(c)

(* The ping of the 20 s ticker cannot be written. *)
PingFails(c) ==
  writer[c] = "running" /\ (~open[c] \/ ~up[c]) /\ WriterEnds(c)

(* The remote end goes away, noticed or not. *)
Vanish(c) ==
  /\ c \in Leavers /\ up[c]
  /\ up' = [up EXCEPT ![c] = FALSE]
  /\ UNCHANGED <<pc, frames, info, open, writer>> /\ HubUnchanged

-----------------------------------------------------------------------------
Init ==
  /\ pc = [c \in Conns |-> "hello"]
  /\ frames = [c \in Conns |-> 0]
  /\ info = [c \in Conns |-> [cand |-> "none", direct |-> FALSE]]
  /\ open = [c \in Conns |-> TRUE]
  /\ up = [c \in Conns |-> TRUE]
  /\ writer = [c \in Conns |-> "none"]
  /\ queue = [c \in Conns |-> <<>>]
  /\ shut = [c \in Conns |-> FALSE]
  /\ pushed = [c \in Conns |-> {}]
  /\ peers = [k \in Keys |-> None]
  /\ wedged = FALSE

Next ==
  \E c \in Conns :
    \/ Reject(c) \/ Register(c) \/ Greet(c) \/ Announce(c)
    \/ HandleEndpoints(c) \/ HandleResult(c)
    \/ \E k \in Keys : HandleConnect(c, k)
    \/ Drop(c) \/ Vanish(c)
    \/ Write(c) \/ Drained(c) \/ PingFails(c)

Spec == Init /\ [][Next]_vars

(* A goroutine that can run does, and h.mu is fair to those that wait for    *)
(* it; a read of a connection closed here fails, and so does, in the end, a  *)
(* write to a remote end that is gone.  Peers need not say hello, send, read *)
(* what is written to them, or go away; a remote end that is gone need not   *)
(* be noticed by a read.                                                     *)
Fairness ==
  \A c \in Conns :
    /\ WF_vars(Greet(c)) /\ WF_vars(Announce(c))
    /\ WF_vars(Drop(c) /\ ~open[c])
    /\ WF_vars(Write(c) /\ (~open[c] \/ ~up[c]))
    /\ WF_vars(Drained(c) \/ PingFails(c))

FairSpec == Spec /\ Fairness

-----------------------------------------------------------------------------
Entries == [conn : Conns, cand : Candidates \cup {"none"}, direct : BOOLEAN]

Messages == [type : {"welcome", "peers"}, about : {None}]
            \cup [type : {"relay", "punch"}, about : Conns]

(* The types, and: a channel never holds more than its capacity. *)
TypeOK ==
  /\ pc \in [Conns -> {"hello", "greet", "bcast", "read", "left", "done",
                       "crashed", "stuck"}]
  /\ frames \in [Conns -> 0..MaxFrames]
  /\ info \in [Conns -> [cand : Candidates \cup {"none"}, direct : BOOLEAN]]
  /\ open \in [Conns -> BOOLEAN] /\ up \in [Conns -> BOOLEAN]
  /\ writer \in [Conns -> {"none", "running", "ended"}]
  /\ queue \in [Conns -> Seq(Messages)]
  /\ \A c \in Conns : Len(queue[c]) <= QCap
  /\ shut \in [Conns -> BOOLEAN]
  /\ pushed \in [Conns -> SUBSET Entries]
  /\ peers \in [Keys -> Conns \cup {None}]
  /\ wedged \in BOOLEAN

(* Whoever is in h.peers is there under its own key and has an open channel: *)
(* without it broadcastPeers, sending to everybody, would panic.             *)
RegisteredOpen ==
  \A k \in Keys : peers[k] # None => KeyOf(peers[k]) = k /\ ~shut[peers[k]]

(* No message in a channel and no pushed list tells a peer about a           *)
(* connection of another network (broadcastPeers, introduce).                *)
NetworkIsolation ==
  \A c \in Conns :
    /\ \A i \in 1..Len(queue[c]) :
         queue[c][i].about # None => NetOf(queue[c][i].about) = NetOf(c)
    /\ \A e \in pushed[c] : NetOf(e.conn) = NetOf(c) /\ KeyOf(e.conn) # KeyOf(c)

(* The messages a step puts behind what a channel held. *)
Appended(c) == {i \in 1..Len(queue'[c]) : i > Len(queue[c])}

(* Relay-first: a peer told to punch has been told of the relay before, in   *)
(* the same introduction (protocol.go, Relay), evictions included.           *)
RelayFirst ==
  [][\A c \in Conns, d \in Conns : \A i \in Appended(c) :
       queue'[c][i] = Msg("punch", d) =>
         \E j \in Appended(c) : j < i /\ queue'[c][j] = Msg("relay", d)]_vars

(* Simultaneous open: whenever one side is told to punch, the other is too,  *)
(* or its connection is being closed, or the hub has stopped (introduce).    *)
PunchPaired ==
  [][\A c \in Conns, d \in Conns :
       (\E i \in Appended(c) : queue'[c][i] = Msg("punch", d)) =>
         \/ \E i \in Appended(d) : queue'[d][i] = Msg("punch", c)
         \/ shut'[d] \/ wedged']_vars

(* A registration ends by the connection's own drop, by a newer connection   *)
(* with its key, or by the eviction of a connection with its key - never     *)
(* because an older one was dropped (the test cur == p of drop).             *)
RegistrationEnds ==
  [][\A k \in Keys : peers[k] # None /\ peers'[k] # peers[k] =>
       \/ pc'[peers[k]] = "left"
       \/ peers'[k] # None
       \/ \E d \in Conns : KeyOf(d) = k /\ pc'[d] # "left" /\ shut'[d] /\ ~shut[d]]_vars

(* The introductions that stop the hub: the peer that asks has been evicted  *)
(* and has not noticed yet, or one of the two channels is full; two places   *)
(* short of it is enough if a peer asks for itself, four sends to one.       *)
Stops(c, k) ==
  LET t == peers[k] IN
  /\ HandleConnect(c, k) /\ ~Unmatched(c, t)
  /\ \/ shut[c] \/ Len(queue[c]) = QCap \/ Len(queue[t]) = QCap
     \/ c = t /\ Len(queue[c]) >= QCap - 2

(* The hub stops in these introductions and at no other time: no broadcast,  *)
(* drop or other introduction sends on a closed channel under h.mu, whoever  *)
(* has been evicted or replaced before (coord.go:317 to 348).                *)
StopsOnlyFull ==
  [][~wedged => (wedged' <=> \E c \in Conns, k \in Keys : Stops(c, k))]_vars

(* No change of a roster is still to be announced, and no connection is      *)
(* being torn down, stuck or leaked.                                         *)
Resting(c) ==
  pc[c] \in {"hello", "done"} \/ (pc[c] = "read" /\ open[c] /\ ~shut[c])

Settled == \A c \in Conns : Resting(c)

Known(entries) == {[conn |-> e.conn, cand |-> e.cand] : e \in entries}

(* A connection that is read but no longer registered: the eviction of       *)
(* another one with its key has ended its registration (trySend deletes the  *)
(* key, coord.go:322).  The other one announces its end in its own network.  *)
Orphaned(d) ==
  /\ pc[d] = "read" /\ ~Registered(d)
  /\ \E e \in Conns : shut[e] /\ KeyOf(e) = KeyOf(d) /\ NetOf(e) # NetOf(d)

(* When things have settled, the last list pushed to every registered peer   *)
(* names exactly the other peers of its network, with the candidates they    *)
(* reported last, whatever order joins, reports and departures came in; the  *)
(* only others it may still name are orphans.                                *)
RosterFresh ==
  Settled => \A c \in Conns :
               Registered(c) => {e \in Known(pushed[c]) : ~Orphaned(e.conn)}
                                  = Known(Roster(c))

(* Nobody is left behind.  An open connection that was greeted is read by    *)
(* its handler, and its writer runs, who closes it when the channel is       *)
(* closed or a ping fails - unless the greeting has panicked; and what is    *)
(* registered has its handler, whose drop will end the registration.         *)
Attended ==
  \A c \in Conns :
    /\ open[c] => \/ pc[c] \in {"hello", "greet"} \/ (pc[c] = "crashed" /\ shut[c])
                  \/ pc[c] \in {"bcast", "read", "stuck"} /\ writer[c] = "running"
    /\ Registered(c) => pc[c] \in {"greet", "bcast", "read", "stuck"}

(* A peer whose remote end has silently gone does not stay in the roster:    *)
(* the ping fails, the writer closes, the reader fails, drop runs.  Unless   *)
(* the hub is wedged, or the handler waits to put its welcome into a channel *)
(* that has been filled before its writer was started.                       *)
DeadPeerRemoved ==
  \A c \in Conns :
    Registered(c) /\ ~up[c] ~>
      ~Registered(c) \/ wedged \/ (pc[c] = "greet" /\ Len(queue[c]) = QCap)

(* A peer that is evicted because its channel is full has its connection     *)
(* closed, so that it notices and reconnects; unless it was evicted before   *)
(* it was greeted, or it stays there without reading what it is sent.        *)
EvictedClosed ==
  \A c \in Conns :
    shut[c] ~> \/ ~open[c] \/ pc[c] = "crashed"
               \/ [](up[c] /\ queue[c] # <<>>)

-----------------------------------------------------------------------------
(* What the documentation says, and a run refutes.                           *)

(* "coordinator - the VPS.  Public, always-on" (ARCHITECTURE.md:32): the hub *)
(* goes on serving.                                                          *)
AlwaysOn == ~wedged
=============================================================================
