---------------------------- MODULE SigHubProofs ----------------------------
(***************************************************************************)
(* The registry of SigHub, for any number of connections, keys, networks    *)
(* and any capacity of the channels: types, what a registration guarantees  *)
(* and how it ends, that nothing crosses networks, what introductions send, *)
(* and that lists get to be up to date.                                     *)
(***************************************************************************)
EXTENDS SigHub, SequenceTheorems, TLAPS

(* What trySend needs of its argument and keeps: the types, a registered     *)
(* connection is there under its key with an open channel, and messages stay *)
(* in their network.                                                         *)
HubRecord == [peers : [Keys -> Conns \cup {None}],
              queue : [Conns -> Seq(Messages)],
              shut  : [Conns -> BOOLEAN],
              panic : BOOLEAN]

InNet(c, m) == m.about # None => NetOf(m.about) = NetOf(c)

HubOK(h) ==
  /\ h \in HubRecord
  /\ \A c \in Conns : Len(h.queue[c]) <= QCap
  /\ \A k \in Keys : h.peers[k] # None =>
       KeyOf(h.peers[k]) = k /\ ~h.shut[h.peers[k]]
  /\ \A c \in Conns : \A i \in 1..Len(h.queue[c]) : InNet(c, h.queue[c][i])

(* From h to g only connections of S may have been evicted. *)
Evicts(h, g, S) ==
  /\ \A d \in Conns : h.shut[d] => g.shut[d]
  /\ \A d \in Conns \ S : g.shut[d] = h.shut[d]
  /\ \A k \in Keys :
       \/ g.peers[k] = h.peers[k]
       \/ g.peers[k] = None /\ \E d \in S : KeyOf(d) = k /\ g.shut[d] /\ ~h.shut[d]

(* Connections say hello with keys of the model. *)
LEMMA KeyType == \A c \in Conns : KeyOf(c) \in Keys
BY HelloAssumption DEF KeyOf

(* A message appended to a channel is its last; the others stay in place. *)
LEMMA AppendLast ==
  ASSUME NEW S, NEW s \in Seq(S), NEW m \in S
  PROVE  /\ Append(s, m) \in Seq(S) /\ Len(Append(s, m)) = Len(s) + 1
         /\ \A i \in 1..Len(Append(s, m)) :
              Append(s, m)[i] = m \/ (i \in 1..Len(s) /\ Append(s, m)[i] = s[i])
OBVIOUS

(* Taking the first message off a channel moves the others up. *)
LEMMA TailType ==
  ASSUME NEW S, NEW s \in Seq(S), s # <<>>
  PROVE  /\ Tail(s) \in Seq(S) /\ Len(Tail(s)) = Len(s) - 1
         /\ \A i \in 1..Len(Tail(s)) : i + 1 \in 1..Len(s) /\ Tail(s)[i] = s[i + 1]
OBVIOUS

(* One trySend: the hub stays in order, and only the receiver is evicted. *)
LEMMA TrySendOK ==
  ASSUME NEW h, HubOK(h), NEW c \in Conns, NEW m \in Messages, InNet(c, m),
         NEW g, g = TrySend(h, c, m)
  PROVE  HubOK(g) /\ Evicts(h, g, {c})
<1>1. CASE h.panic
  BY <1>1 DEF TrySend, Evicts
<1>2. CASE ~h.panic /\ h.shut[c]
  <2>1. g = [h EXCEPT !.panic = TRUE]
    BY <1>2 DEF TrySend
  <2>2. g \in HubRecord /\ g.peers = h.peers /\ g.queue = h.queue /\ g.shut = h.shut
    BY <2>1 DEF HubOK, HubRecord
  <2> QED
    BY <2>2 DEF HubOK, Evicts
<1>3. CASE ~h.panic /\ ~h.shut[c] /\ Len(h.queue[c]) < QCap
  <2>1. g = [h EXCEPT !.queue[c] = Append(@, m)]
    BY <1>3 DEF TrySend
  <2>2. h.queue \in [Conns -> Seq(Messages)] /\ h.queue[c] \in Seq(Messages)
    BY DEF HubOK, HubRecord
  <2>3. g = [h EXCEPT !.queue = [h.queue EXCEPT ![c] = Append(h.queue[c], m)]]
    BY <2>1
  <2>4. /\ Append(h.queue[c], m) \in Seq(Messages)
        /\ Len(Append(h.queue[c], m)) = Len(h.queue[c]) + 1
        /\ \A i \in 1..Len(Append(h.queue[c], m)) : InNet(c, Append(h.queue[c], m)[i])
    <3>1. \A i \in 1..Len(h.queue[c]) : InNet(c, h.queue[c][i])
      BY DEF HubOK
    <3> QED
      BY <2>2, <3>1, AppendLast
  <2>5. /\ g.peers = h.peers /\ g.shut = h.shut /\ g.panic = h.panic
        /\ g.queue = [h.queue EXCEPT ![c] = Append(h.queue[c], m)]
        /\ g \in HubRecord
    BY <2>2, <2>3, <2>4 DEF HubOK, HubRecord
  <2>6. \A d \in Conns : Len(g.queue[d]) <= QCap
    <3> TAKE d \in Conns
    <3>1. CASE d = c
      <4>1. Len(h.queue[c]) \in Nat
        BY <2>2
      <4>2. g.queue[d] = Append(h.queue[c], m)
        BY <2>2, <2>5, <3>1
      <4> QED
        BY <1>3, <2>4, <4>1, <4>2, QCapAssumption
    <3>2. CASE d # c
      BY <2>2, <2>5, <3>2 DEF HubOK
    <3> QED
      BY <3>1, <3>2
  <2>7. \A d \in Conns : \A i \in 1..Len(g.queue[d]) : InNet(d, g.queue[d][i])
    <3> TAKE d \in Conns
    <3>1. CASE d = c
      <4>1. g.queue[d] = Append(h.queue[c], m)
        BY <2>2, <2>5, <3>1
      <4> QED
        BY <2>4, <3>1, <4>1
    <3>2. CASE d # c
      BY <2>2, <2>5, <3>2 DEF HubOK
    <3> QED
      BY <3>1, <3>2
  <2>8. \A k \in Keys : g.peers[k] # None => KeyOf(g.peers[k]) = k /\ ~g.shut[g.peers[k]]
    BY <2>5 DEF HubOK
  <2> QED
    BY <2>5, <2>6, <2>7, <2>8 DEF HubOK, Evicts
<1>4. CASE ~h.panic /\ ~h.shut[c] /\ ~(Len(h.queue[c]) < QCap)
  <2>1. g = [h EXCEPT !.shut[c] = TRUE, !.peers[KeyOf(c)] = None]
    BY <1>4 DEF TrySend
  <2>2. g = [h EXCEPT !.shut = [h.shut EXCEPT ![c] = TRUE],
                      !.peers = [h.peers EXCEPT ![KeyOf(c)] = None]]
    BY <2>1
  <2>3. /\ g.shut = [h.shut EXCEPT ![c] = TRUE] /\ g.queue = h.queue
        /\ g.peers = [h.peers EXCEPT ![KeyOf(c)] = None]
        /\ g \in HubRecord
    <3>1. h \in HubRecord
      BY DEF HubOK
    <3>2. /\ [h.shut EXCEPT ![c] = TRUE] \in [Conns -> BOOLEAN]
          /\ [h.peers EXCEPT ![KeyOf(c)] = None] \in [Keys -> Conns \cup {None}]
      BY <3>1 DEF HubRecord
    <3> QED
      BY <2>2, <3>1, <3>2 DEF HubRecord
  <2>4. h.peers \in [Keys -> Conns \cup {None}] /\ h.shut \in [Conns -> BOOLEAN]
    BY DEF HubOK, HubRecord
  <2>5. \A k \in Keys : g.peers[k] # None => KeyOf(g.peers[k]) = k /\ ~g.shut[g.peers[k]]
    <3> SUFFICES ASSUME NEW k \in Keys, g.peers[k] # None
                 PROVE  KeyOf(g.peers[k]) = k /\ ~g.shut[g.peers[k]]
      OBVIOUS
    <3>1. k # KeyOf(c) /\ g.peers[k] = h.peers[k]
      BY <2>3, <2>4
    <3>2. KeyOf(h.peers[k]) = k /\ ~h.shut[h.peers[k]] /\ h.peers[k] \in Conns
      BY <2>4, <3>1 DEF HubOK
    <3> QED
      BY <2>3, <2>4, <3>1, <3>2
  <2>6. Evicts(h, g, {c})
    BY <1>4, <2>3, <2>4 DEF Evicts
  <2> QED
    BY <2>3, <2>5, <2>6 DEF HubOK
<1> QED
  BY <1>1, <1>2, <1>3, <1>4

(* Two sends in a row evict what either of them evicts. *)
LEMMA EvictsTransitive ==
  ASSUME NEW f, NEW g, NEW h, HubOK(f), HubOK(g), HubOK(h),
         NEW S \in SUBSET Conns, NEW T \in SUBSET Conns,
         Evicts(f, g, S), Evicts(g, h, T)
  PROVE  Evicts(f, h, S \cup T)
<1>1. /\ f.shut \in [Conns -> BOOLEAN] /\ g.shut \in [Conns -> BOOLEAN]
      /\ h.shut \in [Conns -> BOOLEAN]
  BY DEF HubOK, HubRecord
<1>2. \A d \in Conns : (f.shut[d] => g.shut[d]) /\ (g.shut[d] => h.shut[d])
  BY DEF Evicts
<1>3. ASSUME NEW k \in Keys
      PROVE  \/ h.peers[k] = f.peers[k]
             \/ /\ h.peers[k] = None
                /\ \E d \in S \cup T : KeyOf(d) = k /\ h.shut[d] /\ ~f.shut[d]
  <2>1. CASE h.peers[k] = g.peers[k] /\ g.peers[k] # f.peers[k]
    <3>1. PICK d \in S : KeyOf(d) = k /\ g.shut[d] /\ ~f.shut[d]
      BY <2>1 DEF Evicts
    <3>2. g.peers[k] = None
      BY <2>1 DEF Evicts
    <3> QED
      BY <1>2, <2>1, <3>1, <3>2
  <2>2. CASE h.peers[k] # g.peers[k]
    <3>1. PICK d \in T : KeyOf(d) = k /\ h.shut[d] /\ ~g.shut[d]
      BY <2>2 DEF Evicts
    <3>2. h.peers[k] = None
      BY <2>2 DEF Evicts
    <3> QED
      BY <1>2, <3>1, <3>2
  <2> QED
    BY <2>1, <2>2
<1>4. \A d \in Conns \ (S \cup T) : h.shut[d] = f.shut[d]
  BY DEF Evicts
<1> QED
  BY <1>2, <1>3, <1>4 DEF Evicts

(* The four sends of introduce, between members of one network. *)
LEMMA IntroducedOK ==
  ASSUME HubOK(Hub), NEW c \in Conns, NEW t \in Conns, NetOf(t) = NetOf(c),
         NEW g, g = Introduced(c, t)
  PROVE  HubOK(g) /\ Evicts(Hub, g, {c, t})
<1> DEFINE h1 == TrySend(Hub, c, Msg("relay", t))
           h2 == TrySend(h1,  t, Msg("relay", c))
           h3 == TrySend(h2,  c, Msg("punch", t))
           h4 == TrySend(h3,  t, Msg("punch", c))
<1>1. g = h4
  BY DEF Introduced
<1>2. /\ Msg("relay", t) \in Messages /\ Msg("punch", t) \in Messages
      /\ Msg("relay", c) \in Messages /\ Msg("punch", c) \in Messages
  BY DEF Msg, Messages
<1>3. /\ InNet(c, Msg("relay", t)) /\ InNet(c, Msg("punch", t))
      /\ InNet(t, Msg("relay", c)) /\ InNet(t, Msg("punch", c))
  BY DEF Msg, InNet
<1>4. HubOK(h1) /\ Evicts(Hub, h1, {c})
  BY <1>2, <1>3, TrySendOK
<1>5. HubOK(h2) /\ Evicts(h1, h2, {t})
  BY <1>2, <1>3, <1>4, TrySendOK
<1>6. HubOK(h3) /\ Evicts(h2, h3, {c})
  BY <1>2, <1>3, <1>5, TrySendOK
<1>7. HubOK(h4) /\ Evicts(h3, h4, {t})
  BY <1>2, <1>3, <1>6, TrySendOK
<1> HIDE DEF h1, h2, h3, h4
<1>8. Evicts(Hub, h2, {c} \cup {t})
  BY <1>4, <1>5, EvictsTransitive
<1>9. Evicts(h2, h4, {c} \cup {t})
  BY <1>5, <1>6, <1>7, EvictsTransitive
<1>10. Evicts(Hub, h4, ({c} \cup {t}) \cup ({c} \cup {t}))
  BY <1>5, <1>7, <1>8, <1>9, EvictsTransitive
<1>11. ({c} \cup {t}) \cup ({c} \cup {t}) = {c, t}
  OBVIOUS
<1> QED
  BY <1>1, <1>7, <1>10, <1>11

-----------------------------------------------------------------------------
(* A connection that has not said hello has an open channel, and one that    *)
(* has not, or that has left, is not in the registry.                        *)
Away ==
  \A c \in Conns :
    /\ pc[c] = "hello" => ~shut[c]
    /\ pc[c] \in {"hello", "left", "done"} => ~Registered(c)

Inv == TypeOK /\ RegisteredOpen /\ NetworkIsolation /\ Away

(* The peers that lose their registration in a step, and why. *)
Ends ==
  \A k \in Keys : peers[k] # None /\ peers'[k] # peers[k] =>
    \/ pc'[peers[k]] = "left"
    \/ peers'[k] # None
    \/ \E d \in Conns : KeyOf(d) = k /\ pc'[d] # "left" /\ shut'[d] /\ ~shut[d]

(* What trySend needs of the hub is part of the invariant. *)
LEMMA HubOfInv == Inv => HubOK(Hub)
BY DEF Inv, TypeOK, RegisteredOpen, NetworkIsolation, HubOK, HubRecord, Hub, InNet

(* The hub starts empty, which satisfies the invariant. *)
LEMMA InitInv == Init => Inv
<1> SUFFICES ASSUME Init PROVE Inv
  OBVIOUS
<1>1. TypeOK
  <2>1. frames \in [Conns -> 0..MaxFrames]
    BY FramesAssumption DEF Init
  <2>2. queue \in [Conns -> Seq(Messages)] /\ \A c \in Conns : Len(queue[c]) <= QCap
    BY QCapAssumption DEF Init
  <2>3. info \in [Conns -> [cand : Candidates \cup {"none"}, direct : BOOLEAN]]
    BY DEF Init
  <2> QED
    BY <2>1, <2>2, <2>3 DEF Init, TypeOK
<1>2. RegisteredOpen /\ NetworkIsolation
  BY DEF Init, RegisteredOpen, NetworkIsolation
<1>3. Away
  BY KeyType, NoneAssumption DEF Init, Away, Registered
<1> QED
  BY <1>1, <1>2, <1>3 DEF Inv

(* The actions that touch neither the registry nor a channel. *)
LEMMA Quiet ==
  ASSUME Inv, NEW c \in Conns, UNCHANGED <<queue, shut, pushed, peers, wedged>>,
         \/ Reject(c) \/ HandleEndpoints(c) \/ HandleResult(c)
         \/ Drained(c) \/ PingFails(c) \/ Vanish(c)
  PROVE  Inv' /\ Ends
<1>1. TypeOK'
  <2>1. CASE Reject(c)
    BY <2>1 DEF Inv, TypeOK, Reject, Goto
  <2>2. CASE HandleEndpoints(c)
    BY <2>2, FramesAssumption DEF Inv, TypeOK, HandleEndpoints, Reads, Reported, Goto
  <2>3. CASE HandleResult(c)
    <3>1. PICK f \in [type : {"result"}, direct : BOOLEAN] :
            Reads(c, f) /\ info' = [info EXCEPT ![c].direct = f.direct]
      BY <2>3 DEF HandleResult
    <3>2. info' = [info EXCEPT ![c] = [info[c] EXCEPT !.direct = f.direct]]
      BY <3>1
    <3>3. [info[c] EXCEPT !.direct = f.direct]
            \in [cand : Candidates \cup {"none"}, direct : BOOLEAN]
      <4>1. info[c] \in [cand : Candidates \cup {"none"}, direct : BOOLEAN]
        BY DEF Inv, TypeOK
      <4>2. f.direct \in BOOLEAN
        OBVIOUS
      <4> QED
        BY <4>1, <4>2
    <3>4. info' \in [Conns -> [cand : Candidates \cup {"none"}, direct : BOOLEAN]]
      BY <3>2, <3>3 DEF Inv, TypeOK
    <3>5. frames' \in [Conns -> 0..MaxFrames]
      BY <3>1, FramesAssumption DEF Inv, TypeOK, Reads
    <3> QED
      BY <2>3, <3>4, <3>5 DEF Inv, TypeOK, HandleResult
  <2>4. CASE Drained(c) \/ PingFails(c)
    BY <2>4 DEF Inv, TypeOK, Drained, PingFails, WriterEnds
  <2>5. CASE Vanish(c)
    BY <2>5 DEF Inv, TypeOK, Vanish
  <2> QED
    BY <2>1, <2>2, <2>3, <2>4, <2>5
<1>2. \A d \in Conns : pc'[d] = pc[d] \/ (d = c /\ pc[d] = "hello" /\ pc'[d] = "done")
                                     \/ (d = c /\ pc[d] = "read" /\ pc'[d] = "bcast")
  BY DEF Inv, TypeOK, Reject, HandleEndpoints, HandleResult, Drained, PingFails,
         WriterEnds, Vanish, Goto, Reads
<1>3. Away'
  BY <1>2 DEF Inv, Away, Registered
<1>4. RegisteredOpen' /\ NetworkIsolation' /\ Ends
  BY DEF Inv, RegisteredOpen, NetworkIsolation, Ends
<1> QED
  BY <1>1, <1>3, <1>4 DEF Inv

(* handleWS registers: the key passes to a connection that was unregistered. *)
LEMMA RegisterStep ==
  ASSUME Inv, NEW c \in Conns, Register(c)
  PROVE  Inv' /\ Ends
<1>1. TypeOK'
  BY KeyType DEF Inv, TypeOK, Register, Goto
<1>2. peers' = [peers EXCEPT ![KeyOf(c)] = c] /\ KeyOf(c) \in Keys
  BY KeyType DEF Register
<1>3. /\ peers \in [Keys -> Conns \cup {None}]
      /\ pc[c] = "hello"
      /\ \A d \in Conns : pc'[d] = IF d = c THEN "greet" ELSE pc[d]
  BY DEF Inv, TypeOK, Register, Goto
<1>4. ~shut[c] /\ shut' = shut
  BY <1>3 DEF Inv, Away, Register
<1>5. RegisteredOpen'
  BY <1>2, <1>3, <1>4 DEF Inv, RegisteredOpen
<1>6. NetworkIsolation'
  BY DEF Inv, NetworkIsolation, Register
<1>7. Away'
  <2> SUFFICES ASSUME NEW d \in Conns
               PROVE  /\ pc'[d] = "hello" => ~shut'[d]
                      /\ pc'[d] \in {"hello", "left", "done"} => peers'[KeyOf(d)] # d
    BY DEF Away, Registered
  <2>1. CASE d = c
    BY <1>3, <2>1
  <2>2. CASE d # c
    <3>1. pc'[d] = pc[d]
      BY <1>3, <2>2
    <3>2. peers'[KeyOf(d)] = d => peers[KeyOf(d)] = d
      BY <1>2, <1>3, <2>2, KeyType
    <3> QED
      BY <1>4, <3>1, <3>2 DEF Inv, Away, Registered
  <2> QED
    BY <2>1, <2>2
<1>8. Ends
  BY <1>2, <1>3, NoneAssumption DEF Ends
<1> QED
  BY <1>1, <1>5, <1>6, <1>7, <1>8 DEF Inv

(* handleWS: the welcome, or the panic on a channel that is already closed. *)
LEMMA GreetStep ==
  ASSUME Inv, NEW c \in Conns, Greet(c)
  PROVE  Inv' /\ Ends
<1>1. CASE queue' = queue
  <2>1. /\ pc[c] = "greet" /\ shut' = shut /\ peers' = peers /\ pushed' = pushed
        /\ \A d \in Conns : pc'[d] = pc[d] \/ (d = c /\ pc'[d] \in {"crashed", "bcast"})
    BY DEF Inv, TypeOK, Greet, Goto
  <2>2. TypeOK'
    BY <1>1 DEF Inv, TypeOK, Greet, Goto
  <2>3. RegisteredOpen' /\ NetworkIsolation' /\ Away' /\ Ends
    BY <1>1, <2>1 DEF Inv, RegisteredOpen, NetworkIsolation, Away, Registered, Ends
  <2> QED
    BY <2>2, <2>3 DEF Inv
<1>2. CASE queue' # queue
  <2> DEFINE m == Msg("welcome", None)
  <2>1. /\ ~shut[c] /\ Len(queue[c]) < QCap
        /\ queue' = [queue EXCEPT ![c] = Append(@, m)]
        /\ writer' = [writer EXCEPT ![c] = "running"] /\ pc[c] = "greet"
        /\ pc' = [pc EXCEPT ![c] = "bcast"]
        /\ UNCHANGED <<frames, info, open, up, shut, pushed, peers, wedged>>
    BY <1>2 DEF Greet, Goto
  <2>2. queue \in [Conns -> Seq(Messages)] /\ queue[c] \in Seq(Messages)
        /\ \A d \in Conns : Len(queue[d]) <= QCap
    BY DEF Inv, TypeOK
  <2>3. m \in Messages /\ m.about = None
    BY DEF Messages, Msg
  <2> HIDE DEF m
  <2>4. /\ Append(queue[c], m) \in Seq(Messages)
        /\ Len(Append(queue[c], m)) = Len(queue[c]) + 1
        /\ \A i \in 1..Len(Append(queue[c], m)) :
             Append(queue[c], m)[i] = m
             \/ (i \in 1..Len(queue[c]) /\ Append(queue[c], m)[i] = queue[c][i])
    BY <2>2, <2>3, AppendLast
  <2>5. \A d \in Conns : queue'[d] = IF d = c THEN Append(queue[c], m) ELSE queue[d]
    BY <2>1, <2>2
  <2>6. queue' \in [Conns -> Seq(Messages)]
    BY <2>1, <2>2, <2>4
  <2>7. Len(queue[c]) + 1 <= QCap
    <3>1. Len(queue[c]) \in Nat
      BY <2>2
    <3> QED
      BY <2>1, <3>1, QCapAssumption
  <2>8. \A d \in Conns : Len(queue'[d]) <= QCap
    BY <2>2, <2>4, <2>5, <2>7
  <2>9. TypeOK'
    BY <2>1, <2>6, <2>8 DEF Inv, TypeOK
  <2>10. NetworkIsolation'
    <3>1. ASSUME NEW d \in Conns, NEW i \in 1..Len(queue'[d])
          PROVE  queue'[d][i].about # None => NetOf(queue'[d][i].about) = NetOf(d)
      <4>1. CASE d = c
        <5>1. queue'[d] = Append(queue[c], m)
          BY <2>5, <4>1
        <5>2. queue'[d][i] = m \/ (i \in 1..Len(queue[c]) /\ queue'[d][i] = queue[c][i])
          BY <2>4, <5>1
        <5> QED
          BY <2>3, <4>1, <5>2 DEF Inv, NetworkIsolation
      <4>2. CASE d # c
        <5>1. queue'[d] = queue[d]
          BY <2>5, <4>2
        <5> QED
          BY <5>1 DEF Inv, NetworkIsolation
      <4> QED
        BY <4>1, <4>2
    <3> QED
      BY <2>1, <3>1 DEF Inv, NetworkIsolation
  <2>11. \A d \in Conns : pc'[d] = pc[d] \/ (d = c /\ pc'[d] = "bcast")
    BY <2>1 DEF Inv, TypeOK
  <2>12. RegisteredOpen' /\ Away' /\ Ends
    BY <2>1, <2>11 DEF Inv, RegisteredOpen, Away, Registered, Ends
  <2> QED
    BY <2>9, <2>10, <2>12 DEF Inv
<1> QED
  BY <1>1, <1>2

(* writeLoop: the channels only get shorter. *)
LEMMA WriteStep ==
  ASSUME Inv, NEW c \in Conns, Write(c)
  PROVE  Inv' /\ Ends
<1>1. /\ queue[c] # <<>> /\ queue' = [queue EXCEPT ![c] = Tail(@)]
      /\ UNCHANGED <<pc, frames, info, up, shut, pushed, peers, wedged>>
      /\ \/ UNCHANGED <<open, writer>>
         \/ open' = [open EXCEPT ![c] = FALSE] /\ writer' = [writer EXCEPT ![c] = "ended"]
  BY DEF Write
<1>2. queue \in [Conns -> Seq(Messages)] /\ queue[c] \in Seq(Messages)
      /\ \A d \in Conns : Len(queue[d]) <= QCap
  BY DEF Inv, TypeOK
<1>3. /\ Tail(queue[c]) \in Seq(Messages) /\ Len(Tail(queue[c])) = Len(queue[c]) - 1
      /\ \A i \in 1..Len(Tail(queue[c])) :
           i + 1 \in 1..Len(queue[c]) /\ Tail(queue[c])[i] = queue[c][i + 1]
  BY <1>1, <1>2, TailType
<1>4. \A d \in Conns : queue'[d] = IF d = c THEN Tail(queue[c]) ELSE queue[d]
  BY <1>1, <1>2
<1>5. queue' \in [Conns -> Seq(Messages)]
  BY <1>1, <1>2, <1>3
<1>6. \A d \in Conns : Len(queue'[d]) <= QCap
  <2>1. Len(queue[c]) \in Nat
    BY <1>2
  <2>2. Len(queue[c]) - 1 <= QCap
    BY <1>2, <2>1, QCapAssumption
  <2> QED
    BY <1>2, <1>3, <1>4, <2>2
<1>7. TypeOK'
  <2>1. open' \in [Conns -> BOOLEAN] /\ writer' \in [Conns -> {"none", "running", "ended"}]
    BY <1>1 DEF Inv, TypeOK
  <2> QED
    BY <1>1, <1>5, <1>6, <2>1 DEF Inv, TypeOK
<1>8. NetworkIsolation'
  <2>1. ASSUME NEW d \in Conns, NEW i \in 1..Len(queue'[d])
        PROVE  queue'[d][i].about # None => NetOf(queue'[d][i].about) = NetOf(d)
    <3>1. CASE d = c
      <4>1. queue'[d] = Tail(queue[c])
        BY <1>4, <3>1
      <4>2. i + 1 \in 1..Len(queue[c]) /\ queue'[d][i] = queue[c][i + 1]
        BY <1>3, <4>1
      <4> QED
        BY <3>1, <4>2 DEF Inv, NetworkIsolation
    <3>2. CASE d # c
      <4>1. queue'[d] = queue[d]
        BY <1>4, <3>2
      <4> QED
        BY <4>1 DEF Inv, NetworkIsolation
    <3> QED
      BY <3>1, <3>2
  <2> QED
    BY <1>1, <2>1 DEF Inv, NetworkIsolation
<1>9. RegisteredOpen' /\ Away' /\ Ends
  BY <1>1 DEF Inv, RegisteredOpen, Away, Registered, Ends
<1> QED
  BY <1>7, <1>8, <1>9 DEF Inv

(* drop: a registration goes together with its channel, or nothing does. *)
LEMMA DropStep ==
  ASSUME Inv, NEW c \in Conns, Drop(c)
  PROVE  Inv' /\ Ends
<1>1. /\ pc[c] = "read" /\ UNCHANGED <<frames, info, up, writer, queue, pushed, wedged>>
      /\ open' = [open EXCEPT ![c] = FALSE] /\ pc' = [pc EXCEPT ![c] = "left"]
  BY DEF Drop, Leaves, Goto
<1>2. \A d \in Conns : pc'[d] = IF d = c THEN "left" ELSE pc[d]
  BY <1>1 DEF Inv, TypeOK
<1>3. /\ peers \in [Keys -> Conns \cup {None}] /\ shut \in [Conns -> BOOLEAN]
      /\ KeyOf(c) \in Keys
  BY KeyType DEF Inv, TypeOK
<1>4. CASE Registered(c)
  <2>1. peers' = [peers EXCEPT ![KeyOf(c)] = None] /\ shut' = [shut EXCEPT ![c] = TRUE]
    BY <1>4 DEF Drop
  <2>2. TypeOK'
    BY <1>1, <1>3, <2>1 DEF Inv, TypeOK
  <2>3. RegisteredOpen'
    <3> SUFFICES ASSUME NEW k \in Keys, peers'[k] # None
                 PROVE  KeyOf(peers'[k]) = k /\ ~shut'[peers'[k]]
      BY DEF RegisteredOpen
    <3>1. k # KeyOf(c) /\ peers'[k] = peers[k]
      BY <1>3, <2>1
    <3>2. KeyOf(peers[k]) = k /\ ~shut[peers[k]] /\ peers[k] \in Conns
      BY <1>3, <3>1 DEF Inv, RegisteredOpen
    <3> QED
      BY <1>3, <2>1, <3>1, <3>2
  <2>4. NetworkIsolation'
    BY <1>1 DEF Inv, NetworkIsolation
  <2>5. Away'
    <3> SUFFICES ASSUME NEW d \in Conns
                 PROVE  /\ pc'[d] = "hello" => ~shut'[d]
                        /\ pc'[d] \in {"hello", "left", "done"} => peers'[KeyOf(d)] # d
      BY DEF Away, Registered
    <3>1. CASE d = c
      BY <1>2, <1>3, <2>1, <3>1, NoneAssumption
    <3>2. CASE d # c
      <4>1. pc'[d] = pc[d] /\ shut'[d] = shut[d]
        BY <1>2, <1>3, <2>1, <3>2
      <4>2. peers'[KeyOf(d)] = d => peers[KeyOf(d)] = d
        BY <1>3, <2>1, KeyType, NoneAssumption
      <4> QED
        BY <4>1, <4>2 DEF Inv, Away, Registered
    <3> QED
      BY <3>1, <3>2
  <2>6. Ends
    BY <1>2, <1>3, <1>4, <2>1 DEF Ends, Registered
  <2> QED
    BY <2>2, <2>3, <2>4, <2>5, <2>6 DEF Inv
<1>5. CASE ~Registered(c)
  <2>1. peers' = peers /\ shut' = shut
    BY <1>5 DEF Drop
  <2>2. TypeOK'
    BY <1>1, <2>1 DEF Inv, TypeOK
  <2>3. RegisteredOpen' /\ NetworkIsolation' /\ Ends
    BY <1>1, <2>1 DEF Inv, RegisteredOpen, NetworkIsolation, Ends
  <2>4. Away'
    BY <1>2, <1>5, <2>1 DEF Inv, Away, Registered
  <2> QED
    BY <2>2, <2>3, <2>4 DEF Inv
<1> QED
  BY <1>4, <1>5

(* introduce: IntroducedOK, and neither side has left. *)
LEMMA ConnectStep ==
  ASSUME Inv, NEW c \in Conns, NEW k \in Keys, HandleConnect(c, k)
  PROVE  Inv' /\ Ends
<1> DEFINE t == peers[k]
           h == IF Unmatched(c, t) THEN Hub ELSE Introduced(c, t)
<1>1. /\ peers' = h.peers /\ queue' = h.queue /\ shut' = h.shut /\ wedged' = h.panic
      /\ pc' = [pc EXCEPT ![c] = IF h.panic THEN "stuck" ELSE "read"]
      /\ pc[c] = "read" /\ UNCHANGED <<info, open, up, writer, pushed>>
      /\ frames' = [frames EXCEPT ![c] = @ + 1] /\ frames[c] < MaxFrames
  BY DEF HandleConnect, Reads, Goto
<1>2. HubOK(Hub)
  BY HubOfInv
<1>3. /\ pc \in [Conns -> {"hello", "greet", "bcast", "read", "left", "done",
                           "crashed", "stuck"}]
      /\ peers \in [Keys -> Conns \cup {None}] /\ shut \in [Conns -> BOOLEAN]
  BY DEF Inv, TypeOK
<1>4. PICK S \in SUBSET Conns :
        HubOK(h) /\ Evicts(Hub, h, S) /\ \A d \in S : d = c \/ Registered(d)
  <2>1. CASE Unmatched(c, t)
    <3>1. h = Hub
      BY <2>1
    <3>2. Evicts(Hub, h, {})
      BY <3>1 DEF Evicts
    <3> QED
      BY <1>2, <3>1, <3>2
  <2>2. CASE ~Unmatched(c, t)
    <3>1. t \in Conns /\ NetOf(t) = NetOf(c) /\ h = Introduced(c, t)
      BY <1>3, <2>2 DEF Unmatched
    <3>2. Registered(t)
      BY <1>3, <3>1, NoneAssumption DEF Inv, RegisteredOpen, Registered
    <3> HIDE DEF h
    <3>3. HubOK(h) /\ Evicts(Hub, h, {c, t})
      BY <1>2, <3>1, IntroducedOK
    <3>4. {c, t} \in SUBSET Conns /\ \A d \in {c, t} : d = c \/ Registered(d)
      BY <3>1, <3>2
    <3> QED
      BY <3>3, <3>4
  <2> QED
    BY <2>1, <2>2
<1> HIDE DEF h
<1>5. /\ Hub.peers = peers /\ Hub.shut = shut
  BY DEF Hub
<1>6. /\ \A d \in Conns \ S : shut'[d] = shut[d]
      /\ \A j \in Keys :
           \/ peers'[j] = peers[j]
           \/ peers'[j] = None /\ \E d \in S : KeyOf(d) = j /\ shut'[d] /\ ~shut[d]
  BY <1>1, <1>4, <1>5 DEF Evicts
<1>7. /\ \A d \in Conns : pc'[d] = pc[d] \/ (d = c /\ pc'[d] \in {"stuck", "read"})
      /\ \A d \in S : pc[d] \notin {"hello", "left", "done"}
  BY <1>1, <1>3, <1>4 DEF Inv, Away
<1>8. TypeOK'
  <2>1. /\ peers' \in [Keys -> Conns \cup {None}] /\ queue' \in [Conns -> Seq(Messages)]
        /\ shut' \in [Conns -> BOOLEAN] /\ wedged' \in BOOLEAN
        /\ \A d \in Conns : Len(queue'[d]) <= QCap
    BY <1>1, <1>4 DEF HubOK, HubRecord
  <2>2. frames' \in [Conns -> 0..MaxFrames]
    BY <1>1, FramesAssumption DEF Inv, TypeOK
  <2>3. pc' \in [Conns -> {"hello", "greet", "bcast", "read", "left", "done",
                          "crashed", "stuck"}]
    BY <1>1, <1>3
  <2> QED
    BY <1>1, <2>1, <2>2, <2>3 DEF Inv, TypeOK
<1>9. RegisteredOpen'
  BY <1>1, <1>4 DEF HubOK, RegisteredOpen
<1>10. NetworkIsolation'
  BY <1>1, <1>4 DEF HubOK, InNet, Inv, NetworkIsolation
<1>11. Away'
  <2> SUFFICES ASSUME NEW d \in Conns, pc'[d] \in {"hello", "left", "done"}
               PROVE  /\ pc'[d] = "hello" => ~shut'[d]
                      /\ peers'[KeyOf(d)] # d
    BY DEF Away, Registered
  <2>1. pc'[d] = pc[d] /\ d \notin S
    BY <1>7
  <2>2. peers'[KeyOf(d)] = d => peers[KeyOf(d)] = d
    BY <1>6, KeyType, NoneAssumption
  <2> QED
    BY <1>6, <2>1, <2>2 DEF Inv, Away, Registered
<1>12. Ends
  <2>1. \A d \in S : pc'[d] # "left"
    BY <1>7
  <2> QED
    BY <1>6, <2>1 DEF Ends
<1> QED
  BY <1>8, <1>9, <1>10, <1>11, <1>12 DEF Inv

(* A channel of a broadcast is left alone or gets one message about nobody. *)
LEMMA BroadcastQueue ==
  ASSUME TypeOK, NEW net, Broadcast(net)
  PROVE  /\ queue' \in [Conns -> Seq(Messages)]
         /\ \A d \in Conns : Len(queue'[d]) <= QCap
         /\ \A d \in Conns : \A i \in 1..Len(queue'[d]) :
              \/ queue'[d][i].about = None
              \/ i \in 1..Len(queue[d]) /\ queue'[d][i] = queue[d][i]
<1> DEFINE m == Msg("peers", None)
           got == Members(net) \ {c \in Members(net) : Len(queue[c]) >= QCap}
<1>1. queue' = [c \in Conns |-> IF c \in got THEN Append(queue[c], m) ELSE queue[c]]
  BY DEF Broadcast
<1>2. m \in Messages /\ m.about = None
  BY DEF Messages, Msg
<1>3. /\ queue \in [Conns -> Seq(Messages)]
      /\ \A d \in Conns : Len(queue[d]) <= QCap
  BY DEF TypeOK
<1>4. \A d \in Conns : d \in got => ~(Len(queue[d]) >= QCap)
  OBVIOUS
<1> HIDE DEF m, got
<1>5. ASSUME NEW d \in Conns
      PROVE  /\ queue'[d] \in Seq(Messages) /\ Len(queue'[d]) <= QCap
             /\ \A i \in 1..Len(queue'[d]) :
                  \/ queue'[d][i].about = None
                  \/ i \in 1..Len(queue[d]) /\ queue'[d][i] = queue[d][i]
  <2>1. queue[d] \in Seq(Messages) /\ Len(queue[d]) \in Nat /\ Len(queue[d]) <= QCap
    BY <1>3
  <2>2. CASE d \in got
    <3>1. queue'[d] = Append(queue[d], m)
      BY <1>1, <2>2
    <3>2. /\ queue'[d] \in Seq(Messages) /\ Len(queue'[d]) = Len(queue[d]) + 1
          /\ \A i \in 1..Len(queue'[d]) :
               queue'[d][i] = m \/ (i \in 1..Len(queue[d]) /\ queue'[d][i] = queue[d][i])
      BY <1>2, <2>1, <3>1, AppendLast
    <3>3. Len(queue[d]) + 1 <= QCap
      BY <1>4, <2>1, <2>2, QCapAssumption
    <3> QED
      BY <1>2, <3>2, <3>3
  <2>3. CASE d \notin got
    <3>1. queue'[d] = queue[d]
      BY <1>1, <2>3
    <3> QED
      BY <2>1, <3>1
  <2> QED
    BY <2>2, <2>3
<1>6. queue' \in [Conns -> Seq(Messages)]
  <2>1. queue' = [d \in Conns |-> queue'[d]]
    BY <1>1
  <2> QED
    BY <1>5, <2>1
<1> QED
  BY <1>5, <1>6

(* The list that is pushed: the others of the network, none with the same key. *)
LEMMA RosterOK ==
  ASSUME TypeOK, NEW c \in Conns, Registered(c)
  PROVE  /\ Roster(c) \in SUBSET Entries
         /\ \A e \in Roster(c) : NetOf(e.conn) = NetOf(c) /\ KeyOf(e.conn) # KeyOf(c)
<1> SUFFICES ASSUME NEW e \in Roster(c)
             PROVE  /\ e \in Entries
                    /\ NetOf(e.conn) = NetOf(c) /\ KeyOf(e.conn) # KeyOf(c)
  OBVIOUS
<1>1. PICK d \in Members(NetOf(c)) \ {c} : e = Entry(d)
  BY DEF Roster
<1>2. d \in Conns /\ Registered(d) /\ NetOf(d) = NetOf(c) /\ d # c
  BY <1>1 DEF Members
<1>3. e \in Entries /\ e.conn = d
  <2>1. info[d] \in [cand : Candidates \cup {"none"}, direct : BOOLEAN]
    BY <1>2 DEF TypeOK
  <2> QED
    BY <1>1, <1>2, <2>1 DEF Entry, Entries
<1> QED
  BY <1>2, <1>3 DEF Registered

(* broadcastPeers: who is full is evicted, the others get their roster. *)
LEMMA AnnounceStep ==
  ASSUME Inv, NEW c \in Conns, Announce(c)
  PROVE  Inv' /\ Ends
<1> DEFINE net == NetOf(c)
           full == {d \in Members(net) : Len(queue[d]) >= QCap}
           got == Members(net) \ full
<1>1. /\ pushed' = [d \in Conns |-> IF d \in got THEN Roster(d) ELSE pushed[d]]
      /\ shut' = [d \in Conns |-> shut[d] \/ d \in full]
      /\ peers' = [k \in Keys |-> IF peers[k] \in full THEN None ELSE peers[k]]
      /\ pc[c] \in {"bcast", "left"}
      /\ pc' = [pc EXCEPT ![c] = IF pc[c] = "bcast" THEN "read" ELSE "done"]
      /\ UNCHANGED <<frames, info, open, up, writer, wedged>>
      /\ Broadcast(net)
  BY DEF Announce, Broadcast, Goto, ConnUnchanged
<1>2. TypeOK /\ RegisteredOpen /\ NetworkIsolation /\ Away
  BY DEF Inv
<1>3. /\ full \in SUBSET Conns /\ \A d \in full : Registered(d)
      /\ got \in SUBSET Conns /\ \A d \in got : Registered(d)
  BY DEF Members
<1>4. /\ queue' \in [Conns -> Seq(Messages)]
      /\ \A d \in Conns : Len(queue'[d]) <= QCap
      /\ \A d \in Conns : \A i \in 1..Len(queue'[d]) :
           \/ queue'[d][i].about = None
           \/ i \in 1..Len(queue[d]) /\ queue'[d][i] = queue[d][i]
  BY <1>1, <1>2, BroadcastQueue
<1> HIDE DEF net, full, got
<1>5. /\ \A d \in Conns : pc'[d] = pc[d] \/ (d = c /\ pc[d] = "bcast" /\ pc'[d] = "read")
                                          \/ (d = c /\ pc[d] = "left" /\ pc'[d] = "done")
      /\ pc' \in [Conns -> {"hello", "greet", "bcast", "read", "left", "done",
                            "crashed", "stuck"}]
  BY <1>1, <1>2 DEF TypeOK
<1>6. \A d \in full : pc[d] \notin {"hello", "left", "done"}
  BY <1>2, <1>3 DEF Away
<1>7. /\ peers \in [Keys -> Conns \cup {None}] /\ shut \in [Conns -> BOOLEAN]
      /\ None \notin full
  BY <1>2, <1>3, NoneAssumption DEF TypeOK
<1>8. TypeOK'
  <2>1. \A d \in Conns : d \in got => Roster(d) \in SUBSET Entries
    BY <1>2, <1>3, RosterOK
  <2>2. pushed' \in [Conns -> SUBSET Entries]
    BY <1>1, <1>2, <2>1 DEF TypeOK
  <2>3. shut' \in [Conns -> BOOLEAN] /\ peers' \in [Keys -> Conns \cup {None}]
    BY <1>1, <1>7
  <2> QED
    BY <1>1, <1>2, <1>4, <1>5, <2>2, <2>3 DEF TypeOK
<1>9. RegisteredOpen'
  BY <1>1, <1>2, <1>7 DEF RegisteredOpen
<1>10. NetworkIsolation'
  <2> SUFFICES ASSUME NEW d \in Conns
               PROVE  /\ \A i \in 1..Len(queue'[d]) :
                           queue'[d][i].about # None => NetOf(queue'[d][i].about) = NetOf(d)
                      /\ \A e \in pushed'[d] :
                           NetOf(e.conn) = NetOf(d) /\ KeyOf(e.conn) # KeyOf(d)
    BY DEF NetworkIsolation
  <2>1. \A i \in 1..Len(queue'[d]) :
          queue'[d][i].about # None => NetOf(queue'[d][i].about) = NetOf(d)
    BY <1>2, <1>4 DEF NetworkIsolation
  <2>2. CASE d \in got
    <3>1. pushed'[d] = Roster(d)
      BY <1>1, <2>2
    <3> QED
      BY <1>2, <1>3, <2>1, <2>2, <3>1, RosterOK
  <2>3. CASE d \notin got
    <3>1. pushed'[d] = pushed[d]
      BY <1>1, <2>3
    <3> QED
      BY <1>2, <2>1, <3>1 DEF NetworkIsolation
  <2> QED
    BY <2>2, <2>3
<1>11. Away'
  <2> SUFFICES ASSUME NEW d \in Conns, pc'[d] \in {"hello", "left", "done"}
               PROVE  /\ pc'[d] = "hello" => ~shut'[d]
                      /\ peers'[KeyOf(d)] # d
    BY DEF Away, Registered
  <2>1. pc[d] \in {"hello", "left", "done"} /\ d \notin full
    BY <1>5, <1>6
  <2>2. pc'[d] = "hello" => pc[d] = "hello"
    BY <1>5
  <2>3. peers'[KeyOf(d)] = d => peers[KeyOf(d)] = d
    BY <1>1, KeyType, NoneAssumption
  <2> QED
    BY <1>1, <1>2, <2>1, <2>2, <2>3 DEF Away, Registered
<1>12. Ends
  <2> SUFFICES ASSUME NEW k \in Keys, peers[k] # None, peers'[k] # peers[k]
               PROVE  \E d \in Conns : KeyOf(d) = k /\ pc'[d] # "left" /\ shut'[d] /\ ~shut[d]
    BY DEF Ends
  <2>1. peers[k] \in full
    BY <1>1
  <2>2. KeyOf(peers[k]) = k /\ ~shut[peers[k]]
    BY <1>2 DEF RegisteredOpen
  <2>3. shut'[peers[k]] /\ pc'[peers[k]] # "left"
    BY <1>1, <1>3, <1>5, <1>6, <2>1
  <2> QED
    BY <1>3, <2>1, <2>2, <2>3
<1> QED
  BY <1>8, <1>9, <1>10, <1>11, <1>12 DEF Inv

-----------------------------------------------------------------------------
(* Every step keeps the invariant and ends registrations only as allowed. *)
LEMMA Step == Inv /\ Next => Inv' /\ Ends
<1> SUFFICES ASSUME Inv, NEW c \in Conns,
                    \/ Reject(c) \/ Register(c) \/ Greet(c) \/ Announce(c)
                    \/ HandleEndpoints(c) \/ HandleResult(c)
                    \/ \E k \in Keys : HandleConnect(c, k)
                    \/ Drop(c) \/ Vanish(c)
                    \/ Write(c) \/ Drained(c) \/ PingFails(c)
             PROVE  Inv' /\ Ends
  BY DEF Next
<1>1. CASE \/ Reject(c) \/ HandleEndpoints(c) \/ HandleResult(c)
           \/ Drained(c) \/ PingFails(c) \/ Vanish(c)
  <2>1. UNCHANGED <<queue, shut, pushed, peers, wedged>>
    BY <1>1 DEF Reject, HandleEndpoints, HandleResult, Drained, PingFails, WriterEnds,
                Vanish, HubUnchanged
  <2> QED
    BY <1>1, <2>1, Quiet
<1>2. CASE Register(c)
  BY <1>2, RegisterStep
<1>3. CASE Greet(c)
  BY <1>3, GreetStep
<1>4. CASE Announce(c)
  BY <1>4, AnnounceStep
<1>5. CASE \E k \in Keys : HandleConnect(c, k)
  BY <1>5, ConnectStep
<1>6. CASE Drop(c)
  BY <1>6, DropStep
<1>7. CASE Write(c)
  BY <1>7, WriteStep
<1> QED
  BY <1>1, <1>2, <1>3, <1>4, <1>5, <1>6, <1>7

(* Neither is disturbed by a stuttering step. *)
LEMMA Stutter == Inv /\ UNCHANGED vars => Inv' /\ Ends
BY DEF Inv, TypeOK, RegisteredOpen, NetworkIsolation, Away, Registered, Ends, vars

(* The inductive invariant: the types, the two safety properties, and who is *)
(* not in the registry, which is what makes the other parts inductive.       *)
THEOREM Invariant == Spec => []Inv
<1>1. Init => Inv
  BY InitInv
<1>2. Inv /\ [Next]_vars => Inv'
  BY Step, Stutter
<1> QED
  BY <1>1, <1>2, PTL DEF Spec

(* Every variable keeps its type, and no channel exceeds its capacity        *)
(* (newPeer makes p.send with room for 64, trySend never waits).             *)
THEOREM TypeCorrect == Spec => []TypeOK
<1>1. Inv => TypeOK
  BY DEF Inv
<1> QED
  BY <1>1, Invariant, PTL

(* Whoever is in h.peers has an open channel: no send of broadcastPeers      *)
(* panics, whatever introduce, drop and the evictions of trySend did before. *)
THEOREM RegisteredOpenHolds == Spec => []RegisteredOpen
<1>1. Inv => RegisteredOpen
  BY DEF Inv
<1> QED
  BY <1>1, Invariant, PTL

(* No message and no pushed list of broadcastPeers or introduce ever tells a *)
(* peer about a connection of another network.                               *)
THEOREM NetworkIsolationHolds == Spec => []NetworkIsolation
<1>1. Inv => NetworkIsolation
  BY DEF Inv
<1> QED
  BY <1>1, Invariant, PTL

(* drop of an older connection never ends the registration of a newer one.   *)
THEOREM RegistrationEndsHolds == Spec => RegistrationEnds
<1>1. Inv /\ [Next]_vars => [Ends]_vars
  BY Step
<1> QED
  BY <1>1, Invariant, PTL DEF Spec, RegistrationEnds, Ends
-----------------------------------------------------------------------------
(* What one send does to the channels: g has what h had, and m for x behind  *)
(* it, unless h had panicked or evicted x, or g has.                         *)
Sends(h, g, x, m) ==
  /\ \A d \in Conns : /\ Len(h.queue[d]) <= Len(g.queue[d])
                      /\ \A i \in 1..Len(h.queue[d]) : g.queue[d][i] = h.queue[d][i]
  /\ \/ g.panic \/ g.shut[x]
     \/ Len(g.queue[x]) = Len(h.queue[x]) + 1 /\ g.queue[x][Len(h.queue[x]) + 1] = m
  /\ \A d \in Conns : \A i \in 1..Len(g.queue[d]) :
       i > Len(h.queue[d]) =>
         /\ d = x /\ i = Len(h.queue[x]) + 1 /\ g.queue[d][i] = m
         /\ ~h.panic /\ ~h.shut[x]
  /\ h.panic => g.panic
  /\ \A d \in Conns : h.shut[d] => g.shut[d]

(* The types of a hub, as far as sends go. *)
LEMMA HubTypes ==
  ASSUME NEW h, HubOK(h), NEW d \in Conns
  PROVE  /\ h.queue \in [Conns -> Seq(Messages)] /\ h.queue[d] \in Seq(Messages)
         /\ Len(h.queue[d]) \in Nat
         /\ h.shut \in [Conns -> BOOLEAN] /\ h.panic \in BOOLEAN
BY DEF HubOK, HubRecord

(* trySend sends. *)
LEMMA TrySendSends ==
  ASSUME NEW h, HubOK(h), NEW x \in Conns, NEW m \in Messages, NEW g, g = TrySend(h, x, m)
  PROVE  Sends(h, g, x, m)
<1>1. /\ h.queue \in [Conns -> Seq(Messages)] /\ h.shut \in [Conns -> BOOLEAN]
      /\ \A d \in Conns : Len(h.queue[d]) \in Nat
      /\ h \in HubRecord
  BY HubTypes DEF HubOK
<1>2. CASE h.panic
  BY <1>1, <1>2 DEF TrySend, Sends
<1>3. CASE ~h.panic /\ h.shut[x]
  <2>1. g = [h EXCEPT !.panic = TRUE] BY <1>3 DEF TrySend
  <2>2. g.panic /\ g.queue = h.queue /\ g.shut = h.shut BY <1>1, <2>1 DEF HubRecord
  <2> QED BY <1>1, <2>2 DEF Sends
<1>4. CASE ~h.panic /\ ~h.shut[x] /\ Len(h.queue[x]) < QCap
  <2>1. g = [h EXCEPT !.queue = [h.queue EXCEPT ![x] = Append(h.queue[x], m)]]
    BY <1>4 DEF TrySend
  <2>2. /\ g.queue = [h.queue EXCEPT ![x] = Append(h.queue[x], m)]
        /\ g.shut = h.shut /\ g.panic = h.panic
    BY <1>1, <2>1 DEF HubRecord
  <2>3. g.queue[x] = Append(h.queue[x], m) /\ \A d \in Conns \ {x} : g.queue[d] = h.queue[d]
    BY <1>1, <2>2
  <2>4. /\ Len(g.queue[x]) = Len(h.queue[x]) + 1
        /\ g.queue[x][Len(h.queue[x]) + 1] = m
        /\ \A i \in 1..Len(h.queue[x]) : g.queue[x][i] = h.queue[x][i]
    BY <1>1, <2>3
  <2>5. \A d \in Conns : /\ Len(h.queue[d]) <= Len(g.queue[d])
                         /\ \A i \in 1..Len(h.queue[d]) : g.queue[d][i] = h.queue[d][i]
    <3> SUFFICES ASSUME NEW d \in Conns
                 PROVE  /\ Len(h.queue[d]) <= Len(g.queue[d])
                        /\ \A i \in 1..Len(h.queue[d]) : g.queue[d][i] = h.queue[d][i]
      OBVIOUS
    <3>0. Len(h.queue[d]) \in Nat BY <1>1
    <3>1. CASE d = x BY <2>4, <3>0, <3>1
    <3>2. CASE d # x BY <1>1, <2>3, <3>0, <3>2
    <3> QED BY <3>1, <3>2
  <2>6. ASSUME NEW d \in Conns, NEW i \in 1..Len(g.queue[d]), i > Len(h.queue[d])
        PROVE  d = x /\ i = Len(h.queue[x]) + 1 /\ g.queue[d][i] = m
    <3>1. d = x BY <1>1, <2>3, <2>6
    <3> QED BY <1>1, <2>4, <2>6, <3>1
  <2> QED BY <1>4, <2>2, <2>4, <2>5, <2>6 DEF Sends
<1>5. CASE ~h.panic /\ ~h.shut[x] /\ ~(Len(h.queue[x]) < QCap)
  <2>1. g = [h EXCEPT !.shut = [h.shut EXCEPT ![x] = TRUE],
                      !.peers = [h.peers EXCEPT ![KeyOf(x)] = None]]
    BY <1>5 DEF TrySend
  <2>2. g.queue = h.queue /\ g.shut = [h.shut EXCEPT ![x] = TRUE] /\ g.panic = h.panic
    BY <1>1, <2>1 DEF HubRecord
  <2> QED BY <1>1, <2>2 DEF Sends
<1> QED BY <1>2, <1>3, <1>4, <1>5

(* What h's channels hold beyond the state's; a punch among it comes behind  *)
(* a relay, and for both sides.                                              *)
New(h, x) == {i \in 1..Len(h.queue[x]) : i > Len(queue[x])}

PunchIn(h, x, d, i) ==
  h.queue[x][i] = Msg("punch", d) =>
    /\ \E j \in New(h, x) : j < i /\ h.queue[x][j] = Msg("relay", d)
    /\ (\E j \in New(h, d) : h.queue[d][j] = Msg("punch", x)) \/ h.shut[d] \/ h.panic

(* The lengths of a channel along four sends. *)
LEMMA SendLengths ==
  ASSUME NEW h, NEW g, HubOK(h), HubOK(g), NEW y \in Conns, NEW m, Sends(h, g, y, m),
         NEW x \in Conns
  PROVE  Len(h.queue[x]) \in Nat /\ Len(g.queue[x]) \in Nat /\ Len(h.queue[x]) <= Len(g.queue[x])
BY HubTypes DEF Sends

(* A message is where it was after a send, and what a send adds is last.     *)
LEMMA SendAt ==
  ASSUME NEW h, NEW g, HubOK(h), HubOK(g), NEW y \in Conns, NEW m, Sends(h, g, y, m),
         NEW x \in Conns, NEW i \in New(g, x)
  PROVE  \/ i \in New(h, x) /\ g.queue[x][i] = h.queue[x][i]
         \/ /\ x = y /\ g.queue[x][i] = m /\ ~h.panic /\ ~h.shut[x]
            /\ \A j \in New(h, x) : j < i
<1>1. /\ Len(h.queue[x]) \in Nat /\ Len(g.queue[x]) \in Nat
      /\ i \in 1..Len(g.queue[x]) /\ i > Len(queue[x])
  BY SendLengths DEF New
<1>2. CASE i <= Len(h.queue[x])
  <2>1. i \in 1..Len(h.queue[x]) BY <1>1, <1>2
  <2> QED BY <1>1, <2>1 DEF Sends, New
<1>3. CASE i > Len(h.queue[x])
  <2>1. x = y /\ g.queue[x][i] = m /\ ~h.panic /\ ~h.shut[x] BY <1>1, <1>3 DEF Sends
  <2>2. \A j \in New(h, x) : j < i BY <1>1, <1>3 DEF New
  <2> QED BY <2>1, <2>2
<1> QED BY <1>1, <1>2, <1>3

(* What was new stays, and what is sent to x is there unless h or g panicked *)
(* or x was evicted.                                                         *)
LEMMA SendNew ==
  ASSUME NEW h, NEW g, HubOK(h), HubOK(g), NEW y \in Conns, NEW m, Sends(h, g, y, m),
         \A d \in Conns : Len(queue[d]) \in Nat /\ Len(queue[d]) <= Len(h.queue[d])
  PROVE  /\ \A x \in Conns : \A i \in New(h, x) : i \in New(g, x) /\ g.queue[x][i] = h.queue[x][i]
         /\ g.panic \/ g.shut[y] \/ \E i \in New(g, y) : g.queue[y][i] = m
         /\ \A d \in Conns : Len(queue[d]) <= Len(g.queue[d])
<1>1. \A x \in Conns : /\ Len(h.queue[x]) \in Nat /\ Len(g.queue[x]) \in Nat
                       /\ Len(h.queue[x]) <= Len(g.queue[x])
  BY SendLengths
<1>2. \A x \in Conns : \A i \in New(h, x) : i \in New(g, x) /\ g.queue[x][i] = h.queue[x][i]
  <2> SUFFICES ASSUME NEW x \in Conns, NEW i \in New(h, x)
               PROVE  i \in New(g, x) /\ g.queue[x][i] = h.queue[x][i]
    OBVIOUS
  <2>1. i \in 1..Len(h.queue[x]) /\ i > Len(queue[x]) BY DEF New
  <2>2. i \in 1..Len(g.queue[x]) BY <1>1, <2>1
  <2> QED BY <2>1, <2>2 DEF Sends, New
<1>3. ASSUME ~g.panic, ~g.shut[y] PROVE \E i \in New(g, y) : g.queue[y][i] = m
  <2>1. Len(g.queue[y]) = Len(h.queue[y]) + 1 /\ g.queue[y][Len(h.queue[y]) + 1] = m
    BY <1>3 DEF Sends
  <2>2. Len(g.queue[y]) \in New(g, y) BY <1>1, <2>1 DEF New
  <2> QED BY <2>1, <2>2
<1>4. \A d \in Conns : Len(queue[d]) <= Len(g.queue[d]) BY <1>1
<1> QED BY <1>2, <1>3, <1>4

(* The punches introduce adds to the channels: behind a relay each, and on   *)
(* both sides.                                                               *)
LEMMA IntroducedPunches ==
  ASSUME HubOK(Hub), NEW c \in Conns, NEW t \in Conns, NetOf(t) = NetOf(c),
         NEW g, g = Introduced(c, t)
  PROVE  \A x \in Conns, d \in Conns : \A i \in New(g, x) : PunchIn(g, x, d, i)
<1> SUFFICES ASSUME NEW x \in Conns, NEW d \in Conns, NEW i \in New(g, x),
                    g.queue[x][i] = Msg("punch", d)
             PROVE  /\ \E j \in New(g, x) : j < i /\ g.queue[x][j] = Msg("relay", d)
                    /\ \/ \E j \in New(g, d) : g.queue[d][j] = Msg("punch", x)
                       \/ g.shut[d] \/ g.panic
  BY DEF PunchIn
<1>1. PICK h0, h1, h2, h3, h4 :
        /\ h0 = Hub /\ h4 = g
        /\ h1 = TrySend(h0, c, Msg("relay", t)) /\ h2 = TrySend(h1, t, Msg("relay", c))
        /\ h3 = TrySend(h2, c, Msg("punch", t)) /\ h4 = TrySend(h3, t, Msg("punch", c))
  BY DEF Introduced
<1>2. /\ Msg("relay", t) \in Messages /\ Msg("punch", t) \in Messages
      /\ Msg("relay", c) \in Messages /\ Msg("punch", c) \in Messages
      /\ InNet(c, Msg("relay", t)) /\ InNet(c, Msg("punch", t))
      /\ InNet(t, Msg("relay", c)) /\ InNet(t, Msg("punch", c))
  BY DEF Msg, Messages, InNet
<1>3. HubOK(h0) /\ h0.queue = queue BY <1>1 DEF Hub
<1>4. HubOK(h1) /\ Sends(h0, h1, c, Msg("relay", t))
  BY <1>1, <1>2, <1>3, TrySendOK, TrySendSends
<1>5. HubOK(h2) /\ Sends(h1, h2, t, Msg("relay", c))
  BY <1>1, <1>2, <1>4, TrySendOK, TrySendSends
<1>6. HubOK(h3) /\ Sends(h2, h3, c, Msg("punch", t))
  BY <1>1, <1>2, <1>5, TrySendOK, TrySendSends
<1>7. HubOK(h4) /\ Sends(h3, h4, t, Msg("punch", c))
  BY <1>1, <1>2, <1>6, TrySendOK, TrySendSends
<1>8. \A y \in Conns : Len(queue[y]) \in Nat /\ Len(queue[y]) <= Len(h0.queue[y])
  BY <1>3, HubTypes
<1>9. /\ \A y \in Conns : \A j \in New(h0, y) : j \in New(h1, y) /\ h1.queue[y][j] = h0.queue[y][j]
      /\ h1.panic \/ h1.shut[c] \/ \E j \in New(h1, c) : h1.queue[c][j] = Msg("relay", t)
      /\ \A y \in Conns : Len(queue[y]) <= Len(h1.queue[y])
  BY <1>3, <1>4, <1>8, SendNew
<1>10. /\ \A y \in Conns : \A j \in New(h1, y) : j \in New(h2, y) /\ h2.queue[y][j] = h1.queue[y][j]
       /\ h2.panic \/ h2.shut[t] \/ \E j \in New(h2, t) : h2.queue[t][j] = Msg("relay", c)
       /\ \A y \in Conns : Len(queue[y]) <= Len(h2.queue[y])
  BY <1>4, <1>5, <1>8, <1>9, SendNew
<1>11. /\ \A y \in Conns : \A j \in New(h2, y) : j \in New(h3, y) /\ h3.queue[y][j] = h2.queue[y][j]
       /\ h3.panic \/ h3.shut[c] \/ \E j \in New(h3, c) : h3.queue[c][j] = Msg("punch", t)
       /\ \A y \in Conns : Len(queue[y]) <= Len(h3.queue[y])
  BY <1>5, <1>6, <1>8, <1>10, SendNew
<1>12. /\ \A y \in Conns : \A j \in New(h3, y) : j \in New(h4, y) /\ h4.queue[y][j] = h3.queue[y][j]
       /\ h4.panic \/ h4.shut[t] \/ \E j \in New(h4, t) : h4.queue[t][j] = Msg("punch", c)
  BY <1>6, <1>7, <1>8, <1>11, SendNew
<1>13. /\ (h1.panic => h2.panic) /\ (h2.panic => h3.panic) /\ (h3.panic => h4.panic)
       /\ \A y \in Conns : (h1.shut[y] => h2.shut[y]) /\ (h2.shut[y] => h3.shut[y])
                           /\ (h3.shut[y] => h4.shut[y])
  BY <1>5, <1>6, <1>7 DEF Sends
<1>14. CASE /\ x = t /\ h4.queue[x][i] = Msg("punch", c) /\ ~h3.panic /\ ~h3.shut[t]
            /\ \A j \in New(h3, x) : j < i
  <2>1. d = c
    <3>1. Msg("punch", d) = Msg("punch", c) BY <1>1, <1>14
    <3> QED BY <3>1 DEF Msg
  <2>4. ~h2.panic /\ ~h2.shut[t] BY <1>13, <1>14
  <2>5. PICK n \in New(h2, t) : h2.queue[t][n] = Msg("relay", c) BY <1>10, <2>4
  <2>6. n \in New(h3, t) /\ h3.queue[t][n] = Msg("relay", c) BY <1>11, <2>5
  <2>7. n \in New(h4, t) /\ h4.queue[t][n] = Msg("relay", c) BY <1>12, <2>6
  <2>2. \E l \in New(h4, x) : l < i /\ h4.queue[x][l] = Msg("relay", d)
    BY <1>14, <2>1, <2>6, <2>7
  <2>3. h4.shut[d] \/ \E j \in New(h4, d) : h4.queue[d][j] = Msg("punch", x)
    BY <1>11, <1>12, <1>13, <1>14, <2>1
  <2> QED BY <1>1, <2>2, <2>3
<1>15. CASE i \in New(h3, x) /\ h4.queue[x][i] = h3.queue[x][i]
  <2>1. h3.queue[x][i] = Msg("punch", d) BY <1>1, <1>15
  <2>2. CASE i \in New(h2, x) /\ h3.queue[x][i] = h2.queue[x][i]
    <3>1. \/ i \in New(h1, x) /\ h2.queue[x][i] = h1.queue[x][i]
          \/ h2.queue[x][i] = Msg("relay", c)
      BY <1>4, <1>5, <2>2, SendAt
    <3>2. i \notin New(h0, x) BY <1>3, <1>8 DEF New
    <3>3. i \in New(h1, x) => h1.queue[x][i] = Msg("relay", t)
      BY <1>3, <1>4, <3>2, SendAt
    <3> QED BY <2>1, <2>2, <3>1, <3>3 DEF Msg
  <2>3. CASE /\ x = c /\ h3.queue[x][i] = Msg("punch", t) /\ ~h2.panic /\ ~h2.shut[c]
             /\ \A j \in New(h2, x) : j < i
    <3>1. d = t
      <4>1. Msg("punch", d) = Msg("punch", t) BY <2>1, <2>3
      <4> QED BY <4>1 DEF Msg
    <3>4. ~h1.panic /\ ~h1.shut[c] BY <1>13, <2>3
    <3>5. PICK n \in New(h1, c) : h1.queue[c][n] = Msg("relay", t) BY <1>9, <3>4
    <3>6. n \in New(h2, c) /\ h2.queue[c][n] = Msg("relay", t) BY <1>10, <3>5
    <3>7. n \in New(h4, c) /\ h4.queue[c][n] = Msg("relay", t) BY <1>11, <1>12, <3>6
    <3>2. \E l \in New(h4, x) : l < i /\ h4.queue[x][l] = Msg("relay", d)
      BY <2>3, <3>1, <3>6, <3>7
    <3>3. h4.panic \/ h4.shut[d] \/ \E j \in New(h4, d) : h4.queue[d][j] = Msg("punch", x)
      BY <1>12, <2>3, <3>1
    <3> QED BY <1>1, <3>2, <3>3
  <2> QED BY <1>5, <1>6, <1>15, <2>2, <2>3, SendAt
<1> QED BY <1>1, <1>6, <1>7, <1>14, <1>15, SendAt

(* Any other step puts no punch into a channel. *)
LEMMA NoPunches ==
  ASSUME Inv, NEW c \in Conns,
         \/ Reject(c) \/ Register(c) \/ Greet(c) \/ Announce(c) \/ HandleEndpoints(c)
         \/ HandleResult(c) \/ Drop(c) \/ Vanish(c) \/ Write(c) \/ Drained(c) \/ PingFails(c),
         NEW x \in Conns, NEW d \in Conns, NEW i \in Appended(x)
  PROVE  queue'[x][i] # Msg("punch", d)
<1>1. queue \in [Conns -> Seq(Messages)] BY DEF Inv, TypeOK
<1>2. queue[x] \in Seq(Messages) /\ Len(queue[x]) \in Nat BY <1>1
<1>3. d # None BY NoneAssumption
<1>4. i \in 1..Len(queue'[x]) /\ i > Len(queue[x]) BY DEF Appended
<1>5. CASE UNCHANGED queue BY <1>2, <1>4, <1>5
<1>6. CASE Greet(c) /\ queue' # queue
  <2>1. queue' = [queue EXCEPT ![c] = Append(@, Msg("welcome", None))]
    BY <1>6 DEF Greet
  <2>2. CASE x = c
    <3>1. queue'[x] = Append(queue[x], Msg("welcome", None)) BY <1>1, <2>1, <2>2
    <3>2. i = Len(queue[x]) + 1 BY <1>2, <1>4, <3>1
    <3>3. queue'[x][i] = Msg("welcome", None) BY <1>2, <3>1, <3>2
    <3> QED BY <3>3 DEF Msg
  <2>3. CASE x # c BY <1>1, <1>2, <1>4, <2>1, <2>3
  <2> QED BY <2>2, <2>3
<1>7. CASE Announce(c)
  <2>1. TypeOK /\ Broadcast(NetOf(c)) BY <1>7 DEF Announce, Inv
  <2>2. queue'[x][i].about = None BY <1>2, <1>4, <2>1, BroadcastQueue
  <2> QED BY <1>3, <2>2 DEF Msg
<1>8. CASE Write(c)
  <2>1. queue[c] # <<>> /\ queue' = [queue EXCEPT ![c] = Tail(@)] BY <1>8 DEF Write
  <2>2. CASE x = c
    <3>1. queue'[x] = Tail(queue[x]) /\ queue[x] # <<>> BY <1>1, <2>1, <2>2
    <3>2. Len(queue'[x]) = Len(queue[x]) - 1 BY <1>2, <3>1, TailType
    <3> QED BY <1>2, <1>4, <3>2
  <2>3. CASE x # c BY <1>1, <1>2, <1>4, <2>1, <2>3
  <2> QED BY <2>2, <2>3
<1> QED
  BY <1>5, <1>6, <1>7, <1>8 DEF Reject, Register, HandleEndpoints, HandleResult, Drop, Leaves, Vanish,
     Drained, PingFails, WriterEnds, HubUnchanged

(* A punch a step puts into a channel, and what it comes with. *)
Punched(x, d, i) ==
  queue'[x][i] = Msg("punch", d) =>
    /\ \E j \in Appended(x) : j < i /\ queue'[x][j] = Msg("relay", d)
    /\ \/ \E j \in Appended(d) : queue'[d][j] = Msg("punch", x)
       \/ shut'[d] \/ wedged'

(* Whatever step puts a punch into a channel, introduce is behind it. *)
LEMMA Punches ==
  ASSUME Inv, [Next]_vars, NEW x \in Conns, NEW d \in Conns, NEW i \in Appended(x)
  PROVE  Punched(x, d, i)
<1>1. ASSUME NEW c \in Conns, NEW k \in Keys, HandleConnect(c, k) PROVE Punched(x, d, i)
  <2> DEFINE t == peers[k]
             h == IF Unmatched(c, t) THEN Hub ELSE Introduced(c, t)
  <2>1. queue' = h.queue /\ shut' = h.shut /\ wedged' = h.panic BY <1>1 DEF HandleConnect
  <2>2. queue[x] \in Seq(Messages) /\ Len(queue[x]) \in Nat BY DEF Inv, TypeOK
  <2>3. CASE Unmatched(c, t)
    <3>1. queue' = queue BY <2>1, <2>3 DEF Hub
    <3> QED BY <2>2, <3>1 DEF Appended
  <2>4. CASE ~Unmatched(c, t)
    <3>1. t \in Conns /\ NetOf(t) = NetOf(c) /\ h = Introduced(c, t)
      BY <2>4 DEF Unmatched, Inv, TypeOK
    <3>2. HubOK(Hub) BY HubOfInv
    <3> HIDE DEF h, t
    <3>3. Appended(x) = New(h, x) /\ Appended(d) = New(h, d) BY <2>1 DEF Appended, New
    <3>4. PunchIn(h, x, d, i) BY <3>1, <3>2, <3>3, IntroducedPunches
    <3> QED BY <2>1, <3>3, <3>4 DEF Punched, PunchIn
  <2> QED BY <2>3, <2>4
<1>2. CASE UNCHANGED vars
  <2>1. queue' = queue /\ Len(queue[x]) \in Nat BY <1>2 DEF vars, Inv, TypeOK
  <2> QED BY <2>1 DEF Appended
<1> QED BY <1>1, <1>2, NoPunches DEF Next, Punched

(* Whoever is told to punch was told of the relay before, in the same        *)
(* introduction, whichever of its four sends evicted or panicked.            *)
THEOREM RelayComesFirst == Spec => RelayFirst
<1> DEFINE First == \A c \in Conns, d \in Conns : \A i \in Appended(c) :
                      queue'[c][i] = Msg("punch", d) =>
                        \E j \in Appended(c) : j < i /\ queue'[c][j] = Msg("relay", d)
<1>1. Inv /\ [Next]_vars => [First]_vars BY Punches DEF Punched
<1> QED BY <1>1, Invariant, PTL DEF Spec, RelayFirst

(* A punch is told to both sides, or the other is being closed, or the hub   *)
(* has stopped.                                                              *)
THEOREM PunchesArePaired == Spec => PunchPaired
<1> DEFINE Paired == \A c \in Conns, d \in Conns :
                       (\E i \in Appended(c) : queue'[c][i] = Msg("punch", d)) =>
                         \/ \E i \in Appended(d) : queue'[d][i] = Msg("punch", c)
                         \/ shut'[d] \/ wedged'
<1>1. Inv /\ [Next]_vars => [Paired]_vars BY Punches DEF Punched
<1> QED BY <1>1, Invariant, PTL DEF Spec, PunchPaired

-----------------------------------------------------------------------------
(* One send: whether it panics, whom it evicts, and how long channels are.   *)
LEMMA SendPanics ==
  ASSUME NEW h, HubOK(h), NEW x \in Conns, NEW m \in Messages, NEW g, g = TrySend(h, x, m)
  PROVE  /\ g.panic <=> h.panic \/ h.shut[x]
         /\ ~g.panic => \A d \in Conns :
              /\ g.shut[d] <=> h.shut[d] \/ (d = x /\ Len(h.queue[x]) = QCap)
              /\ Len(g.queue[d]) = IF d = x /\ Len(h.queue[x]) < QCap
                                   THEN Len(h.queue[d]) + 1 ELSE Len(h.queue[d])
<1>1. /\ h.queue \in [Conns -> Seq(Messages)] /\ h.shut \in [Conns -> BOOLEAN]
      /\ \A d \in Conns : Len(h.queue[d]) \in Nat /\ Len(h.queue[d]) <= QCap
      /\ h.panic \in BOOLEAN /\ h \in HubRecord /\ QCap \in Nat
  BY HubTypes, QCapAssumption DEF HubOK
<1>2. CASE h.panic
  BY <1>1, <1>2 DEF TrySend
<1>3. CASE ~h.panic /\ h.shut[x]
  <2>1. g = [h EXCEPT !.panic = TRUE] BY <1>3 DEF TrySend
  <2>2. g.panic BY <1>1, <2>1 DEF HubRecord
  <2> QED BY <1>3, <2>2
<1>4. CASE ~h.panic /\ ~h.shut[x] /\ Len(h.queue[x]) < QCap
  <2>1. g = [h EXCEPT !.queue = [h.queue EXCEPT ![x] = Append(h.queue[x], m)]]
    BY <1>4 DEF TrySend
  <2>2. /\ g.queue = [h.queue EXCEPT ![x] = Append(h.queue[x], m)]
        /\ g.shut = h.shut /\ g.panic = h.panic
    BY <1>1, <2>1 DEF HubRecord
  <2>3. Len(g.queue[x]) = Len(h.queue[x]) + 1 /\ \A d \in Conns \ {x} : g.queue[d] = h.queue[d]
    BY <1>1, <2>2
  <2>4. Len(h.queue[x]) # QCap BY <1>1, <1>4
  <2>5. \A d \in Conns : Len(g.queue[d]) = IF d = x /\ Len(h.queue[x]) < QCap
                                           THEN Len(h.queue[d]) + 1 ELSE Len(h.queue[d])
    BY <1>4, <2>3
  <2> QED BY <1>4, <2>2, <2>4, <2>5
<1>5. CASE ~h.panic /\ ~h.shut[x] /\ ~(Len(h.queue[x]) < QCap)
  <2>1. g = [h EXCEPT !.shut = [h.shut EXCEPT ![x] = TRUE],
                      !.peers = [h.peers EXCEPT ![KeyOf(x)] = None]]
    BY <1>5 DEF TrySend
  <2>2. g.queue = h.queue /\ g.shut = [h.shut EXCEPT ![x] = TRUE] /\ g.panic = h.panic
    BY <1>1, <2>1 DEF HubRecord
  <2>3. Len(h.queue[x]) = QCap BY <1>1, <1>5
  <2>4. \A d \in Conns : g.shut[d] <=> h.shut[d] \/ d = x BY <1>1, <2>2
  <2> QED BY <1>5, <2>2, <2>3, <2>4
<1> QED BY <1>2, <1>3, <1>4, <1>5

(* The four sends of introduce panic where Stops says. *)
LEMMA IntroducedPanics ==
  ASSUME Inv, NEW c \in Conns, NEW t \in Conns, NetOf(t) = NetOf(c), ~shut[t]
  PROVE  Introduced(c, t).panic <=>
           \/ shut[c] \/ Len(queue[c]) = QCap \/ Len(queue[t]) = QCap
           \/ c = t /\ Len(queue[c]) >= QCap - 2
<1> DEFINE h1 == TrySend(Hub, c, Msg("relay", t))
           h2 == TrySend(h1,  t, Msg("relay", c))
           h3 == TrySend(h2,  c, Msg("punch", t))
           h4 == TrySend(h3,  t, Msg("punch", c))
           Full(h, d) == Len(h.queue[d]) = QCap
<1>1. Introduced(c, t) = h4 BY DEF Introduced
<1>2. /\ Msg("relay", t) \in Messages /\ Msg("punch", t) \in Messages
      /\ Msg("relay", c) \in Messages /\ Msg("punch", c) \in Messages
  BY DEF Msg, Messages
<1>3. /\ InNet(c, Msg("relay", t)) /\ InNet(c, Msg("punch", t))
      /\ InNet(t, Msg("relay", c)) /\ InNet(t, Msg("punch", c))
  BY DEF Msg, InNet
<1>4. HubOK(Hub) BY HubOfInv
<1>5. HubOK(h1) BY <1>2, <1>3, <1>4, TrySendOK
<1>6. HubOK(h2) BY <1>2, <1>3, <1>5, TrySendOK
<1>7. HubOK(h3) BY <1>2, <1>3, <1>6, TrySendOK
<1>8. Hub.panic = FALSE /\ Hub.shut = shut /\ Hub.queue = queue BY DEF Hub
<1> DEFINE Longer(h, g, x, d) ==
             Len(g.queue[d]) = IF d = x /\ Len(h.queue[x]) < QCap
                               THEN Len(h.queue[d]) + 1 ELSE Len(h.queue[d])
<1>11. /\ h1.panic <=> shut[c]
       /\ ~h1.panic => \A d \in Conns : /\ h1.shut[d] <=> shut[d] \/ (d = c /\ Full(Hub, c))
                                        /\ Longer(Hub, h1, c, d)
  BY <1>2, <1>4, <1>8, SendPanics
<1>12. /\ h2.panic <=> h1.panic \/ h1.shut[t]
       /\ ~h2.panic => \A d \in Conns : /\ h2.shut[d] <=> h1.shut[d] \/ (d = t /\ Full(h1, t))
                                        /\ Longer(h1, h2, t, d)
  BY <1>2, <1>5, SendPanics
<1>13. /\ h3.panic <=> h2.panic \/ h2.shut[c]
       /\ ~h3.panic => \A d \in Conns : /\ h3.shut[d] <=> h2.shut[d] \/ (d = c /\ Full(h2, c))
                                        /\ Longer(h2, h3, c, d)
  BY <1>2, <1>6, SendPanics
<1>14. h4.panic <=> h3.panic \/ h3.shut[t] BY <1>2, <1>7, SendPanics
<1>15. QCap \in Nat /\ \A d \in Conns : /\ Len(queue[d]) \in Nat /\ Len(queue[d]) <= QCap
                                        /\ Hub.queue[d] = queue[d]
  BY <1>4, <1>8, HubTypes, QCapAssumption DEF HubOK
<1> HIDE DEF h1, h2, h3, h4
<1>16. CASE c # t
  <2>1. ~h1.panic => /\ ~h1.shut[t] /\ (h1.shut[c] <=> Full(Hub, c))
                     /\ (Full(h1, t) <=> Full(Hub, t))
    BY <1>11, <1>15, <1>16
  <2>2. ~h2.panic => (h2.shut[c] <=> Full(Hub, c)) /\ (h2.shut[t] <=> Full(Hub, t))
    BY <1>12, <1>16, <2>1
  <2>3. ~h3.panic => (h3.shut[t] <=> Full(Hub, t)) BY <1>13, <1>16, <2>2
  <2>4. h4.panic <=> shut[c] \/ Full(Hub, c) \/ Full(Hub, t)
    BY <1>11, <1>12, <1>13, <1>14, <2>1, <2>2, <2>3
  <2> QED BY <1>1, <1>8, <1>16, <2>4
<1>17. CASE c = t
  <2> DEFINE n == Len(queue[c])
  <2>0. n \in Nat /\ n <= QCap /\ Hub.queue[c] = queue[c] BY <1>15
  <2>1. ~h1.panic /\ (h1.shut[c] <=> n = QCap) BY <1>11, <1>17, <2>0
  <2>2. Len(h1.queue[c]) = IF n < QCap THEN n + 1 ELSE n BY <1>11, <2>0, <2>1
  <2>3. h2.panic <=> n = QCap BY <1>12, <1>17, <2>1
  <2>4. n < QCap => ~h2.panic /\ (h2.shut[c] <=> n + 1 = QCap)
    <3> SUFFICES ASSUME n < QCap PROVE ~h2.panic /\ (h2.shut[c] <=> n + 1 = QCap) OBVIOUS
    <3>1. ~h2.panic /\ ~h1.shut[c] BY <2>0, <2>1, <2>3
    <3>2. Full(h1, c) <=> n + 1 = QCap BY <2>2
    <3> QED BY <1>12, <1>17, <3>1, <3>2
  <2>5. n + 1 < QCap => Len(h2.queue[c]) = n + 2
    <3> SUFFICES ASSUME n + 1 < QCap PROVE Len(h2.queue[c]) = n + 2 OBVIOUS
    <3>0. n < QCap BY <2>0, <1>15
    <3>1. ~h2.panic BY <2>4, <3>0
    <3>2. Len(h1.queue[c]) = n + 1 BY <2>2, <3>0
    <3>3. Longer(h1, h2, c, c) BY <1>12, <1>17, <3>1
    <3> QED BY <2>0, <3>2, <3>3
  <2>6. h3.panic <=> n = QCap \/ n + 1 = QCap
    <3>1. CASE n = QCap BY <1>13, <2>3, <3>1
    <3>2. CASE n < QCap
      <4>1. n # QCap BY <2>0, <3>2
      <4> QED BY <1>13, <2>4, <3>2, <4>1
    <3>3. n = QCap \/ n < QCap BY <2>0, <1>15
    <3> QED BY <3>1, <3>2, <3>3
  <2>7. n + 1 < QCap => (h3.shut[c] <=> n + 2 = QCap)
    <3> SUFFICES ASSUME n + 1 < QCap PROVE h3.shut[c] <=> n + 2 = QCap OBVIOUS
    <3>1. n < QCap /\ n # QCap /\ n + 1 # QCap BY <2>0, <1>15
    <3>2. ~h3.panic /\ ~h2.shut[c] BY <2>4, <2>6, <3>1
    <3>3. Full(h2, c) <=> n + 2 = QCap BY <2>5
    <3> QED BY <1>13, <3>2, <3>3
  <2>8. h4.panic <=> n = QCap \/ n + 1 = QCap \/ n + 2 = QCap
    <3>1. CASE n = QCap \/ n + 1 = QCap BY <1>14, <2>6, <3>1
    <3>2. CASE n + 1 < QCap
      <4>1. n # QCap /\ n + 1 # QCap BY <2>0, <3>2, <1>15
      <4> QED BY <1>14, <1>17, <2>6, <2>7, <3>2, <4>1
    <3>3. (n = QCap \/ n + 1 = QCap) \/ n + 1 < QCap BY <2>0, <1>15
    <3> QED BY <3>1, <3>2, <3>3
  <2>9. (n = QCap \/ n + 1 = QCap \/ n + 2 = QCap) <=> n >= QCap - 2 BY <2>0, <1>15
  <2>10. ~shut[c] BY <1>17
  <2> HIDE DEF n
  <2>11. Len(queue[c]) = n /\ Len(queue[t]) = n BY <1>17 DEF n
  <2> QED BY <1>1, <1>17, <2>8, <2>9, <2>10, <2>11
<1> QED BY <1>16, <1>17

(* The hub is locked for good by the introductions named, and only by them.  *)
THEOREM StopsOnlyFullHolds == Spec => StopsOnlyFull
<1> DEFINE Exact == wedged' <=> \E c \in Conns, k \in Keys : Stops(c, k)
<1>1. ASSUME Inv, NEW c \in Conns, NEW k \in Keys, HandleConnect(c, k)
      PROVE  /\ Stops(c, k) => wedged'
             /\ wedged' => Stops(c, k)
  <2>1. Unmatched(c, peers[k]) => wedged' = FALSE BY <1>1 DEF HandleConnect, Hub
  <2>2. ASSUME ~Unmatched(c, peers[k])
        PROVE  wedged' <=> Stops(c, k)
    <3> DEFINE t == peers[k]
    <3>1. t \in Conns /\ NetOf(t) = NetOf(c) BY <1>1, <2>2 DEF Unmatched, Inv, TypeOK
    <3>2. ~shut[t] BY <1>1, <3>1, NoneAssumption DEF Inv, RegisteredOpen
    <3>3. wedged' = Introduced(c, t).panic BY <1>1, <2>2 DEF HandleConnect
    <3>4. wedged' <=> \/ shut[c] \/ Len(queue[c]) = QCap \/ Len(queue[t]) = QCap
                      \/ c = t /\ Len(queue[c]) >= QCap - 2
      BY <1>1, <3>1, <3>2, <3>3, IntroducedPanics
    <3> QED BY <1>1, <2>2, <3>4 DEF Stops
  <2> QED BY <2>1, <2>2 DEF Stops
<1>2. ASSUME Inv, Next, ~wedged PROVE Exact
  <2>1. ASSUME NEW c \in Conns, NEW k \in Keys, Stops(c, k) PROVE wedged'
    BY <1>1, <1>2, <2>1 DEF Stops
  <2>2. ASSUME wedged' PROVE \E c \in Conns, k \in Keys : Stops(c, k)
    <3>1. PICK c \in Conns, k \in Keys : HandleConnect(c, k)
      BY <1>2, <2>2 DEF Next, Reject, Register, Greet, Announce, HandleEndpoints,
         HandleResult, Drop, Leaves, Vanish, Write, Drained, PingFails, WriterEnds,
         HubUnchanged
    <3> QED BY <1>1, <1>2, <2>2, <3>1
  <2> QED BY <2>1, <2>2
<1>3. Inv /\ [Next]_vars => [~wedged => Exact]_vars BY <1>2
<1> QED BY <1>3, Invariant, PTL DEF Spec, StopsOnlyFull

-----------------------------------------------------------------------------
(* What freshness rests on.  A network rests when none of its connections    *)
(* has an announcement to make; Heard says that its members then know it.    *)
Rests(net) == \A d \in Conns : NetOf(d) = net => Resting(d)

HeardBy(c) ==
  /\ \A d \in Members(NetOf(c)) \ {c} :
       \E e \in pushed[c] : e.conn = d /\ e.cand = info[d].cand
  /\ \A e \in pushed[c] :
       Orphaned(e.conn) \/ (Registered(e.conn) /\ e.cand = info[e.conn].cand)

Heard == \A c \in Conns : Registered(c) /\ Rests(NetOf(c)) => HeardBy(c)

(* A step that changes nothing a network at rest could have heard: nobody    *)
(* joins, and who leaves without an announcement is an orphan.               *)
Calm(net) ==
  /\ \A e \in Conns : shut[e] => shut'[e]
  /\ \A d \in Conns : NetOf(d) = net =>
       /\ Resting(d) /\ (pc[d] = "read" => pc'[d] = "read")
       /\ pushed'[d] = pushed[d] /\ info'[d].cand = info[d].cand
       /\ Registered(d)' => Registered(d)
       /\ Registered(d) => Registered(d)' \/ Orphaned(d)'

(* The steps that leave registry, channels' ends and lists alone: a network  *)
(* that rests after one has not been touched by it.                          *)
LEMMA QuietCalm ==
  ASSUME Inv, NEW c \in Conns, UNCHANGED <<shut, pushed, peers>>,
         \/ Reject(c) \/ Greet(c) \/ HandleEndpoints(c) \/ HandleResult(c)
         \/ Write(c) \/ Drained(c) \/ PingFails(c) \/ Vanish(c),
         NEW net, Rests(net)'
  PROVE  Calm(net)
<1>1. ASSUME NEW d \in Conns
      PROVE  /\ open'[d] => open[d]
             /\ \/ pc'[d] = pc[d]
                \/ pc[d] = "hello" /\ pc'[d] = "done"
                \/ pc'[d] \in {"crashed", "bcast"}
             /\ info'[d].cand = info[d].cand \/ pc'[d] = "bcast"
  <2>1. CASE Reject(c) BY <2>1 DEF Reject, Goto, Inv, TypeOK
  <2>2. CASE Greet(c) BY <2>2 DEF Greet, Goto, Inv, TypeOK
  <2>3. CASE HandleEndpoints(c)
    BY <2>3 DEF HandleEndpoints, Reads, Reported, Goto, Inv, TypeOK
  <2>4. CASE HandleResult(c)
    <3>1. PICK f \in [type : {"result"}, direct : BOOLEAN] :
            info' = [info EXCEPT ![c].direct = f.direct]
      BY <2>4 DEF HandleResult
    <3>2. info' = [info EXCEPT ![c] = [info[c] EXCEPT !.direct = f.direct]]
      BY <3>1
    <3>3. info[c] \in [cand : Candidates \cup {"none"}, direct : BOOLEAN]
      BY DEF Inv, TypeOK
    <3>4. [info[c] EXCEPT !.direct = f.direct].cand = info[c].cand BY <3>3
    <3>5. info'[d].cand = info[d].cand BY <3>2, <3>4 DEF Inv, TypeOK
    <3> QED BY <2>4, <3>5 DEF HandleResult
  <2>5. CASE Write(c) BY <2>5 DEF Write, Inv, TypeOK
  <2>6. CASE Drained(c) \/ PingFails(c)
    BY <2>6 DEF Drained, PingFails, WriterEnds, Inv, TypeOK
  <2>7. CASE Vanish(c) BY <2>7 DEF Vanish
  <2> QED BY <2>1, <2>2, <2>3, <2>4, <2>5, <2>6, <2>7
<1>2. ASSUME NEW d \in Conns, NetOf(d) = net
      PROVE  /\ Resting(d) /\ (pc[d] = "read" => pc'[d] = "read")
             /\ info'[d].cand = info[d].cand
  <2>1. Resting(d)' BY <1>2 DEF Rests
  <2> QED BY <1>1, <2>1 DEF Resting
<1>3. \A d \in Conns : Registered(d)' <=> Registered(d) BY DEF Registered
<1> QED BY <1>2, <1>3 DEF Calm

(* A registration disturbs the network of the new connection, and that of    *)
(* the one it replaces, which is closed.                                     *)
LEMMA RegisterCalm ==
  ASSUME Inv, NEW c \in Conns, Register(c), NEW net, Rests(net)'
  PROVE  Calm(net)
<1>1. /\ peers \in [Keys -> Conns \cup {None}] /\ KeyOf(c) \in Keys
      /\ peers' = [peers EXCEPT ![KeyOf(c)] = c]
      /\ \A d \in Conns : open'[d] = (open[d] /\ d # peers[KeyOf(c)])
      /\ pc[c] = "hello" /\ \A d \in Conns : pc'[d] = IF d = c THEN "greet" ELSE pc[d]
      /\ UNCHANGED <<info, shut, pushed>>
  BY KeyType DEF Register, Goto, Inv, TypeOK
<1>2. ASSUME NEW d \in Conns, NetOf(d) = net
      PROVE  /\ Resting(d) /\ (pc[d] = "read" => pc'[d] = "read")
             /\ Registered(d)' <=> Registered(d)
  <2>1. Resting(d)' BY <1>2 DEF Rests
  <2>2. d # c /\ Resting(d) BY <1>1, <2>1 DEF Resting
  <2>3. peers'[KeyOf(d)] = d => peers[KeyOf(d)] = d BY <1>1, <2>2, KeyType
  <2>4. ASSUME Registered(d), KeyOf(d) = KeyOf(c) PROVE FALSE
    <3>1. ~open'[d] BY <1>1, <2>4 DEF Registered
    <3>2. pc'[d] \notin {"hello", "done"} BY <1>1, <2>2, <2>4 DEF Inv, Away
    <3> QED BY <2>1, <3>1, <3>2 DEF Resting
  <2>5. peers[KeyOf(d)] = d => peers'[KeyOf(d)] = d BY <1>1, <2>4, KeyType DEF Registered
  <2> QED BY <1>1, <2>2, <2>3, <2>5 DEF Registered
<1> QED BY <1>1, <1>2 DEF Calm

(* A connection that is dropped has its end to announce. *)
LEMMA DropCalm ==
  ASSUME Inv, NEW c \in Conns, Drop(c), NEW net, Rests(net)'
  PROVE  Calm(net)
<1>1. /\ peers \in [Keys -> Conns \cup {None}] /\ shut \in [Conns -> BOOLEAN]
      /\ pc[c] = "read" /\ \A d \in Conns : pc'[d] = IF d = c THEN "left" ELSE pc[d]
      /\ \A d \in Conns : open'[d] => open[d]
      /\ UNCHANGED <<info, pushed>>
  BY DEF Drop, Leaves, Goto, Inv, TypeOK
<1>2. /\ \A k \in Keys : peers'[k] = peers[k] \/ (peers[k] = c /\ peers'[k] = None)
      /\ \A d \in Conns : shut[d] => shut'[d]
  BY <1>1, KeyType DEF Drop, Registered
<1>3. ASSUME NEW d \in Conns, NetOf(d) = net
      PROVE  /\ Resting(d) /\ (pc[d] = "read" => pc'[d] = "read")
             /\ Registered(d)' <=> Registered(d)
  <2>1. Resting(d)' BY <1>3 DEF Rests
  <2>2. d # c /\ Resting(d) BY <1>1, <1>2, <2>1 DEF Resting
  <2>3. peers'[KeyOf(d)] = d <=> peers[KeyOf(d)] = d
    BY <1>2, <2>2, KeyType, NoneAssumption
  <2> QED BY <1>1, <2>2, <2>3 DEF Registered
<1> QED BY <1>1, <1>2, <1>3 DEF Calm

(* Whom introduce may evict, and whose registrations that ends. *)
LEMMA ConnectEvicts ==
  ASSUME Inv, NEW c \in Conns, NEW k \in Keys, HandleConnect(c, k)
  PROVE  \E S \in SUBSET Conns :
           /\ \A d \in S : NetOf(d) = NetOf(c) /\ pc[d] \notin {"hello", "left", "done"}
           /\ \A d \in Conns : shut[d] => shut'[d]
           /\ \A j \in Keys :
                \/ peers'[j] = peers[j]
                \/ peers'[j] = None /\ \E d \in S : KeyOf(d) = j /\ shut'[d]
<1> DEFINE t == peers[k]
           h == IF Unmatched(c, t) THEN Hub ELSE Introduced(c, t)
<1>1. peers' = h.peers /\ shut' = h.shut /\ pc[c] = "read"
  BY DEF HandleConnect, Reads
<1>2. Hub.peers = peers /\ Hub.shut = shut BY DEF Hub
<1>3. CASE Unmatched(c, t)
  <2>1. peers' = peers /\ shut' = shut BY <1>1, <1>2, <1>3
  <2>2. /\ \A d \in {} : NetOf(d) = NetOf(c) /\ pc[d] \notin {"hello", "left", "done"}
        /\ \A d \in Conns : shut[d] => shut'[d]
        /\ \A j \in Keys : peers'[j] = peers[j]
    BY <2>1
  <2>3. {} \in SUBSET Conns OBVIOUS
  <2> HIDE DEF h, t
  <2> QED BY <2>2, <2>3
<1>4. CASE ~Unmatched(c, t)
  <2>1. t \in Conns /\ NetOf(t) = NetOf(c) /\ h = Introduced(c, t)
    BY <1>4 DEF Unmatched, Inv, TypeOK
  <2>2. Registered(t)
    BY <2>1, NoneAssumption DEF Inv, RegisteredOpen, Registered
  <2>3. pc[t] \notin {"hello", "left", "done"} BY <2>1, <2>2 DEF Inv, Away
  <2>4. HubOK(Hub) BY HubOfInv
  <2> HIDE DEF h
  <2>5. Evicts(Hub, h, {c, t}) BY <2>1, <2>4, IntroducedOK
  <2>6. /\ \A d \in Conns : shut[d] => shut'[d]
        /\ \A j \in Keys :
             \/ peers'[j] = peers[j]
             \/ peers'[j] = None /\ \E d \in {c, t} : KeyOf(d) = j /\ shut'[d]
    BY <1>1, <1>2, <2>5 DEF Evicts
  <2>7. {c, t} \in SUBSET Conns BY <2>1
  <2>8. \A d \in {c, t} : NetOf(d) = NetOf(c) /\ pc[d] \notin {"hello", "left", "done"}
    BY <1>1, <2>1, <2>3
  <2> HIDE DEF t
  <2> QED BY <2>6, <2>7, <2>8
<1> QED BY <1>3, <1>4

(* An introduction that evicts disturbs its own network.  In another one it  *)
(* may end the registration of a connection with the key of the evicted one. *)
LEMMA ConnectCalm ==
  ASSUME Inv, NEW c \in Conns, NEW k \in Keys, HandleConnect(c, k), NEW net, Rests(net)'
  PROVE  Calm(net)
<1>1. /\ pc[c] = "read" /\ UNCHANGED <<info, open, pushed>>
      /\ \A d \in Conns : pc'[d] = pc[d] \/ (d = c /\ pc'[d] \in {"read", "stuck"})
  BY DEF HandleConnect, Reads, Goto, Inv, TypeOK
<1>2. PICK S \in SUBSET Conns :
        /\ \A d \in S : NetOf(d) = NetOf(c) /\ pc[d] \notin {"hello", "left", "done"}
        /\ \A d \in Conns : shut[d] => shut'[d]
        /\ \A j \in Keys :
             \/ peers'[j] = peers[j]
             \/ peers'[j] = None /\ \E d \in S : KeyOf(d) = j /\ shut'[d]
  BY ConnectEvicts
<1>3. ASSUME NEW d \in Conns, NetOf(d) = net
      PROVE  /\ Resting(d) /\ (pc[d] = "read" => pc'[d] = "read")
             /\ Registered(d)' => Registered(d)
             /\ Registered(d) => Registered(d)' \/ Orphaned(d)'
  <2>1. Resting(d)' BY <1>3 DEF Rests
  <2>2. Resting(d) /\ (pc[d] = "read" => pc'[d] = "read") BY <1>1, <1>2, <2>1 DEF Resting
  <2>3. Registered(d)' => Registered(d) BY <1>2, KeyType, NoneAssumption DEF Registered
  <2>4. ASSUME Registered(d), ~Registered(d)' PROVE Orphaned(d)'
    <3>1. PICK e \in S : KeyOf(e) = KeyOf(d) /\ shut'[e]
      BY <1>2, <2>4, KeyType DEF Registered
    <3>2. e \in Conns /\ NetOf(e) = NetOf(c) /\ pc'[e] \notin {"hello", "done"}
      BY <1>1, <1>2
    <3>3. ~Resting(e)' BY <3>1, <3>2 DEF Resting
    <3>4. NetOf(e) # NetOf(d) BY <1>3, <3>2, <3>3 DEF Rests
    <3>5. pc'[d] = "read" BY <2>2, <2>4 DEF Inv, Away, Resting
    <3> QED BY <2>4, <3>1, <3>2, <3>4, <3>5 DEF Orphaned, NetOf, IsExit, KeyOf
  <2> QED BY <2>2, <2>3, <2>4
<1> QED BY <1>1, <1>2, <1>3 DEF Calm

(* broadcastPeers disturbs no network but its own. *)
LEMMA AnnounceCalm ==
  ASSUME Inv, NEW c \in Conns, Announce(c), NEW net, Rests(net)', NetOf(c) # net
  PROVE  Calm(net)
<1> DEFINE full == {d \in Members(NetOf(c)) : Len(queue[d]) >= QCap}
           got == Members(NetOf(c)) \ full
<1>1. /\ \A d \in Conns : pushed'[d] = IF d \in got THEN Roster(d) ELSE pushed[d]
      /\ \A d \in Conns : shut'[d] = (shut[d] \/ d \in full)
      /\ \A k \in Keys : peers'[k] = IF peers[k] \in full THEN None ELSE peers[k]
      /\ \A d \in Conns : d # c => pc'[d] = pc[d]
      /\ UNCHANGED <<info, open>>
  BY DEF Announce, Broadcast, Goto, ConnUnchanged, Inv, TypeOK
<1>2. \A d \in full \cup got : NetOf(d) # net BY DEF Members
<1> HIDE DEF full, got
<1>3. ASSUME NEW d \in Conns, NetOf(d) = net
      PROVE  /\ Resting(d) /\ (pc[d] = "read" => pc'[d] = "read")
             /\ pushed'[d] = pushed[d]
             /\ Registered(d)' <=> Registered(d)
  <2>1. d # c /\ d \notin full /\ d \notin got BY <1>2, <1>3
  <2>2. Resting(d)' BY <1>3 DEF Rests
  <2>3. pc'[d] = pc[d] /\ shut'[d] = shut[d] /\ pushed'[d] = pushed[d]
    BY <1>1, <2>1 DEF Inv, TypeOK
  <2>4. peers'[KeyOf(d)] = d <=> peers[KeyOf(d)] = d
    BY <1>1, <2>1, KeyType, NoneAssumption
  <2> QED BY <1>1, <2>2, <2>3, <2>4 DEF Resting, Registered
<1> QED BY <1>1, <1>3 DEF Calm

(* After a calm step members know what they knew. *)
LEMMA CalmHeard ==
  ASSUME Inv, Inv', Heard, NEW c \in Conns, Calm(NetOf(c)), Registered(c)'
  PROVE  HeardBy(c)'
<1>1. /\ \A e \in Conns : shut[e] => shut'[e]
      /\ \A d \in Conns : NetOf(d) = NetOf(c) =>
           /\ Resting(d) /\ (pc[d] = "read" => pc'[d] = "read")
           /\ pushed'[d] = pushed[d] /\ info'[d].cand = info[d].cand
           /\ Registered(d)' => Registered(d)
           /\ Registered(d) => Registered(d)' \/ Orphaned(d)'
  BY DEF Calm
<1>2. HeardBy(c) BY <1>1 DEF Heard, Rests
<1>3. ASSUME NEW d \in Conns, NetOf(d) = NetOf(c), Orphaned(d) PROVE Orphaned(d)'
  BY <1>1, <1>3 DEF Orphaned
<1>4. ASSUME NEW d \in (Members(NetOf(c)) \ {c})'
      PROVE  \E e \in pushed'[c] : e.conn = d /\ e.cand = info'[d].cand
  <2>1. d \in Conns /\ d # c /\ NetOf(d) = NetOf(c) /\ Registered(d)'
    BY DEF Members
  <2>2. d \in Members(NetOf(c)) \ {c} BY <1>1, <2>1 DEF Members
  <2>3. PICK e \in pushed[c] : e.conn = d /\ e.cand = info[d].cand
    BY <1>2, <2>2 DEF HeardBy
  <2> QED BY <1>1, <2>1, <2>3
<1>5. ASSUME NEW e \in pushed'[c]
      PROVE  Orphaned(e.conn)' \/ (Registered(e.conn)' /\ e.cand = info'[e.conn].cand)
  <2>1. e \in pushed[c] BY <1>1
  <2>2. e.conn \in Conns /\ NetOf(e.conn) = NetOf(c)
    BY <2>1 DEF Inv, TypeOK, Entries, NetworkIsolation
  <2>3. Orphaned(e.conn) \/ (Registered(e.conn) /\ e.cand = info[e.conn].cand)
    BY <1>2, <2>1 DEF HeardBy
  <2> QED BY <1>1, <1>3, <2>2, <2>3
<1> QED BY <1>4, <1>5 DEF HeardBy

(* After an announcement of their network in which nobody was evicted,       *)
(* members know it.                                                          *)
LEMMA AnnounceHeard ==
  ASSUME Inv, NEW x \in Conns, Announce(x), NEW c \in Conns, NetOf(c) = NetOf(x),
         Rests(NetOf(c))', Registered(c)'
  PROVE  HeardBy(c)'
<1> DEFINE net == NetOf(x)
           full == {d \in Members(net) : Len(queue[d]) >= QCap}
<1>1. /\ \A d \in Members(net) \ full : pushed'[d] = Roster(d)
      /\ \A d \in Conns : shut'[d] = (shut[d] \/ d \in full)
      /\ \A k \in Keys : peers'[k] = IF peers[k] \in full THEN None ELSE peers[k]
      /\ \A d \in Conns : pc'[d] = pc[d] \/ (d = x /\ pc[d] = "bcast" /\ pc'[d] = "read")
                                         \/ (d = x /\ pc[d] = "left" /\ pc'[d] = "done")
      /\ UNCHANGED info
  BY DEF Announce, Broadcast, Goto, ConnUnchanged, Inv, TypeOK, Members
<1>2. full = {}
  <2> SUFFICES ASSUME NEW d \in full PROVE FALSE
    OBVIOUS
  <2>1. d \in Conns /\ Registered(d) /\ NetOf(d) = NetOf(c) BY DEF Members
  <2>2. pc'[d] \notin {"hello", "done"} BY <1>1, <2>1 DEF Inv, Away
  <2> QED BY <1>1, <2>1, <2>2 DEF Rests, Resting
<1> HIDE DEF full
<1>3. \A d \in Conns : Registered(d)' <=> Registered(d)
  BY <1>1, <1>2, KeyType DEF Registered
<1>4. pushed'[c] = Roster(c) BY <1>1, <1>2, <1>3 DEF Members
<1>5. ASSUME NEW d \in (Members(NetOf(c)) \ {c})'
      PROVE  \E e \in pushed'[c] : e.conn = d /\ e.cand = info'[d].cand
  <2>1. d \in Members(NetOf(c)) \ {c} BY <1>3 DEF Members
  <2>2. Entry(d) \in pushed'[c] BY <1>4, <2>1 DEF Roster
  <2> QED BY <1>1, <2>2 DEF Entry
<1>6. ASSUME NEW e \in pushed'[c]
      PROVE  Registered(e.conn)' /\ e.cand = info'[e.conn].cand
  <2>1. PICK d \in Members(NetOf(c)) \ {c} : e = Entry(d) BY <1>4 DEF Roster
  <2>2. e.conn = d /\ e.cand = info[d].cand BY <2>1 DEF Entry
  <2> QED BY <1>1, <1>3, <2>1, <2>2 DEF Members
<1> QED BY <1>5, <1>6 DEF HeardBy

(* Every step keeps what members know up to date, or leaves an announcement  *)
(* to be made.                                                               *)
LEMMA HeardStep ==
  ASSUME Inv, Heard, [Next]_vars
  PROVE  Heard'
<1> SUFFICES ASSUME NEW c \in Conns, Registered(c)', Rests(NetOf(c))'
             PROVE  HeardBy(c)'
  BY DEF Heard, NetOf, IsExit
<1>1. Inv' BY Step, Stutter
<1>2. ASSUME NEW x \in Conns, Announce(x) PROVE HeardBy(c)'
  <2>1. CASE NetOf(x) = NetOf(c) BY <1>2, <2>1, AnnounceHeard
  <2>2. CASE NetOf(x) # NetOf(c) BY <1>1, <1>2, <2>2, AnnounceCalm, CalmHeard
  <2> QED BY <2>1, <2>2
<1>3. ASSUME NEW x \in Conns, Calm(NetOf(c)) PROVE HeardBy(c)'
  BY <1>1, <1>3, CalmHeard
<1>4. ASSUME NEW x \in Conns,
             \/ Reject(x) \/ Greet(x) \/ HandleEndpoints(x) \/ HandleResult(x)
             \/ Write(x) \/ Drained(x) \/ PingFails(x) \/ Vanish(x)
      PROVE  HeardBy(c)'
  <2>1. UNCHANGED <<shut, pushed, peers>>
    BY <1>4 DEF Reject, Greet, HandleEndpoints, HandleResult, Write, Drained, PingFails,
                Vanish, WriterEnds, HubUnchanged
  <2> QED BY <1>3, <1>4, <2>1, QuietCalm
<1>5. ASSUME NEW x \in Conns, Register(x) \/ Drop(x) \/ \E k \in Keys : HandleConnect(x, k)
      PROVE  HeardBy(c)'
  BY <1>3, <1>5, RegisterCalm, DropCalm, ConnectCalm
<1>6. CASE UNCHANGED vars
  <2>1. Calm(NetOf(c))
    BY <1>6 DEF vars, Calm, Rests, Resting, Registered
  <2> QED BY <1>3, <2>1
<1> QED BY <1>2, <1>4, <1>5, <1>6 DEF Next

(* In a settled state every network rests, and who has heard of the peers    *)
(* of its network knows them, and besides them only orphans.                 *)
LEMMA HeardFresh ==
  ASSUME Inv, Heard
  PROVE  RosterFresh
<1> SUFFICES ASSUME Settled, NEW c \in Conns, Registered(c)
             PROVE  {e \in Known(pushed[c]) : ~Orphaned(e.conn)} = Known(Roster(c))
  BY DEF RosterFresh
<1>1. HeardBy(c) BY DEF Heard, Rests, Settled
<1>2. ASSUME NEW e \in pushed[c], ~Orphaned(e.conn)
      PROVE  [conn |-> e.conn, cand |-> e.cand] \in Known(Roster(c))
  <2>1. e.conn \in Conns /\ NetOf(e.conn) = NetOf(c) /\ e.conn # c
    BY DEF Inv, TypeOK, Entries, NetworkIsolation
  <2>2. Registered(e.conn) /\ e.cand = info[e.conn].cand BY <1>1, <1>2 DEF HeardBy
  <2>3. Entry(e.conn) \in Roster(c) BY <2>1, <2>2 DEF Roster, Members
  <2>4. Entry(e.conn).conn = e.conn /\ Entry(e.conn).cand = e.cand BY <2>2 DEF Entry
  <2> QED BY <2>3, <2>4 DEF Known
<1>3. ASSUME NEW r \in Roster(c)
      PROVE  /\ [conn |-> r.conn, cand |-> r.cand] \in Known(pushed[c])
             /\ ~Orphaned(r.conn)
  <2>1. PICK d \in Members(NetOf(c)) \ {c} : r = Entry(d) BY DEF Roster
  <2>2. r.conn = d /\ r.cand = info[d].cand BY <2>1 DEF Entry
  <2>3. PICK e \in pushed[c] : e.conn = d /\ e.cand = info[d].cand
    BY <1>1, <2>1 DEF HeardBy
  <2>4. [conn |-> e.conn, cand |-> e.cand] \in Known(pushed[c]) BY DEF Known
  <2>5. ~Orphaned(d) BY <2>1 DEF Members, Orphaned
  <2> QED BY <2>2, <2>3, <2>4, <2>5
<1>4. ASSUME NEW k \in Known(pushed[c]), ~Orphaned(k.conn) PROVE k \in Known(Roster(c))
  <2>1. PICK e \in pushed[c] : k = [conn |-> e.conn, cand |-> e.cand] BY DEF Known
  <2>2. k.conn = e.conn BY <2>1
  <2> QED BY <1>2, <1>4, <2>1, <2>2
<1>5. ASSUME NEW k \in Known(Roster(c)) PROVE k \in Known(pushed[c]) /\ ~Orphaned(k.conn)
  <2>1. PICK r \in Roster(c) : k = [conn |-> r.conn, cand |-> r.cand] BY DEF Known
  <2>2. k.conn = r.conn BY <2>1
  <2> QED BY <1>3, <2>1, <2>2
<1> QED BY <1>4, <1>5

(* Nobody has heard anything before anybody is registered.                   *)
LEMMA HeardInvariant == Spec => []Heard
<1>1. Init => Heard
  BY KeyType, NoneAssumption DEF Init, Heard, Registered
<1>2. Inv /\ Heard /\ [Next]_vars => Heard' BY HeardStep
<1> QED BY <1>1, <1>2, Invariant, PTL DEF Spec

(* The list a peer has is its network, once all that was to be announced has *)
(* been: broadcastPeers runs after every change, on behalf of a connection   *)
(* that is not at rest before (handleWS, readLoop, drop).                    *)
THEOREM RosterFreshHolds == Spec => []RosterFresh
<1>1. Inv /\ Heard => RosterFresh BY HeardFresh
<1> QED BY <1>1, Invariant, HeardInvariant, PTL

(* Where every key stays in its network there are no orphans, and the list   *)
(* is the roster itself.                                                     *)
THEOREM RosterExact ==
  ASSUME \A c, d \in Conns : KeyOf(c) = KeyOf(d) => NetOf(c) = NetOf(d)
  PROVE  Spec => [](Settled => \A c \in Conns :
                      Registered(c) => Known(pushed[c]) = Known(Roster(c)))
<1>1. ASSUME RosterFresh, Inv, Settled, NEW c \in Conns, Registered(c)
      PROVE  Known(pushed[c]) = Known(Roster(c))
  <2>1. ASSUME NEW e \in Known(pushed[c]) PROVE ~Orphaned(e.conn)
    <3>1. PICK r \in pushed[c] : e = [conn |-> r.conn, cand |-> r.cand] BY DEF Known
    <3>2. r \in Entries BY <1>1 DEF Inv, TypeOK
    <3>3. e.conn \in Conns BY <3>1, <3>2 DEF Entries
    <3> QED BY <3>3 DEF Orphaned
  <2> QED BY <1>1, <2>1 DEF RosterFresh
<1>2. RosterFresh /\ Inv => (Settled => \A c \in Conns :
                      Registered(c) => Known(pushed[c]) = Known(Roster(c)))
  BY <1>1
<1> QED BY <1>2, Invariant, RosterFreshHolds, PTL

-----------------------------------------------------------------------------
(* Only a hello registers a connection. *)
LEMMA RegistersOnce ==
  ASSUME Inv, Next
  PROVE  \A d \in Conns : Registered(d)' => Registered(d) \/ pc'[d] = "greet"
<1> SUFFICES ASSUME NEW d \in Conns, Registered(d)', ~Registered(d)
             PROVE  pc'[d] = "greet"
  OBVIOUS
<1>1. peers'[KeyOf(d)] = d /\ peers[KeyOf(d)] # d BY DEF Registered
<1>2. d # None /\ KeyOf(d) \in Keys BY KeyType, NoneAssumption
<1>3. ASSUME NEW c \in Conns, Register(c) PROVE pc'[d] = "greet"
  <2>1. d = c BY <1>1, <1>2, <1>3, KeyType DEF Register, Inv, TypeOK
  <2> QED BY <1>3, <2>1 DEF Register, Goto, Inv, TypeOK
<1>4. ASSUME NEW c \in Conns, NEW k \in Keys, HandleConnect(c, k) PROVE FALSE
  BY <1>1, <1>2, <1>4, ConnectEvicts
<1>5. ASSUME NEW c \in Conns, Drop(c) PROVE FALSE
  BY <1>1, <1>2, <1>5, KeyType DEF Drop, Inv, TypeOK
<1>6. ASSUME NEW c \in Conns, Announce(c) PROVE FALSE
  BY <1>1, <1>2, <1>6 DEF Announce, Broadcast
<1>7. peers' # peers BY <1>1
<1> QED
  BY <1>3, <1>4, <1>5, <1>6, <1>7 DEF Next, Reject, Greet, HandleEndpoints, HandleResult,
     Vanish, Write, Drained, PingFails, WriterEnds, HubUnchanged

(* Every open connection keeps who attends to it, and every registration its *)
(* handler.                                                                  *)
LEMMA AttendedStep == ASSUME Inv, Attended, Next PROVE Attended'
<1> DEFINE Open(d) == open[d] =>
                 \/ pc[d] \in {"hello", "greet"} \/ (pc[d] = "crashed" /\ shut[d])
                 \/ pc[d] \in {"bcast", "read", "stuck"} /\ writer[d] = "running"
<1>1. PICK c \in Conns :
        \/ Reject(c) \/ Register(c) \/ Greet(c) \/ Announce(c)
        \/ HandleEndpoints(c) \/ HandleResult(c)
        \/ \E k \in Keys : HandleConnect(c, k)
        \/ Drop(c) \/ Vanish(c)
        \/ Write(c) \/ Drained(c) \/ PingFails(c)
  BY DEF Next
<1>2. ASSUME NEW d \in Conns PROVE Open(d)'
  <2>1. Open(d) BY DEF Attended
  <2>2. CASE Reject(c) \/ Register(c)
    BY <2>1, <2>2 DEF Reject, Register, Goto, HubUnchanged, Inv, TypeOK
  <2>3. CASE Greet(c) BY <2>1, <2>3 DEF Greet, Goto, Inv, TypeOK
  <2>4. CASE Announce(c)
    <3>1. shut[d] => shut'[d] BY <2>4 DEF Announce, Broadcast
    <3>2. UNCHANGED <<open, writer>> BY <2>4 DEF Announce, ConnUnchanged
    <3>3. pc'[d] = pc[d] \/ (d = c /\ pc[d] = "bcast" /\ pc'[d] = "read")
          \/ (d = c /\ pc[d] = "left")
      BY <2>4 DEF Announce, Goto, Inv, TypeOK
    <3> QED BY <2>1, <3>1, <3>2, <3>3
  <2>5. CASE HandleEndpoints(c) \/ HandleResult(c) \/ Vanish(c)
    BY <2>1, <2>5 DEF HandleEndpoints, HandleResult, Vanish, Reads, Goto, HubUnchanged,
       Inv, TypeOK
  <2>6. ASSUME NEW k \in Keys, HandleConnect(c, k) PROVE Open(d)'
    <3>1. shut[d] => shut'[d] BY <2>6, ConnectEvicts
    <3>2. UNCHANGED <<open, writer>> BY <2>6 DEF HandleConnect
    <3>3. \/ pc'[d] = pc[d]
          \/ pc[d] = "read" /\ pc'[d] \in {"read", "stuck"}
      BY <2>6 DEF HandleConnect, Reads, Goto, Inv, TypeOK
    <3> QED BY <2>1, <3>1, <3>2, <3>3
  <2>7. CASE Drop(c)
    BY <2>1, <2>7 DEF Drop, Leaves, Goto, Inv, TypeOK
  <2>8. CASE Write(c) \/ Drained(c) \/ PingFails(c)
    BY <2>1, <2>8 DEF Write, Drained, PingFails, WriterEnds, HubUnchanged, Inv, TypeOK
  <2> QED BY <1>1, <2>2, <2>3, <2>4, <2>5, <2>6, <2>7, <2>8
<1>3. ASSUME NEW d \in Conns, Registered(d)'
      PROVE  pc'[d] \in {"greet", "bcast", "read", "stuck"}
  <2>1. Inv' BY Step
  <2>2. pc'[d] \notin {"hello", "left", "done"} BY <1>3, <2>1 DEF Inv, Away
  <2>3. ~shut'[d]
    BY <1>3, <2>1, KeyType, NoneAssumption DEF Inv, RegisteredOpen, Registered
  <2>4. pc'[d] # "crashed"
    <3> SUFFICES ASSUME pc'[d] = "crashed" PROVE FALSE
      OBVIOUS
    <3>1. Registered(d) BY <1>3, RegistersOnce
    <3>2. pc[d] # "crashed" BY <3>1 DEF Attended
    <3>3. Greet(d) /\ shut[d]
      <4>1. Greet(c)
        BY <1>1, <3>2 DEF Reject, Register, Announce, HandleEndpoints, HandleResult,
           HandleConnect, Drop, Leaves, Vanish, Write, Drained, PingFails, WriterEnds, Goto,
           Inv, TypeOK
      <4>2. d = c BY <3>2, <4>1 DEF Greet, Goto, Inv, TypeOK
      <4> QED BY <3>2, <4>1, <4>2 DEF Greet, Goto, Inv, TypeOK
    <3> QED
      BY <3>1, <3>3, KeyType, NoneAssumption DEF Inv, RegisteredOpen, Registered
  <2> QED BY <2>1, <2>2, <2>4 DEF Inv, TypeOK
<1> QED BY <1>2, <1>3 DEF Attended

(* Nobody is left behind: the safety half of DeadPeerRemoved and             *)
(* EvictedClosed.                                                            *)
THEOREM AttendedHolds == Spec => []Attended
<1>1. Init => Attended BY KeyType, NoneAssumption DEF Init, Attended, Registered
<1>2. Inv /\ Attended /\ [Next]_vars => Attended'
  <2>1. Attended /\ UNCHANGED vars => Attended'
    BY DEF Attended, Registered, vars
  <2> QED BY <2>1, AttendedStep
<1> QED BY <1>1, <1>2, Invariant, PTL DEF Spec
=============================================================================
