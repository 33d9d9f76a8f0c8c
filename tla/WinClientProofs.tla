--------------------------- MODULE WinClientProofs ---------------------------
(***************************************************************************)
(* What the windows of WinClient promise, for any number of handlers and    *)
(* keys: handlers exclude each other, a failed connect leaves nothing that  *)
(* blocks the internet, and the file and the hub agree on the key.          *)
(***************************************************************************)
EXTENDS WinClient, TLAPS

Ops == {"none", "startup", "connect", "guard", "disconnect"}
Pcs == {"idle", "driver", "provision", "asking", "write", "install", "waitup", "verify",
        "teardown", "waitdown", "box", "refresh"}
TaskType == [op : Ops, pc : Pcs, key : Keys \cup {NoKey}]

(* TypeOK in parts that the provers take one at a time. *)
Flags   == window \in BOOLEAN /\ driver \in BOOLEAN /\ stuck \in BOOLEAN
Numbers ==
  /\ conf \in Keys \cup {NoConf, Partial} /\ keys \in 0..MaxKeys
  /\ asked \subseteq 1..keys /\ hub \in 0..keys
Words ==
  /\ task \in [Tasks -> TaskType] /\ buttons \in {"none", "connect", "disconnect"}
  /\ status \in Statuses
  /\ service \in {"absent", "starting", "running", "stopped", "ending", "leaving"}

Failed == {"Connect failed", "Internet restored", "Disconnected"}

(* There is nothing to click and nothing that runs without a window.         *)
NoWindow == ~window => buttons = "none" /\ \A t \in Tasks : task[t] = Idle

(* A handler that is not over replaces what the last one said; one that has  *)
(* come to the tunnel is not Startup, and has asked for the removal when it  *)
(* waits for it.                                                             *)
Working(t) ==
  /\ Busy(t) => task[t].op # "none"
  /\ Busy(t) /\ task[t].pc # "box" => status \notin Failed
  /\ task[t].pc \in {"install", "waitup", "verify", "teardown", "waitdown"} =>
       task[t].op \in {"connect", "guard", "disconnect"}
  /\ task[t].pc = "box" /\ task[t].op = "startup" => status = "Setup failed"
  /\ task[t].pc = "waitdown" /\ ~stuck => service \in {"absent", "ending", "leaving"}

(* The newest key is the one in the file, or the one that is being asked for *)
(* because there is no file.                                                 *)
Asking(t) ==
  /\ task[t].pc \in {"asking", "write"} => conf = NoConf /\ task[t].key = keys /\ keys \in Keys
  /\ task[t].pc = "write" \/ (task[t].pc = "asking" /\ task[t].key \notin asked) =>
       hub \in 1..keys

NewestKey == conf \in Keys => conf = keys /\ hub \in 1..keys

Control == OneOperation /\ NoWindow /\ ButtonsBack /\ FailOpen /\ \A t \in Tasks : Working(t)
Device  == NewestKey /\ \A t \in Tasks : Asking(t)

Inv == Flags /\ Numbers /\ Words /\ Control /\ Device

-----------------------------------------------------------------------------
(* The parts are the type invariant. *)
LEMMA TypeParts == TypeOK <=> Flags /\ Numbers /\ Words
BY Zenon DEF TypeOK, Flags, Numbers, Words, TaskType, Ops, Pcs

(* The changes a handler makes to its own task leave the others alone.       *)
LEMMA TaskChange ==
  ASSUME task \in [Tasks -> TaskType], NEW t \in Tasks, NEW r \in TaskType,
         task' = [task EXCEPT ![t] = r]
  PROVE  /\ task' \in [Tasks -> TaskType] /\ task'[t] = r
         /\ \A u \in Tasks : u # t => task'[u] = task[u]
OBVIOUS

(* Goto changes the program counter of one task and nothing else.            *)
LEMMA GotoOne ==
  ASSUME task \in [Tasks -> TaskType], NEW t \in Tasks, NEW pc \in Pcs, Goto(t, pc)
  PROVE  /\ task' \in [Tasks -> TaskType]
         /\ task'[t].pc = pc /\ task'[t].op = task[t].op /\ task'[t].key = task[t].key
         /\ \A u \in Tasks : u # t => task'[u] = task[u]
<1>1. task' = [task EXCEPT ![t] = [task[t] EXCEPT !.pc = pc]] BY DEF Goto
<1>2. task[t] \in TaskType OBVIOUS
<1>3. [task[t] EXCEPT !.pc = pc] \in TaskType BY <1>2 DEF TaskType
<1>4. task' \in [Tasks -> TaskType] /\ task'[t] = [task[t] EXCEPT !.pc = pc] BY <1>1, <1>3
<1>5. task'[t].pc = pc /\ task'[t].op = task[t].op /\ task'[t].key = task[t].key
  BY <1>2, <1>4 DEF TaskType
<1> QED BY <1>1, <1>4, <1>5

(* An idle task is a task. *)
LEMMA IdleType == Idle \in TaskType /\ Idle.pc = "idle" /\ Idle.op = "none"
BY DEF Idle, TaskType, Ops, Pcs

(* The invariant holds initially. *)
LEMMA InitInv == Init => Inv
<1> SUFFICES ASSUME Init PROVE Inv OBVIOUS
<1>1. Flags BY Zenon DEF Init, Flags
<1>2. Numbers BY MaxKeysAssumption DEF Init, Numbers, NoKey
<1>3. Words BY IdleType DEF Init, Words, Statuses
<1>4. Control BY IdleType, Zenon DEF Init, Control, OneOperation, NoWindow, ButtonsBack, FailOpen, Working, Busy
<1>5. Device BY IdleType DEF Init, Device, NewestKey, Asking, Keys, NoConf
<1> QED BY <1>1, <1>2, <1>3, <1>4, <1>5 DEF Inv

(* A handler that runs is the only one, and its window is there.             *)
LEMMA Alone ==
  ASSUME Words, Control, NEW t \in Tasks, Busy(t)
  PROVE  /\ window /\ buttons = "none" /\ task[t].op # "none"
         /\ task[t].pc # "box" => status \notin Failed
         /\ \A u \in Tasks : u # t => ~Busy(u)
<1>1. buttons = "none" /\ \A u \in Tasks : u # t => ~Busy(u)
  BY Zenon DEF Control, OneOperation
<1>2. window BY IdleType, Zenon DEF Control, NoWindow, Busy
<1> QED BY <1>1, <1>2, Zenon DEF Control, Working

(* What a step of a handler has to show for itself; the others are not busy. *)
LEMMA HandlerStep ==
  ASSUME Words, Control, NEW t \in Tasks, Busy(t), window' = window,
         \A u \in Tasks : u # t => task'[u] = task[u],
         Busy(t)' => buttons' = "none",
         ~Busy(t)' => buttons' # "none" \/ status' = "Setup failed",
         Working(t)', FailOpen'
  PROVE  Control'
<1>1. window /\ buttons = "none" /\ \A u \in Tasks : u # t => ~Busy(u) BY Alone
<1>2. \A u \in Tasks : u # t => ~Busy(u)' BY <1>1 DEF Busy
<1>3. OneOperation' BY <1>2 DEF OneOperation
<1>4. NoWindow' BY <1>1, Zenon DEF NoWindow
<1>5. \A u \in Tasks : Working(u)'
  <2> TAKE u \in Tasks
  <2>1. CASE u = t BY <2>1
  <2>2. CASE u # t BY <1>2, <2>2 DEF Working, Busy
  <2> QED BY <2>1, <2>2
<1>6. ButtonsBack' BY DEF ButtonsBack
<1> QED BY <1>3, <1>4, <1>5, <1>6 DEF Control

(* The same for the keys. *)
LEMMA DeviceStep ==
  ASSUME Words, Control, Device, NEW t \in Tasks, Busy(t),
         \A u \in Tasks : u # t => task'[u] = task[u], NewestKey', Asking(t)'
  PROVE  Device'
<1>1. \A u \in Tasks : u # t => ~Busy(u) BY Alone
<1>2. \A u \in Tasks : Asking(u)'
  <2> TAKE u \in Tasks
  <2>1. CASE u = t BY <2>1
  <2>2. CASE u # t BY <1>1, <2>2 DEF Asking, Busy
  <2> QED BY <2>1, <2>2
<1> QED BY <1>2 DEF Device

(* Nothing about the keys changes in a step that leaves them, the file and   *)
(* the hub alone and does not make its handler one that asks or writes.      *)
LEMMA DeviceSame ==
  ASSUME Words, Control, Device, NEW t \in Tasks, Busy(t),
         \A u \in Tasks : u # t => task'[u] = task[u],
         task'[t].pc \notin {"asking", "write"}, conf' = conf, keys' = keys, hub' = hub
  PROVE  Device'
<1>1. NewestKey' BY DEF Device, NewestKey
<1>2. Asking(t)' BY DEF Asking
<1> QED BY <1>1, <1>2, DeviceStep

(* An exception leads to the teardown, or to a message box of Startup.       *)
LEMMA ThrowOne ==
  ASSUME Words, Control, NEW t \in Tasks, Busy(t), task[t].pc # "box", Throw(t)
  PROVE  /\ task' \in [Tasks -> TaskType] /\ task'[t].op = task[t].op
         /\ task'[t].pc \in {"box", "teardown"}
         /\ task'[t].pc = "teardown" => task[t].op \in {"connect", "guard", "disconnect"}
         /\ \A u \in Tasks : u # t => task'[u] = task[u]
         /\ window' = window /\ buttons' = "none" /\ status' \in Statuses \ Failed
         /\ task'[t].pc = "box" => status' = "Setup failed"
<1>1. buttons = "none" /\ task[t].op # "none" /\ status \notin Failed BY Alone
<1>2. task[t].op \in Ops /\ status \in Statuses BY DEF Words, TaskType
<1>3. CASE task[t].op = "startup"
  <2>1. Goto(t, "box") /\ status' = "Setup failed" /\ buttons' = "none" /\ window' = window
    BY <1>1, <1>3, Zenon DEF Throw, Show
  <2>2. /\ task' \in [Tasks -> TaskType] /\ task'[t].op = task[t].op /\ task'[t].pc = "box"
        /\ \A u \in Tasks : u # t => task'[u] = task[u]
    BY <2>1, GotoOne DEF Words, Pcs
  <2> QED BY <2>1, <2>2 DEF Statuses, Failed
<1>4. CASE task[t].op # "startup"
  <2>1. Goto(t, "teardown") /\ status' = status /\ buttons' = "none" /\ window' = window
    BY <1>1, <1>4, Zenon DEF Throw, ui
  <2>2. /\ task' \in [Tasks -> TaskType] /\ task'[t].op = task[t].op /\ task'[t].pc = "teardown"
        /\ \A u \in Tasks : u # t => task'[u] = task[u]
    BY <2>1, GotoOne DEF Words, Pcs
  <2> QED BY <1>1, <1>2, <1>4, <2>1, <2>2 DEF Ops
<1> QED BY <1>3, <1>4

(* A handler that is over has enabled a button and is not busy.              *)
LEMMA EndOne ==
  ASSUME Words, NEW t \in Tasks, NEW text \in Statuses, End(t, text)
  PROVE  /\ task' \in [Tasks -> TaskType] /\ task'[t].pc = "refresh"
         /\ \A u \in Tasks : u # t => task'[u] = task[u]
         /\ window' = window /\ buttons' \in {"connect", "disconnect"} /\ status' = text
<1>1. Goto(t, "refresh") /\ status' = text /\ window' = window BY Zenon DEF End
<1>2. buttons' \in {"connect", "disconnect"} BY DEF End, ButtonsOn
<1> QED BY <1>1, <1>2, GotoOne DEF Words, Pcs

(* After EnsureProvisioned Startup ends, and DoConnect goes on.              *)
LEMMA ProvisionedOne ==
  ASSUME Words, Control, NEW t \in Tasks, Busy(t), task[t].pc # "box", Provisioned(t)
  PROVE  /\ task' \in [Tasks -> TaskType] /\ task'[t].op = task[t].op
         /\ task'[t].pc \in {"refresh", "install"}
         /\ \A u \in Tasks : u # t => task'[u] = task[u]
         /\ window' = window /\ status' \in Statuses \ Failed
         /\ buttons' \in {"none", "connect", "disconnect"}
         /\ task'[t].pc = "refresh" => buttons' # "none"
         /\ task'[t].pc = "install" =>
              buttons' = "none" /\ task[t].op \in {"connect", "guard", "disconnect"}
<1>1. buttons = "none" /\ status \notin Failed /\ status \in Statuses BY Alone DEF Words
<1>2. CASE task[t].op = "startup"
  <2>1. PICK text \in {"Connected", "Ready"} : End(t, text) BY <1>2 DEF Provisioned
  <2>2. text \in Statuses \ Failed BY DEF Statuses, Failed
  <2>3. task'[t].op = task[t].op BY <2>1, GotoOne DEF End, Words, Pcs
  <2> QED BY <2>1, <2>2, <2>3, EndOne
<1>3. CASE task[t].op # "startup"
  <2>1. Goto(t, "install") /\ status' = status /\ buttons' = "none" /\ window' = window
    BY <1>1, <1>3, Zenon DEF Provisioned, ui
  <2>2. task[t].op \in {"connect", "guard", "disconnect"} BY <1>3, Alone DEF Words, TaskType, Ops
  <2> QED BY <1>1, <2>1, <2>2, GotoOne DEF Words, Pcs
<1> QED BY <1>2, <1>3

-----------------------------------------------------------------------------
(* The steps of a handler, one lemma each.                                   *)

(* The installer: nothing but the handler moves.                             *)
LEMMA EnsureWireGuardInv == ASSUME Inv, NEW t \in Tasks, EnsureWireGuard(t) PROVE Inv'
<1>1. Busy(t) /\ task[t].pc = "driver" BY DEF EnsureWireGuard, Busy
<1>2. Flags' BY Zenon DEF EnsureWireGuard, Inv, Flags, ui, Throw, Show, Goto
<1>3. Numbers' BY DEF EnsureWireGuard, Inv, Numbers, net
<1>4. /\ Words' /\ window' = window /\ buttons' = "none" /\ status' \notin Failed
      /\ task'[t].op = task[t].op /\ task'[t].pc \in {"provision", "box", "teardown"}
      /\ task'[t].pc = "box" => status' = "Setup failed"
      /\ task'[t].pc = "teardown" => task[t].op \in {"connect", "guard", "disconnect"}
      /\ \A u \in Tasks : u # t => task'[u] = task[u]
  <2>1. service' = service BY DEF EnsureWireGuard
  <2>2. CASE Goto(t, "provision") /\ UNCHANGED ui
    <3>1. buttons = "none" /\ status \notin Failed BY <1>1, Alone DEF Inv
    <3> QED BY <2>1, <2>2, <3>1, GotoOne DEF Inv, Words, Pcs, ui
  <2>3. CASE Throw(t) BY <1>1, <2>1, <2>3, ThrowOne DEF Inv, Words
  <2> QED BY <2>2, <2>3 DEF EnsureWireGuard
<1>5. Control'
  <2>1. Working(t)' BY <1>1, <1>4, Alone DEF Working, Inv, Busy
  <2>2. FailOpen' BY <1>4 DEF FailOpen, Failed
  <2> QED BY <1>1, <1>4, <2>1, <2>2, HandlerStep DEF Inv, Busy
<1>6. Device' BY <1>1, <1>4, DeviceSame DEF EnsureWireGuard, Inv, net
<1> QED BY <1>2, <1>3, <1>4, <1>5, <1>6 DEF Inv

(* A file is there: Startup ends, DoConnect goes on to the tunnel.           *)
LEMMA FoundInv == ASSUME Inv, NEW t \in Tasks, Found(t) PROVE Inv'
<1>1. Busy(t) /\ task[t].pc = "provision" /\ Provisioned(t) BY DEF Found, Busy
<1>2. /\ task' \in [Tasks -> TaskType] /\ task'[t].op = task[t].op
      /\ task'[t].pc \in {"refresh", "install"}
      /\ \A u \in Tasks : u # t => task'[u] = task[u]
      /\ window' = window /\ status' \in Statuses \ Failed
      /\ buttons' \in {"none", "connect", "disconnect"}
      /\ task'[t].pc = "refresh" => buttons' # "none"
      /\ task'[t].pc = "install" =>
           buttons' = "none" /\ task[t].op \in {"connect", "guard", "disconnect"}
  BY <1>1, ProvisionedOne DEF Inv
<1>3. UNCHANGED <<driver, conf, service, keys, asked, hub, stuck>> BY DEF Found, host, net
<1>4. Flags' BY <1>2, <1>3, Zenon DEF Inv, Flags
<1>5. Numbers' BY <1>3 DEF Inv, Numbers
<1>6. Words' BY <1>2, <1>3 DEF Inv, Words
<1>7. Control'
  <2>1. Working(t)' BY <1>1, <1>2, Alone DEF Working, Inv, Busy
  <2>2. FailOpen' BY <1>2 DEF FailOpen, Failed
  <2> QED BY <1>1, <1>2, <2>1, <2>2, HandlerStep DEF Inv, Busy
<1>8. Device' BY <1>1, <1>2, <1>3, DeviceSame DEF Inv
<1> QED BY <1>4, <1>5, <1>6, <1>7, <1>8 DEF Inv

(* There is no file: the new key is the newest, and the hub does not have it. *)
LEMMA AskInv == ASSUME Inv, NEW t \in Tasks, Ask(t) PROVE Inv'
<1>1. Busy(t) /\ task[t].pc = "provision" BY DEF Ask, Busy
<1>2. /\ conf = NoConf /\ keys \in Nat /\ keys < MaxKeys /\ keys' = keys + 1
      /\ asked' = asked \cup {keys + 1}
  BY MaxKeysAssumption DEF Ask, Inv, Numbers
<1>3. keys' \in Keys BY <1>2, MaxKeysAssumption DEF Keys
<1>4. UNCHANGED <<driver, conf, service, hub, stuck, window, buttons, status>>
  BY DEF Ask, host, ui
<1>5. /\ task' \in [Tasks -> TaskType] /\ task'[t].op = task[t].op /\ task'[t].pc = "asking"
      /\ task'[t].key = keys'
      /\ \A u \in Tasks : u # t => task'[u] = task[u]
  <2>1. task[t] \in TaskType /\ task \in [Tasks -> TaskType] BY DEF Inv, Words
  <2>2. task' = [task EXCEPT ![t] = [op |-> task[t].op, pc |-> "asking", key |-> keys']]
    BY <1>2 DEF Ask
  <2>3. [op |-> task[t].op, pc |-> "asking", key |-> keys'] \in TaskType
    BY <1>3, <2>1 DEF TaskType, Pcs
  <2>4. /\ task' \in [Tasks -> TaskType]
        /\ task'[t] = [op |-> task[t].op, pc |-> "asking", key |-> keys']
        /\ \A u \in Tasks : u # t => task'[u] = task[u]
    BY <2>1, <2>2, <2>3, TaskChange
  <2> QED BY <2>4
<1>6. Flags' BY <1>4, Zenon DEF Inv, Flags
<1>7. Numbers' BY <1>2, <1>3, <1>4 DEF Inv, Numbers, Keys
<1>8. Words' BY <1>4, <1>5 DEF Inv, Words
<1>9. Control'
  <2>1. buttons = "none" /\ task[t].op # "none" /\ status \notin Failed BY <1>1, Alone DEF Inv
  <2>2. Working(t)' BY <1>4, <1>5, <2>1 DEF Working, Busy
  <2>3. FailOpen' BY <1>4 DEF FailOpen, Inv, Control
  <2> QED BY <1>1, <1>4, <1>5, <2>1, <2>2, <2>3, HandlerStep DEF Inv, Busy
<1>10. Device'
  <2>1. NewestKey' BY <1>2, <1>4, MaxKeysAssumption DEF NewestKey, Keys, NoConf
  <2>2. Asking(t)' BY <1>2, <1>3, <1>4, <1>5 DEF Asking
  <2> QED BY <1>1, <1>5, <2>1, <2>2, DeviceStep DEF Inv
<1> QED BY <1>6, <1>7, <1>8, <1>9, <1>10 DEF Inv

(* The request fails: whether the hub still serves it, no file has its key.  *)
LEMMA AskFailsInv == ASSUME Inv, NEW t \in Tasks, AskFails(t) PROVE Inv'
<1>1. Busy(t) /\ task[t].pc # "box" /\ Throw(t) BY DEF AskFails, Busy
<1>2. /\ task' \in [Tasks -> TaskType] /\ task'[t].op = task[t].op
      /\ task'[t].pc \in {"box", "teardown"}
      /\ task'[t].pc = "teardown" => task[t].op \in {"connect", "guard", "disconnect"}
      /\ \A u \in Tasks : u # t => task'[u] = task[u]
      /\ window' = window /\ buttons' = "none" /\ status' \in Statuses \ Failed
      /\ task'[t].pc = "box" => status' = "Setup failed"
  BY <1>1, ThrowOne DEF Inv
<1>3. UNCHANGED <<driver, conf, service, keys, hub, stuck>> /\ asked' \subseteq asked
  BY DEF AskFails, host
<1>4. Flags' BY <1>2, <1>3, Zenon DEF Inv, Flags
<1>5. Numbers' BY <1>3 DEF Inv, Numbers
<1>6. Words' BY <1>2, <1>3 DEF Inv, Words
<1>7. Control'
  <2>1. Working(t)' BY <1>1, <1>2, Alone DEF Working, Inv, Busy
  <2>2. FailOpen' BY <1>2 DEF FailOpen, Failed
  <2> QED BY <1>1, <1>2, <2>1, <2>2, HandlerStep DEF Inv, Busy
<1>8. Device' BY <1>1, <1>2, <1>3, DeviceSame DEF Inv
<1> QED BY <1>4, <1>5, <1>6, <1>7, <1>8 DEF Inv

(* The answer comes: the hub has had the key, or one it served after it.     *)
LEMMA AnsweredInv == ASSUME Inv, NEW t \in Tasks, Answered(t) PROVE Inv'
<1>1. Busy(t) /\ task[t].pc = "asking" /\ task[t].key \notin asked /\ Goto(t, "write")
  BY DEF Answered, Busy
<1>2. UNCHANGED <<driver, conf, service, keys, asked, hub, stuck, window, buttons, status>>
  BY DEF Answered, host, ui, net
<1>3. /\ task' \in [Tasks -> TaskType] /\ task'[t].op = task[t].op /\ task'[t].pc = "write"
      /\ task'[t].key = task[t].key
      /\ \A u \in Tasks : u # t => task'[u] = task[u]
  BY <1>1, GotoOne DEF Inv, Words, Pcs
<1>4. Flags' BY <1>2, Zenon DEF Inv, Flags
<1>5. Numbers' BY <1>2 DEF Inv, Numbers
<1>6. Words' BY <1>2, <1>3 DEF Inv, Words
<1>7. Control'
  <2>1. buttons = "none" /\ task[t].op # "none" /\ status \notin Failed BY <1>1, Alone DEF Inv
  <2>2. Working(t)' BY <1>2, <1>3, <2>1 DEF Working, Busy
  <2>3. FailOpen' BY <1>2 DEF FailOpen, Inv, Control
  <2> QED BY <1>1, <1>2, <1>3, <2>1, <2>2, <2>3, HandlerStep DEF Inv, Busy
<1>8. Device'
  <2>1. NewestKey' BY <1>2 DEF NewestKey, Inv, Device
  <2>2. Asking(t)' BY <1>1, <1>2, <1>3 DEF Asking, Inv, Device
  <2> QED BY <1>1, <1>3, <2>1, <2>2, DeviceStep DEF Inv
<1> QED BY <1>4, <1>5, <1>6, <1>7, <1>8 DEF Inv

(* The file is written, with the newest key or not to its end.               *)
LEMMA WriteConfInv == ASSUME Inv, NEW t \in Tasks, WriteConf(t) PROVE Inv'
<1>1. Busy(t) /\ task[t].pc = "write" BY DEF WriteConf, Busy
<1>2. /\ task' \in [Tasks -> TaskType] /\ task'[t].op = task[t].op
      /\ task'[t].pc \in {"refresh", "install", "box", "teardown"}
      /\ task'[t].pc \in {"install", "teardown"} =>
           task[t].op \in {"connect", "guard", "disconnect"}
      /\ \A u \in Tasks : u # t => task'[u] = task[u]
      /\ window' = window /\ status' \in Statuses \ Failed
      /\ buttons' \in {"none", "connect", "disconnect"}
      /\ task'[t].pc = "box" => status' = "Setup failed"
      /\ task'[t].pc = "refresh" <=> buttons' # "none"
  <2>1. CASE Provisioned(t) BY <1>1, <2>1, ProvisionedOne DEF Inv
  <2>2. CASE Throw(t) BY <1>1, <2>2, ThrowOne DEF Inv
  <2> QED BY <2>1, <2>2 DEF WriteConf
<1>3. UNCHANGED <<driver, service, keys, asked, hub, stuck>> /\ conf' \in {task[t].key, Partial}
  BY DEF WriteConf, net
<1>4. task[t].key = keys /\ keys \in Keys /\ hub \in 1..keys
  BY <1>1 DEF Inv, Device, Asking
<1>5. Flags' BY <1>2, <1>3, Zenon DEF Inv, Flags
<1>6. Numbers' BY <1>3, <1>4 DEF Inv, Numbers
<1>7. Words' BY <1>2, <1>3 DEF Inv, Words
<1>8. Control'
  <2>1. Working(t)' BY <1>1, <1>2, Alone DEF Working, Inv, Busy
  <2>2. FailOpen' BY <1>2 DEF FailOpen, Failed
  <2> QED BY <1>1, <1>2, <2>1, <2>2, HandlerStep DEF Inv, Busy
<1>9. Device'
  <2>1. NewestKey' BY <1>3, <1>4 DEF NewestKey, Partial, Keys
  <2>2. Asking(t)' BY <1>2 DEF Asking
  <2> QED BY <1>1, <1>2, <2>1, <2>2, DeviceStep DEF Inv
<1> QED BY <1>5, <1>6, <1>7, <1>8, <1>9 DEF Inv

(* The service is installed while the status says that it connects.          *)
LEMMA InstallInv == ASSUME Inv, NEW t \in Tasks, Install(t) PROVE Inv'
<1>1. Busy(t) /\ task[t].pc = "install" BY DEF Install, Busy
<1>2. buttons = "none" /\ task[t].op # "none" /\ status \notin Failed BY <1>1, Alone DEF Inv
<1>3. /\ UNCHANGED <<driver, conf, keys, asked, hub, stuck>>
      /\ service' \in {service, "starting"}
  BY DEF Install, net
<1>4. /\ task' \in [Tasks -> TaskType] /\ task'[t].op = task[t].op
      /\ task'[t].pc \in {"waitup", "box", "teardown"}
      /\ task[t].op \in {"connect", "guard", "disconnect"}
      /\ \A u \in Tasks : u # t => task'[u] = task[u]
      /\ window' = window /\ buttons' = "none" /\ status' \in Statuses \ Failed
      /\ task'[t].pc = "box" => status' = "Setup failed"
  <2>1. task[t].op \in {"connect", "guard", "disconnect"} BY <1>1 DEF Inv, Control, Working
  <2>2. CASE Goto(t, "waitup") /\ UNCHANGED ui
    BY <1>2, <2>1, <2>2, GotoOne DEF Inv, Words, Pcs, ui
  <2>3. CASE Throw(t) BY <1>1, <2>1, <2>3, ThrowOne DEF Inv
  <2> QED BY <2>1, <2>2, <2>3 DEF Install
<1>5. Flags' BY <1>3, <1>4, Zenon DEF Inv, Flags
<1>6. Numbers' BY <1>3 DEF Inv, Numbers
<1>7. Words' BY <1>3, <1>4 DEF Inv, Words
<1>8. Control'
  <2>1. Working(t)' BY <1>2, <1>4 DEF Working, Busy
  <2>2. FailOpen' BY <1>4 DEF FailOpen, Failed
  <2> QED BY <1>1, <1>4, <2>1, <2>2, HandlerStep DEF Inv, Busy
<1>9. Device' BY <1>1, <1>3, <1>4, DeviceSame DEF Inv
<1> QED BY <1>5, <1>6, <1>7, <1>8, <1>9 DEF Inv

(* The tunnel is up, or the handler tears down.                              *)
LEMMA WaitUpInv == ASSUME Inv, NEW t \in Tasks, WaitUp(t) PROVE Inv'
<1>1. Busy(t) /\ task[t].pc = "waitup" BY DEF WaitUp, Busy
<1>2. task[t].op \in {"connect", "guard", "disconnect"} BY <1>1 DEF Inv, Control, Working
<1>3. UNCHANGED <<driver, conf, service, keys, asked, hub, stuck, window, buttons, status>>
  BY DEF WaitUp, host, ui, net
<1>4. /\ task' \in [Tasks -> TaskType] /\ task'[t].op = task[t].op
      /\ task'[t].pc \in {"verify", "teardown"}
      /\ \A u \in Tasks : u # t => task'[u] = task[u]
  BY GotoOne DEF WaitUp, Inv, Words, Pcs
<1>5. Flags' BY <1>3, Zenon DEF Inv, Flags
<1>6. Numbers' BY <1>3 DEF Inv, Numbers
<1>7. Words' BY <1>3, <1>4 DEF Inv, Words
<1>8. Control'
  <2>1. buttons = "none" /\ task[t].op # "none" /\ status \notin Failed BY <1>1, Alone DEF Inv
  <2>2. Working(t)' BY <1>2, <1>3, <1>4, <2>1 DEF Working, Busy
  <2>3. FailOpen' BY <1>3 DEF FailOpen, Inv, Control
  <2> QED BY <1>1, <1>3, <1>4, <2>1, <2>2, <2>3, HandlerStep DEF Inv, Busy
<1>9. Device' BY <1>1, <1>3, <1>4, DeviceSame DEF Inv
<1> QED BY <1>5, <1>6, <1>7, <1>8, <1>9 DEF Inv

(* The internet is reached, or the guard tears down.                         *)
LEMMA VerifyInv == ASSUME Inv, NEW t \in Tasks, Verify(t) PROVE Inv'
<1>1. Busy(t) /\ task[t].pc = "verify" BY DEF Verify, Busy
<1>2. buttons = "none" /\ status \notin Failed /\ status \in Statuses
  BY <1>1, Alone DEF Inv, Words
<1>3. UNCHANGED <<driver, conf, service, keys, asked, hub, stuck>> BY DEF Verify, host, net
<1>4. /\ task' \in [Tasks -> TaskType]
      /\ \A u \in Tasks : u # t => task'[u] = task[u]
      /\ window' = window /\ buttons' \in {"none", "connect", "disconnect"}
      /\ status' \in Statuses \ Failed
      /\ \/ task'[t].pc = "refresh" /\ buttons' # "none"
         \/ task'[t].pc = "teardown" /\ task'[t].op = "guard" /\ buttons' = "none"
  <2>1. CASE End(t, "Connected") BY <2>1, EndOne DEF Inv, Statuses, Failed
  <2>2. CASE /\ task' = [task EXCEPT ![t] = [op |-> "guard", pc |-> "teardown", key |-> @.key]]
             /\ UNCHANGED ui
    <3>1. task[t] \in TaskType /\ task \in [Tasks -> TaskType] BY DEF Inv, Words
    <3>2. task' = [task EXCEPT ![t] = [op |-> "guard", pc |-> "teardown", key |-> task[t].key]]
      BY <2>2
    <3>3. [op |-> "guard", pc |-> "teardown", key |-> task[t].key] \in TaskType
      BY <3>1 DEF TaskType, Pcs, Ops
    <3>4. /\ task' \in [Tasks -> TaskType]
          /\ task'[t] = [op |-> "guard", pc |-> "teardown", key |-> task[t].key]
          /\ \A u \in Tasks : u # t => task'[u] = task[u]
      BY <3>1, <3>2, <3>3, TaskChange
    <3> QED BY <1>2, <2>2, <3>4 DEF ui
  <2> QED BY <2>1, <2>2 DEF Verify
<1>5. Flags' BY <1>3, <1>4, Zenon DEF Inv, Flags
<1>6. Numbers' BY <1>3 DEF Inv, Numbers
<1>7. Words' BY <1>3, <1>4 DEF Inv, Words
<1>8. Control'
  <2>1. Working(t)' BY <1>4 DEF Working, Busy
  <2>2. FailOpen' BY <1>4 DEF FailOpen, Failed
  <2> QED BY <1>1, <1>4, <2>1, <2>2, HandlerStep DEF Inv, Busy
<1>9. Device' BY <1>1, <1>3, <1>4, DeviceSame DEF Inv
<1> QED BY <1>5, <1>6, <1>7, <1>8, <1>9 DEF Inv

(* The removal works, or stuck says that it did not.                         *)
LEMMA UninstallInv == ASSUME Inv, NEW t \in Tasks, Uninstall(t) PROVE Inv'
<1>1. Busy(t) /\ task[t].pc = "teardown" BY DEF Uninstall, Busy
<1>2. UNCHANGED <<driver, conf, keys, asked, hub, window, buttons, status>>
  BY DEF Uninstall, net, ui
<1>3. stuck' \in BOOLEAN BY Zenon DEF Uninstall
<1>4. /\ service' \in {"absent", "starting", "running", "stopped", "ending", "leaving"}
      /\ ~stuck' => service' \in {"absent", "ending", "leaving"}
  BY DEF Uninstall, Inv, Words
<1>5. /\ task' \in [Tasks -> TaskType] /\ task'[t].op = task[t].op
      /\ task'[t].pc = "waitdown" /\ \A u \in Tasks : u # t => task'[u] = task[u]
  BY GotoOne DEF Uninstall, Inv, Words, Pcs
<1>6. Flags' BY <1>2, <1>3, Zenon DEF Inv, Flags
<1>7. Numbers' BY <1>2 DEF Inv, Numbers
<1>8. Words' BY <1>2, <1>4, <1>5 DEF Inv, Words
<1>9. Control'
  <2>1. buttons = "none" /\ task[t].op # "none" /\ status \notin Failed BY <1>1, Alone DEF Inv
  <2>2. Working(t)'
    <3>1. task[t].op \in {"connect", "guard", "disconnect"} BY <1>1 DEF Inv, Control, Working
    <3> QED BY <1>2, <1>4, <1>5, <2>1, <3>1 DEF Working, Busy
  <2>3. FailOpen' BY <1>2, <2>1 DEF FailOpen, Failed
  <2> QED BY <1>1, <1>2, <1>5, <2>1, <2>2, <2>3, HandlerStep DEF Inv, Busy
<1>10. Device' BY <1>1, <1>2, <1>5, DeviceSame DEF Inv
<1> QED BY <1>6, <1>7, <1>8, <1>9, <1>10 DEF Inv

(* The handler says that it failed only after the removal.                   *)
LEMMA WaitDownInv == ASSUME Inv, NEW t \in Tasks, WaitDown(t) PROVE Inv'
<1>1. Busy(t) /\ task[t].pc = "waitdown" BY DEF WaitDown, Busy
<1>2. /\ task[t].op \in {"connect", "guard", "disconnect"}
      /\ ~stuck => service \in {"absent", "ending", "leaving"}
  BY <1>1 DEF Inv, Control, Working
<1>3. buttons = "none" /\ task[t].op # "none" BY <1>1, Alone DEF Inv
<1>4. UNCHANGED <<driver, conf, service, keys, asked, hub, stuck>> BY DEF WaitDown, host, net
<1>5. /\ task' \in [Tasks -> TaskType]
      /\ \A u \in Tasks : u # t => task'[u] = task[u]
      /\ window' = window /\ buttons' \in {"none", "connect", "disconnect"}
      /\ status' \in Statuses
      /\ \/ task'[t].pc = "refresh" /\ buttons' # "none"
         \/ task'[t].pc = "box" /\ task'[t].op = "guard" /\ buttons' = "none"
  <2>1. CASE task[t].op = "guard"
    <3>1. Show(t, "Internet restored") BY <1>2, <2>1 DEF WaitDown, TornDown
    <3>2. /\ Goto(t, "box") /\ status' = "Internet restored"
          /\ window' = window /\ buttons' = buttons
      BY <3>1, Zenon DEF Show
    <3> QED BY <1>3, <2>1, <3>2, GotoOne DEF Inv, Words, Pcs, Statuses
  <2>2. CASE task[t].op # "guard"
    <3>1. PICK text \in {"Connect failed", "Disconnect failed", "Disconnected"} : End(t, text)
      BY <1>2, <2>2 DEF WaitDown, TornDown
    <3>2. text \in Statuses BY DEF Statuses
    <3> QED BY <3>1, <3>2, EndOne DEF Inv
  <2> QED BY <2>1, <2>2
<1>6. Flags' BY <1>4, <1>5, Zenon DEF Inv, Flags
<1>7. Numbers' BY <1>4 DEF Inv, Numbers
<1>8. Words' BY <1>4, <1>5 DEF Inv, Words
<1>9. Control'
  <2>1. Working(t)' BY <1>5 DEF Working, Busy
  <2>2. FailOpen' BY <1>2, <1>4 DEF FailOpen
  <2> QED BY <1>1, <1>5, <2>1, <2>2, HandlerStep DEF Inv, Busy
<1>10. Device' BY <1>1, <1>4, <1>5, DeviceSame DEF Inv
<1> QED BY <1>6, <1>7, <1>8, <1>9, <1>10 DEF Inv

(* The message box of Startup leaves no button, and the status says so.      *)
LEMMA DismissInv == ASSUME Inv, NEW t \in Tasks, Dismiss(t) PROVE Inv'
<1>1. Busy(t) /\ task[t].pc = "box" BY DEF Dismiss, Busy
<1>2. UNCHANGED <<driver, conf, service, keys, asked, hub, stuck>> BY DEF Dismiss, host, net
<1>9. task[t].op = "startup" => status = "Setup failed" BY <1>1 DEF Inv, Control, Working
<1>3. /\ task' \in [Tasks -> TaskType] /\ task'[t].pc \in {"idle", "refresh"}
      /\ \A u \in Tasks : u # t => task'[u] = task[u]
      /\ window' = window /\ buttons' \in {"none", "connect", "disconnect"} /\ status' = status
      /\ buttons' # "none" \/ status = "Setup failed"
  <2>1. CASE task[t].op = "startup" /\ task' = [task EXCEPT ![t] = Idle] /\ UNCHANGED ui
    BY <1>9, <2>1, IdleType, TaskChange DEF Inv, Words, ui
  <2>2. CASE End(t, status) BY <2>2, EndOne DEF Inv, Words
  <2> QED BY <2>1, <2>2 DEF Dismiss
<1>4. Flags' BY <1>2, <1>3, Zenon DEF Inv, Flags
<1>5. Numbers' BY <1>2 DEF Inv, Numbers
<1>6. Words' BY <1>2, <1>3 DEF Inv, Words
<1>7. Control'
  <2>1. Working(t)' BY <1>3 DEF Working, Busy
  <2>2. FailOpen' BY <1>2, <1>3 DEF FailOpen, Inv, Control
  <2> QED BY <1>1, <1>3, <2>1, <2>2, HandlerStep DEF Inv, Busy
<1>8. Device' BY <1>1, <1>2, <1>3, DeviceSame DEF Inv
<1> QED BY <1>4, <1>5, <1>6, <1>7, <1>8 DEF Inv

(* What is left of a handler ends.                                           *)
LEMMA RefreshIpInv == ASSUME Inv, NEW t \in Tasks, RefreshIp(t) PROVE Inv'
<1>1. UNCHANGED <<window, buttons, status, driver, conf, service, keys, asked, hub, stuck>>
  BY DEF RefreshIp, ui, host, net
<1>2. /\ task[t].pc = "refresh" /\ task' \in [Tasks -> TaskType] /\ task'[t] = Idle
      /\ \A u \in Tasks : u # t => task'[u] = task[u]
  BY IdleType, TaskChange DEF RefreshIp, Inv, Words
<1>3. \A u \in Tasks : task'[u] = task[u] \/ (~Busy(u) /\ task'[u] = Idle)
  BY <1>2 DEF Busy
<1>4. Flags' BY <1>1, Zenon DEF Inv, Flags
<1>5. Numbers' BY <1>1 DEF Inv, Numbers
<1>6. Words' BY <1>1, <1>2 DEF Inv, Words
<1>7. Control'
  <2>1. OneOperation' BY <1>1, <1>3, IdleType DEF OneOperation, Inv, Control, Busy
  <2>2. NoWindow' BY <1>1, <1>3 DEF NoWindow, Inv, Control
  <2>3. FailOpen' BY <1>1 DEF FailOpen, Inv, Control
  <2>4. \A u \in Tasks : Working(u)' BY <1>1, <1>3, IdleType DEF Working, Inv, Control, Busy
  <2>5. ButtonsBack' BY <1>1, <1>2, <1>3 DEF ButtonsBack, Inv, Control, Busy
  <2> QED BY <2>1, <2>2, <2>3, <2>4, <2>5 DEF Control
<1>8. Device' BY <1>1, <1>3, IdleType DEF Device, NewestKey, Asking, Inv
<1> QED BY <1>4, <1>5, <1>6, <1>7, <1>8 DEF Inv

-----------------------------------------------------------------------------
(* The steps of the user, and of what is around the program.                 *)

(* The program starts where nothing runs.                                    *)
LEMMA LaunchInv == ASSUME Inv, NEW t \in Tasks, Launch(t) PROVE Inv'
<1>1. ~window /\ \A u \in Tasks : task[u] = Idle BY DEF Launch, Inv, Control, NoWindow
<1>2. /\ UNCHANGED <<driver, conf, service, keys, asked, hub, stuck>>
      /\ window' = TRUE /\ buttons' = "none" /\ status' = "Starting"
  BY DEF Launch, host, net
<1>3. /\ task' \in [Tasks -> TaskType]
      /\ task'[t] = [op |-> "startup", pc |-> "driver", key |-> NoKey]
      /\ \A u \in Tasks : u # t => task'[u] = Idle
  <2>1. [op |-> "startup", pc |-> "driver", key |-> NoKey] \in TaskType
    BY DEF TaskType, Ops, Pcs
  <2> QED BY <1>1, <2>1, TaskChange DEF Launch, Inv, Words
<1>4. Flags' BY <1>2, Zenon DEF Inv, Flags
<1>5. Numbers' BY <1>2 DEF Inv, Numbers
<1>6. Words' BY <1>2, <1>3 DEF Inv, Words, Statuses
<1>7. Control'
  <2>1. OneOperation' BY <1>2, <1>3, IdleType DEF OneOperation, Busy
  <2>2. NoWindow' BY <1>2, Zenon DEF NoWindow
  <2>3. FailOpen' BY <1>2 DEF FailOpen
  <2>4. \A u \in Tasks : Working(u)' BY <1>2, <1>3, IdleType DEF Working, Busy, Failed
  <2>5. ButtonsBack'
    <3>1. Busy(t)' BY <1>3 DEF Busy
    <3> QED BY <3>1, Zenon DEF ButtonsBack
  <2> QED BY <2>1, <2>2, <2>3, <2>4, <2>5 DEF Control
<1>8. Device' BY <1>2, <1>3, IdleType DEF Device, NewestKey, Asking, Inv
<1> QED BY <1>4, <1>5, <1>6, <1>7, <1>8 DEF Inv

(* A button is clicked where nothing runs, and is disabled at once.          *)
LEMMA ClickInv ==
  ASSUME Inv, NEW t \in Tasks, NEW button \in {"connect", "disconnect"},
         NEW pc \in {"provision", "install", "teardown"},
         NEW text \in {"Connecting", "Disconnecting"}, Click(t, button, pc, text)
  PROVE  Inv'
<1>1. task[t] = Idle /\ buttons = button BY DEF Click
<1>2. window /\ \A u \in Tasks : ~Busy(u)
  BY <1>1 DEF Inv, Control, NoWindow, OneOperation
<1>3. /\ UNCHANGED <<window, driver, conf, service, keys, asked, hub, stuck>>
      /\ buttons' = "none" /\ status' = text
  BY DEF Click, host, net
<1>4. /\ task' \in [Tasks -> TaskType]
      /\ task'[t] = [op |-> button, pc |-> pc, key |-> NoKey]
      /\ \A u \in Tasks : u # t => task'[u] = task[u]
  <2>1. [op |-> button, pc |-> pc, key |-> NoKey] \in TaskType BY DEF TaskType, Ops, Pcs
  <2> QED BY <2>1, TaskChange DEF Click, Inv, Words
<1>5. Flags' BY <1>3, Zenon DEF Inv, Flags
<1>6. Numbers' BY <1>3 DEF Inv, Numbers
<1>7. Words' BY <1>3, <1>4 DEF Inv, Words, Statuses
<1>8. Control'
  <2>1. OneOperation' BY <1>2, <1>3, <1>4 DEF OneOperation, Busy
  <2>2. NoWindow' BY <1>2, <1>3, Zenon DEF NoWindow
  <2>3. FailOpen' BY <1>3 DEF FailOpen
  <2>4. \A u \in Tasks : Working(u)'
    <3> TAKE u \in Tasks
    <3>1. CASE u = t
      <4>1. /\ task'[t].op \in {"connect", "disconnect"} /\ task'[t].pc # "waitdown"
        BY <1>4
      <4>2. status' \notin Failed BY <1>3 DEF Failed
      <4> QED BY <3>1, <4>1, <4>2 DEF Working
    <3>2. CASE u # t BY <1>2, <1>4, <3>2 DEF Working, Busy
    <3> QED BY <3>1, <3>2
  <2>5. ButtonsBack'
    <3>1. Busy(t)' BY <1>4 DEF Busy
    <3> QED BY <3>1, Zenon DEF ButtonsBack
  <2> QED BY <2>1, <2>2, <2>3, <2>4, <2>5 DEF Control
<1>9. Device'
  <2>1. NewestKey' BY <1>3 DEF Device, NewestKey, Inv
  <2>2. \A u \in Tasks : Asking(u)' BY <1>2, <1>3, <1>4 DEF Asking, Busy
  <2> QED BY <2>1, <2>2 DEF Device
<1> QED BY <1>5, <1>6, <1>7, <1>8, <1>9 DEF Inv

(* The program ends: the file may stay partial, which is no key.             *)
LEMMA CloseInv == ASSUME Inv, Close PROVE Inv'
<1>1. /\ UNCHANGED <<driver, service, keys, asked, hub, stuck>> /\ conf' \in {conf, Partial}
      /\ window' = FALSE /\ buttons' = "none" /\ status' = "Closed"
  BY DEF Close, net
<1>2. task' \in [Tasks -> TaskType] /\ \A u \in Tasks : task'[u] = Idle
  <2>1. task' = [t \in Tasks |-> Idle] BY DEF Close
  <2> QED BY <2>1, IdleType
<1>3. Flags' BY <1>1, Zenon DEF Inv, Flags
<1>4. Numbers' BY <1>1 DEF Inv, Numbers
<1>5. Words' BY <1>1, <1>2 DEF Inv, Words, Statuses
<1>6. Control'
  <2>1. OneOperation' BY <1>1, <1>2, IdleType DEF OneOperation, Busy
  <2>2. NoWindow' BY <1>1, <1>2, Zenon DEF NoWindow
  <2>3. FailOpen' BY <1>1 DEF FailOpen
  <2>4. \A u \in Tasks : Working(u)' BY <1>2, IdleType DEF Working, Busy
  <2>5. ButtonsBack' BY <1>1, Zenon DEF ButtonsBack
  <2> QED BY <2>1, <2>2, <2>3, <2>4, <2>5 DEF Control
<1>7. Device'
  <2>1. NewestKey' BY <1>1 DEF Device, NewestKey, Inv, Keys, Partial
  <2>2. \A u \in Tasks : Asking(u)' BY <1>2, IdleType DEF Asking
  <2> QED BY <2>1, <2>2 DEF Device
<1> QED BY <1>3, <1>4, <1>5, <1>6, <1>7 DEF Inv

(* A service that is gone, or is to go once it stops, does not come back.    *)
LEMMA ServiceMovesInv == ASSUME Inv, ServiceMoves PROVE Inv'
<1>1. UNCHANGED <<task, window, buttons, status, driver, conf, keys, asked, hub, stuck>>
  BY DEF ServiceMoves, ui, net
<1>2. /\ service' \in {"absent", "starting", "running", "stopped", "ending", "leaving"}
      /\ service \in {"absent", "ending", "leaving"} =>
           service' \in {"absent", "ending", "leaving"}
  BY DEF ServiceMoves
<1>3. Flags' BY <1>1, Zenon DEF Inv, Flags
<1>4. Numbers' BY <1>1 DEF Inv, Numbers
<1>5. Words' BY <1>1, <1>2 DEF Inv, Words
<1>6. Control'
  <2>1. OneOperation' /\ NoWindow' /\ ButtonsBack'
    BY <1>1, Zenon DEF OneOperation, NoWindow, ButtonsBack, Inv, Control, Busy
  <2>2. FailOpen' BY <1>1, <1>2 DEF FailOpen, Inv, Control
  <2>3. \A u \in Tasks : Working(u)' BY <1>1, <1>2 DEF Working, Busy, Inv, Control
  <2> QED BY <2>1, <2>2, <2>3 DEF Control
<1>7. Device' BY <1>1 DEF Device, NewestKey, Asking, Inv
<1> QED BY <1>3, <1>4, <1>5, <1>6, <1>7 DEF Inv

(* Without a file there is nothing to agree on.                              *)
LEMMA ConfLostInv == ASSUME Inv, ConfLost PROVE Inv'
<1>1. /\ UNCHANGED <<task, window, buttons, status, driver, service, keys, asked, hub, stuck>>
      /\ conf' = NoConf
  BY DEF ConfLost, ui, net
<1>2. Flags' BY <1>1, Zenon DEF Inv, Flags
<1>3. Numbers' BY <1>1 DEF Inv, Numbers
<1>4. Words' BY <1>1 DEF Inv, Words
<1>5. Control'
  <2>1. OneOperation' /\ NoWindow' /\ ButtonsBack'
    BY <1>1, Zenon DEF OneOperation, NoWindow, ButtonsBack, Inv, Control, Busy
  <2>2. FailOpen' BY <1>1 DEF FailOpen, Inv, Control
  <2>3. \A u \in Tasks : Working(u)' BY <1>1 DEF Working, Busy, Inv, Control
  <2> QED BY <2>1, <2>2, <2>3 DEF Control
<1>6. Device'
  <2>1. NewestKey' BY <1>1 DEF NewestKey, Keys, NoConf
  <2>2. \A u \in Tasks : Asking(u)' BY <1>1 DEF Asking, Device, Inv
  <2> QED BY <2>1, <2>2 DEF Device
<1> QED BY <1>2, <1>3, <1>4, <1>5, <1>6 DEF Inv

(* The hub serves a key that is no newer than the newest.                    *)
LEMMA HubServesInv == ASSUME Inv, NEW k \in Keys, HubServes(k) PROVE Inv'
<1>1. /\ UNCHANGED <<task, window, buttons, status, driver, conf, service, keys, stuck>>
      /\ k \in asked /\ asked' = asked \ {k} /\ hub' = k
  BY DEF HubServes, ui, host
<1>2. k \in 1..keys /\ keys \in Nat BY <1>1, MaxKeysAssumption DEF Inv, Numbers
<1>3. Flags' BY <1>1, Zenon DEF Inv, Flags
<1>4. Numbers' BY <1>1, <1>2 DEF Inv, Numbers
<1>5. Words' BY <1>1 DEF Inv, Words
<1>6. Control'
  <2>1. OneOperation' /\ NoWindow' /\ ButtonsBack'
    BY <1>1, Zenon DEF OneOperation, NoWindow, ButtonsBack, Inv, Control, Busy
  <2>2. FailOpen' BY <1>1 DEF FailOpen, Inv, Control
  <2>3. \A u \in Tasks : Working(u)' BY <1>1 DEF Working, Busy, Inv, Control
  <2> QED BY <2>1, <2>2, <2>3 DEF Control
<1>7. Device'
  <2>1. NewestKey' BY <1>1, <1>2 DEF NewestKey, Device, Inv
  <2>2. \A u \in Tasks : Asking(u)' BY <1>1, <1>2 DEF Asking, Device, Inv
  <2> QED BY <2>1, <2>2 DEF Device
<1> QED BY <1>3, <1>4, <1>5, <1>6, <1>7 DEF Inv

-----------------------------------------------------------------------------
(* Every step keeps the invariant. *)
LEMMA NextInv == Inv /\ [Next]_vars => Inv'
<1> SUFFICES ASSUME Inv, [Next]_vars PROVE Inv' OBVIOUS
<1>1. ASSUME NEW t \in Tasks, Step(t) PROVE Inv'
  BY <1>1, EnsureWireGuardInv, FoundInv, AskInv, AskFailsInv, AnsweredInv, WriteConfInv,
     InstallInv, WaitUpInv, VerifyInv, UninstallInv, WaitDownInv, RefreshIpInv DEF Step
<1>2. ASSUME NEW t \in Tasks, Connect(t) \/ Disconnect(t) PROVE Inv'
  <2>1. CASE Disconnect(t) BY <2>1, ClickInv DEF Disconnect
  <2>2. CASE Connect(t)
    <3>1. PICK pc \in {"provision", "install"} : Click(t, "connect", pc, "Connecting")
      BY <2>2 DEF Connect
    <3> QED BY <3>1, ClickInv
  <2> QED BY <1>2, <2>1, <2>2
<1>3. ASSUME NEW t \in Tasks, Launch(t) \/ Dismiss(t) PROVE Inv'
  BY <1>3, LaunchInv, DismissInv
<1>4. CASE Close \/ ServiceMoves \/ ConfLost
  BY <1>4, CloseInv, ServiceMovesInv, ConfLostInv
<1>5. ASSUME NEW k \in Keys, HubServes(k) PROVE Inv' BY <1>5, HubServesInv
<1>6. CASE UNCHANGED vars
  <2>1. UNCHANGED <<task, window, buttons, status, driver, conf, service, keys, asked, hub, stuck>>
    BY <1>6 DEF vars
  <2>2. Flags' BY <2>1, Zenon DEF Inv, Flags
  <2>3. Numbers' /\ Words' BY <2>1 DEF Inv, Numbers, Words
  <2>4. Control' BY <2>1, Zenon
    DEF Inv, Control, OneOperation, NoWindow, ButtonsBack, FailOpen, Working, Busy
  <2>5. Device' BY <2>1, Zenon DEF Inv, Device, NewestKey, Asking
  <2> QED BY <2>2, <2>3, <2>4, <2>5 DEF Inv
<1> QED BY <1>1, <1>2, <1>3, <1>4, <1>5, <1>6 DEF Next

(* The invariant holds throughout. *)
LEMMA Invariant == Spec => []Inv
<1>1. Init => Inv BY InitInv
<1>2. Inv /\ [Next]_vars => Inv' BY NextInv
<1> QED BY <1>1, <1>2, PTL DEF Spec

(* Every variable keeps its type: no key is stored, asked for or known to    *)
(* the hub that was not generated.                                           *)
THEOREM TypeCorrect == Spec => []TypeOK
<1>1. Inv => TypeOK BY TypeParts DEF Inv
<1> QED BY <1>1, Invariant, PTL

(* Two of Startup, DoConnect and DoDisconnect never run at a time, however   *)
(* many RefreshIp are under way: SetButtons(false) comes before each await.  *)
THEOREM OneOperationHolds == Spec => []OneOperation
<1>1. Inv => OneOperation BY DEF Inv, Control
<1> QED BY <1>1, Invariant, PTL

(* However a connect fails, and after every disconnect, the service is gone, *)
(* or its removal has been accepted and it does not come back once it stops, *)
(* unless the removal itself failed.  That it has stopped is not claimed:    *)
(* nothing waits for that for more than 8 s.                                 *)
THEOREM FailOpenHolds == Spec => []FailOpen
<1>1. Inv => FailOpen BY DEF Inv, Control
<1> QED BY <1>1, Invariant, PTL

(* The hub never has a newer key than the file, whatever is lost, repeated   *)
(* or cut short.                                                             *)
THEOREM ConfIsPeerHolds == Spec => []ConfIsPeer
<1>1. Inv => ConfIsPeer BY DEF Inv, Device, NewestKey, ConfIsPeer
<1> QED BY <1>1, Invariant, PTL

(* When nothing runs a button is enabled, unless the setup failed.           *)
THEOREM ButtonsBackHolds == Spec => []ButtonsBack
<1>1. Inv => ButtonsBack BY DEF Inv, Control
<1> QED BY <1>1, Invariant, PTL
=============================================================================
