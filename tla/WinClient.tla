------------------------------ MODULE WinClient ------------------------------
(***************************************************************************)
(* The Windows client (windows-client/RPN.cs): Startup, DoConnect and       *)
(* DoDisconnect, the fail-open guard, and what they work on: the tunnel     *)
(* service, the configuration file and the key the hub has for this device. *)
(*                                                                         *)
(* A handler runs on the UI thread up to its next await, and what it awaits *)
(* runs beside it: each stretch between awaits is a step of its task, and   *)
(* the window, the service and the hub move in between.                     *)
(*                                                                         *)
(* A command that fails throws only if it also wrote to stderr (Run): it    *)
(* may fail silently.                                                       *)
(***************************************************************************)
EXTENDS Integers, FiniteSets

CONSTANTS
  Tasks,    \* slots for handlers that have been started and have not ended
  MaxKeys   \* bound of the model: keys generated

ASSUME MaxKeysAssumption == MaxKeys \in Nat
ASSUME TasksAssumption   == Tasks # {}

Keys    == 1..MaxKeys   \* keys of this device in the order they are generated
NoKey   == 0            \* the hub does not know the device
NoConf  == -1           \* there is no configuration file
Partial == -2           \* a configuration file that was not written to its end

VARIABLES
  task,     \* a slot's handler: [op, pc, key]
  window,   \* the program runs
  buttons,  \* the enabled button: "none", "connect" or "disconnect"
  status,   \* what the status label says
  driver,   \* wireguard.exe is installed
  conf,     \* the configuration file: the key in it, or NoConf, or Partial
  service,  \* the tunnel service: "absent", "starting", "running", "stopped"; "ending"
            \* while it runs, and "leaving" while it does not, when its removal has been
            \* accepted and it has not stopped yet
  keys,     \* keys generated so far
  asked,    \* keys whose request the hub may still serve
  hub,      \* the key the hub has for this device
  stuck     \* the service could not be removed by the last attempt (history)

vars == <<task, window, buttons, status, driver, conf, service, keys, asked, hub, stuck>>
ui   == <<window, buttons, status>>
host == <<driver, conf, service>>
net  == <<keys, asked, hub>>

Idle == [op |-> "none", pc |-> "idle", key |-> NoKey]

(* The service is there and Running.  One that is about to stop, or to start, *)
(* does not count, whatever it blocks.                                       *)
IsTunnelUp == service \in {"running", "ending"}

-----------------------------------------------------------------------------
Goto(t, pc) == task' = [task EXCEPT ![t].pc = pc]

(* SetButtons(true): one button, by what the tunnel is now. *)
ButtonsOn == buttons' = IF IsTunnelUp THEN "disconnect" ELSE "connect"

(* A handler ends with the buttons enabled and, beside what they start now,  *)
(* RefreshIp; or it shows a message box and waits for the user.              *)
End(t, text) == Goto(t, "refresh") /\ status' = text /\ ButtonsOn /\ UNCHANGED window
Show(t, text) == Goto(t, "box") /\ status' = text /\ UNCHANGED <<window, buttons>>

(* Mutant: the exception is reported and nothing torn down. *)
ThrowOnly(t) ==
  IF task[t].op = "startup" THEN Show(t, "Setup failed") ELSE End(t, "Connect failed")

(* An exception: Startup reports it, DoConnect tears down first. *)
Throw(t) ==
  IF task[t].op = "startup" THEN Show(t, "Setup failed")
  ELSE Goto(t, "teardown") /\ UNCHANGED ui

(* The program is started: MainForm, and Startup on Load. *)
Launch(t) ==
  /\ ~window /\ window' = TRUE /\ status' = "Starting" /\ buttons' = "none"
  /\ task' = [task EXCEPT ![t] = [op |-> "startup", pc |-> "driver", key |-> NoKey]]
  /\ UNCHANGED <<host, net, stuck>>

(* Mutant: the buttons are left enabled while the handler runs. *)
ClickOpen(t, button, pc, text) ==
  /\ task[t] = Idle /\ buttons = button /\ status' = text
  /\ task' = [task EXCEPT ![t] = [op |-> button, pc |-> pc, key |-> NoKey]]
  /\ UNCHANGED <<window, buttons, host, net, stuck>>

(* A handler begins with SetButtons(false). *)
Click(t, button, pc, text) ==
  /\ task[t] = Idle /\ buttons = button /\ buttons' = "none" /\ status' = text
  /\ task' = [task EXCEPT ![t] = [op |-> button, pc |-> pc, key |-> NoKey]]
  /\ UNCHANGED <<window, host, net, stuck>>

Connect(t) ==
  Click(t, "connect", IF conf = NoConf THEN "provision" ELSE "install", "Connecting")

Disconnect(t) == Click(t, "disconnect", "teardown", "Disconnecting")

(* The window is closed, the process killed or the machine restarted, at any *)
(* time: the handlers are lost, a file that is being written stays partial.  *)
Close ==
  /\ window /\ window' = FALSE /\ buttons' = "none" /\ status' = "Closed"
  /\ task' = [t \in Tasks |-> Idle]
  /\ conf' \in {conf} \cup {Partial : t \in {u \in Tasks : task[u].pc = "write"}}
  /\ UNCHANGED <<driver, service, net, stuck>>

-----------------------------------------------------------------------------
(* EnsureWireGuard: the installer runs once; it may end too late.            *)
EnsureWireGuard(t) ==
  /\ task[t].pc = "driver"
  /\ \/ driver' = TRUE /\ Goto(t, "provision") /\ UNCHANGED ui
     \/ ~driver /\ driver' \in BOOLEAN /\ Throw(t)
  /\ UNCHANGED <<conf, service, net, stuck>>

(* What follows EnsureProvisioned. *)
Provisioned(t) ==
  IF task[t].op = "startup"
  THEN End(t, IF IsTunnelUp THEN "Connected" ELSE "Ready")
  ELSE Goto(t, "install") /\ UNCHANGED ui

(* EnsureProvisioned, if there is a file already. *)
Found(t) ==
  /\ task[t].pc = "provision" /\ conf # NoConf
  /\ Provisioned(t)
  /\ UNCHANGED <<host, net, stuck>>

(* Mutant: a device that has a configuration is registered again. *)
AskAgain(t) ==
  /\ task[t].pc = "provision" /\ keys < MaxKeys
  /\ keys' = keys + 1 /\ asked' = asked \cup {keys + 1}
  /\ task' = [task EXCEPT ![t] = [op |-> @.op, pc |-> "asking", key |-> keys + 1]]
  /\ UNCHANGED <<ui, host, hub, stuck>>

(* ... and if not: a key is generated and the hub asked for an address, by   *)
(* device, so that it gives the device's address to this key (Provision).    *)
Ask(t) ==
  /\ task[t].pc = "provision" /\ conf = NoConf /\ keys < MaxKeys
  /\ keys' = keys + 1 /\ asked' = asked \cup {keys + 1}
  /\ task' = [task EXCEPT ![t] = [op |-> @.op, pc |-> "asking", key |-> keys + 1]]
  /\ UNCHANGED <<ui, host, hub, stuck>>

(* No key, no answer within 20 s, or one that cannot be used.  The request   *)
(* may have been lost, refused or served - or it may be served still.        *)
AskFails(t) ==
  /\ task[t].pc \in {"provision", "asking"}
  /\ task[t].pc = "provision" => conf = NoConf
  /\ asked' \in {asked, asked \ {task[t].key}}
  /\ Throw(t)
  /\ UNCHANGED <<host, keys, hub, stuck>>

(* The hub serves a request, waited for or not (external, see Provision). *)
HubServes(k) ==
  /\ k \in asked /\ asked' = asked \ {k} /\ hub' = k
  /\ UNCHANGED <<task, ui, host, keys, stuck>>

Answered(t) ==
  /\ task[t].pc = "asking" /\ task[t].key \notin asked
  /\ Goto(t, "write")
  /\ UNCHANGED <<ui, host, net, stuck>>

(* File.WriteAllText.  That there is a key is certain: Substring(0, 12) on   *)
(* the public key throws otherwise.                                          *)
WriteConf(t) ==
  /\ task[t].pc = "write"
  /\ \/ conf' = task[t].key /\ Provisioned(t)
     \/ conf' = Partial /\ Throw(t)
  /\ UNCHANGED <<driver, service, net, stuck>>

-----------------------------------------------------------------------------
(* DoConnect: /installtunnelservice, which replaces a service that does not  *)
(* run and starts it; it does not read the configuration itself.             *)
Install(t) ==
  /\ task[t].pc = "install"
  /\ \/ /\ conf \in Keys /\ service \in {"absent", "stopped"}
        /\ service' = "starting" /\ Goto(t, "waitup")
        /\ UNCHANGED ui
     \/ UNCHANGED service /\ Goto(t, "waitup") /\ UNCHANGED ui
     \/ UNCHANGED service /\ Throw(t)
  /\ UNCHANGED <<driver, conf, net, stuck>>

(* ... IsTunnelUp is polled for 8 s. *)
WaitUp(t) ==
  /\ task[t].pc = "waitup"
  /\ Goto(t, IF IsTunnelUp THEN "verify" ELSE "teardown")
  /\ UNCHANGED <<ui, host, net, stuck>>

(* ... InternetReachable asks for 15 s, through the tunnel or, should the    *)
(* service have died, around it.  If it fails the guard tears down.          *)
Verify(t) ==
  /\ task[t].pc = "verify"
  /\ \/ End(t, "Connected")
     \/ /\ task' = [task EXCEPT ![t] = [op |-> "guard", pc |-> "teardown", key |-> @.key]]
        /\ UNCHANGED ui
  /\ UNCHANGED <<host, net, stuck>>

(* SafeDisconnect: /uninstalltunnelservice, which fails without a service.   *)
(* An exception is caught and the waiting skipped.                           *)
Uninstall(t) ==
  /\ task[t].pc = "teardown"
  /\ \/ /\ service # "absent" /\ stuck' = FALSE
        /\ service' = CASE service = "stopped" -> "absent"
                        [] IsTunnelUp          -> "ending"
                        [] OTHER               -> "leaving"
     \/ stuck' = (service # "absent") /\ UNCHANGED service
  /\ Goto(t, "waitdown")
  /\ UNCHANGED <<ui, driver, conf, net>>

(* After SafeDisconnect. *)
TornDown(t) ==
  CASE task[t].op = "connect"    -> End(t, "Connect failed")
    [] task[t].op = "guard"      -> Show(t, "Internet restored")
    [] task[t].op = "disconnect" ->
         End(t, IF IsTunnelUp THEN "Disconnect failed" ELSE "Disconnected")

(* Mutant: polled until the tunnel is down. *)
WaitDownLong(t) ==
  /\ task[t].pc = "waitdown" /\ ~IsTunnelUp /\ TornDown(t)
  /\ UNCHANGED <<host, net, stuck>>

(* ... IsTunnelUp is polled for 8 s, then the handler goes on. *)
WaitDown(t) ==
  /\ task[t].pc = "waitdown" /\ TornDown(t)
  /\ UNCHANGED <<host, net, stuck>>

(* Mutant: the handler returns after the message box. *)
DismissOnly(t) ==
  /\ task[t].pc = "box" /\ task' = [task EXCEPT ![t] = Idle]
  /\ UNCHANGED <<ui, host, net, stuck>>

(* The message box is closed.  Startup ends there, with no button enabled.   *)
Dismiss(t) ==
  /\ task[t].pc = "box"
  /\ IF task[t].op = "startup"
     THEN task' = [task EXCEPT ![t] = Idle] /\ UNCHANGED ui
     ELSE End(t, status)
  /\ UNCHANGED <<host, net, stuck>>

(* RefreshIp, which writes no more than a label. *)
RefreshIp(t) ==
  /\ task[t].pc = "refresh" /\ task' = [task EXCEPT ![t] = Idle]
  /\ UNCHANGED <<ui, host, net, stuck>>

-----------------------------------------------------------------------------
(* The service starts, which takes a configuration (a partial one may do),   *)
(* stops, or starts again with the machine; what the service manager does    *)
(* after the commands of the client (external).  A service whose removal was *)
(* accepted is gone once it has stopped, and does not start again with the   *)
(* machine; one that was just starting may still get to run before.          *)
ServiceMoves ==
  /\ \E move \in {<<"starting", "running">>, <<"starting", "stopped">>,
                 <<"running", "stopped">>, <<"stopped", "starting">>,
                 <<"ending", "leaving">>, <<"leaving", "ending">>, <<"leaving", "absent">>} :
       /\ service = move[1] /\ service' = move[2]
       /\ move[2] \in {"running", "ending"} => conf # NoConf
  /\ UNCHANGED <<task, ui, driver, conf, net, stuck>>

(* The program's data are lost, as the comment on DeviceId has it (external). *)
ConfLost ==
  /\ conf # NoConf /\ conf' = NoConf
  /\ UNCHANGED <<task, ui, driver, service, net, stuck>>

-----------------------------------------------------------------------------
Init ==
  /\ task = [t \in Tasks |-> Idle]
  /\ window = FALSE /\ buttons = "none" /\ status = "Closed"
  /\ driver = FALSE /\ conf = NoConf /\ service = "absent"
  /\ keys = 0 /\ asked = {} /\ hub = NoKey /\ stuck = FALSE

Step(t) ==
  \/ EnsureWireGuard(t) \/ Found(t) \/ Ask(t) \/ AskFails(t) \/ Answered(t) \/ WriteConf(t)
  \/ Install(t) \/ WaitUp(t) \/ Verify(t) \/ Uninstall(t) \/ WaitDown(t)
  \/ RefreshIp(t)

Next ==
  \/ \E t \in Tasks : Launch(t) \/ Connect(t) \/ Disconnect(t) \/ Step(t) \/ Dismiss(t)
  \/ Close \/ \E k \in Keys : HubServes(k)
  \/ ServiceMoves \/ ConfLost

Spec == Init /\ [][Next]_vars

(* The steps that cannot be held up: requests and probes have a timeout,     *)
(* polling is counted, files are local.  Run waits for its command without a *)
(* timeout: that msiexec, wg or wireguard.exe ends is not assumed, nor is    *)
(* anything of users, services and the hub.                                  *)
Prompt(t) ==
  \/ driver /\ EnsureWireGuard(t)
  \/ task[t].pc = "asking" /\ AskFails(t)
  \/ Found(t) \/ Answered(t) \/ WriteConf(t)
  \/ WaitUp(t) \/ Verify(t) \/ WaitDown(t) \/ RefreshIp(t)

FairSpec == Spec /\ \A t \in Tasks : WF_vars(Prompt(t))

-----------------------------------------------------------------------------
Statuses == {"Closed", "Starting", "Setup failed", "Ready", "Connecting", "Connected",
             "Connect failed", "Internet restored", "Disconnecting", "Disconnect failed",
             "Disconnected"}

TypeOK ==
  /\ task \in [Tasks -> [op  : {"none", "startup", "connect", "guard", "disconnect"},
                         pc  : {"idle", "driver", "provision", "asking", "write", "install",
                                "waitup", "verify", "teardown", "waitdown", "box", "refresh"},
                         key : Keys \cup {NoKey}]]
  /\ window \in BOOLEAN /\ buttons \in {"none", "connect", "disconnect"}
  /\ status \in Statuses
  /\ driver \in BOOLEAN /\ conf \in Keys \cup {NoConf, Partial}
  /\ service \in {"absent", "starting", "running", "stopped", "ending", "leaving"}
  /\ keys \in 0..MaxKeys
  /\ asked \subseteq 1..keys /\ hub \in 0..keys
  /\ stuck \in BOOLEAN

Busy(t) == task[t].pc \notin {"idle", "refresh"}

(* Handlers never run side by side - but for the RefreshIp of those that are *)
(* over - and no button can start another while one runs, although each of   *)
(* them lets the UI thread go at every await.                                *)
OneOperation ==
  \A t \in Tasks : Busy(t) => buttons = "none" /\ \A u \in Tasks : Busy(u) => u = t

(* However a handler ended, the user can go on: with the tunnel stuck, a     *)
(* button left disabled would leave the machine offline.  Only a setup that  *)
(* failed leaves none.                                                       *)
ButtonsBack ==
  window /\ status # "Setup failed" /\ (\A t \in Tasks : ~Busy(t)) => buttons # "none"

(* Fail-open (RPN.cs:284), as far as the client can bring it about: when a   *)
(* connect has failed, or the user has disconnected, the tunnel service is   *)
(* gone, or its removal has been accepted and nothing brings it back once it *)
(* stops - whichever step failed, and whatever the service did meanwhile, as *)
(* long as the removal itself did not fail.  It may not have stopped yet:    *)
(* the client shows these messages after 8 s in any case.                    *)
FailOpen ==
  status \in {"Connect failed", "Internet restored", "Disconnected"} /\ ~stuck =>
    service \in {"absent", "ending", "leaving"}

(* A whole configuration file has the key the hub has for this device,       *)
(* through timeouts, lost answers, crashes and lost files; the exception is  *)
(* an older key, from a request served after the client had given it up.     *)
ConfIsPeer == conf \in Keys => hub \in 1..conf

(* Whatever fails, each handler ends, or waits for the user at a message box *)
(* - unless one of the commands it waits for never ends.                     *)
InCommand(t) == task[t].pc \in {"driver", "provision", "install", "teardown"}

OperationEnds ==
  \A t \in Tasks :
    task[t] # Idle ~> (task[t].pc \in {"idle", "box"} \/ []InCommand(t))
=============================================================================
