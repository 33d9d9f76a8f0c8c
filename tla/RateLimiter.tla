----------------------------- MODULE RateLimiter -----------------------------
(***************************************************************************)
(* The sliding-window rate limiter of the coordinator (rateLimiter.allow in *)
(* coordinator/coord.go), which guards the WebSocket hello (10 a minute per *)
(* address) and the registration of a customer (5 a minute per code).       *)
(* allow runs under r.mu and is one step; time passes between calls, or     *)
(* does not: two calls may read the same time.  A call that is granted is   *)
(* its number and its time.                                                 *)
(***************************************************************************)
EXTENDS Integers, FiniteSets

CONSTANTS
  Keys,       \* what calls are counted by: addresses and codes
  Window,     \* time.Minute
  MaxOf,      \* key -> maxPerMin of its callers
  MaxTime     \* bound of the model: the clock stops there

ASSUME WindowAssumption == Window \in Nat \ {0}
ASSUME MaxAssumption    == MaxOf \in [Keys -> Nat \ {0}]
ASSUME TimeAssumption   == MaxTime \in Nat

VARIABLES
  now,      \* the monotonic clock
  windows,  \* r.windows: key -> the calls it remembers
  granted   \* key -> all the calls that were granted (history)

vars == <<now, windows, granted>>

Call == [nr : Nat \ {0}, at : Nat]

(* A call is forgotten a tick before its minute is over. *)
CountsTooShort(t, at) == t > at - Window + 1

(* t.After(cutoff): calls a full minute ago no longer count. *)
Counts(t, at) == t > at - Window

(* The calls of a window that still count; the slice is filtered in place.   *)
Valid(k) == {c \in windows[k] : Counts(c.at, now)}

ThisCall(k) == [nr |-> Cardinality(granted[k]) + 1, at |-> now]

Tick ==
  /\ now < MaxTime
  /\ now' = now + 1
  /\ UNCHANGED <<windows, granted>>

(* allow returns TRUE, and the call is remembered. *)
Grant(k) ==
  /\ Cardinality(Valid(k)) < MaxOf[k]
  /\ windows' = [windows EXCEPT ![k] = Valid(k) \cup {ThisCall(k)}]
  /\ granted' = [granted EXCEPT ![k] = @ \cup {ThisCall(k)}]
  /\ UNCHANGED now

(* Refused calls are remembered as well. *)
RefuseCounted(k) ==
  /\ Cardinality(Valid(k)) >= MaxOf[k]
  /\ windows' = [windows EXCEPT ![k] = Valid(k) \cup {ThisCall(k)}]
  /\ UNCHANGED <<now, granted>>

(* allow returns FALSE; a refused call is not remembered. *)
Refuse(k) ==
  /\ Cardinality(Valid(k)) >= MaxOf[k]
  /\ windows' = [windows EXCEPT ![k] = Valid(k)]
  /\ UNCHANGED <<now, granted>>

Init ==
  /\ now = 0
  /\ windows = [k \in Keys |-> {}]
  /\ granted = [k \in Keys |-> {}]

Next == Tick \/ \E k \in Keys : Grant(k) \/ Refuse(k)

Spec == Init /\ [][Next]_vars

-----------------------------------------------------------------------------
(* The types; every remembered call is one that was granted, and a window    *)
(* never grows beyond the limit, refused calls or not.                       *)
TypeOK ==
  /\ now \in 0..MaxTime
  /\ windows \in [Keys -> SUBSET Call] /\ granted \in [Keys -> SUBSET Call]
  /\ \A k \in Keys : /\ IsFiniteSet(granted[k]) /\ windows[k] \subseteq granted[k]
                     /\ \A c \in granted[k] : c.at <= now
                     /\ Cardinality(windows[k]) <= MaxOf[k]

(* The calls granted in the minute that starts at t. *)
GrantedFrom(k, t) == {c \in granted[k] : t <= c.at /\ c.at < t + Window}

(* "10 hello/min per IP" (coordinator/README.md): however calls are spread,  *)
(* no minute, wherever it starts, has more grants than the limit.            *)
AtMostMaxPerWindow ==
  \A k \in Keys, t \in 0..MaxTime : Cardinality(GrantedFrom(k, t)) <= MaxOf[k]

(* Nobody is refused without having had the limit within the last minute:    *)
(* not because of calls that were refused, nor of grants that have expired.  *)
RefusedWithCause ==
  \A k \in Keys :
    Cardinality(Valid(k)) >= MaxOf[k] =>
      Cardinality({c \in granted[k] : c.at > now - Window}) >= MaxOf[k]
=============================================================================
