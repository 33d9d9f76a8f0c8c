------------------------- MODULE RateLimiterProofs -------------------------
(***************************************************************************)
(* Proofs about RateLimiter, for any keys, limits and length of the window. *)
(***************************************************************************)
EXTENDS RateLimiter, FiniteSetTheorems, TLAPS

(* What a grant leaves in the window: every call that was granted and still  *)
(* counts is remembered.  Without it a limit could be passed by a call that  *)
(* the limiter has forgotten too early.                                      *)
Remembers ==
  \A k \in Keys : \A c \in granted[k] : Counts(c.at, now) => c \in windows[k]

Inv == TypeOK /\ Remembers /\ AtMostMaxPerWindow

(* The calls that still count are finitely many, and at most the limit       *)
(* (allow's in-place filter).                                                *)
LEMMA ValidFinite ==
  ASSUME TypeOK, NEW k \in Keys
  PROVE  /\ Valid(k) \subseteq windows[k] /\ Valid(k) \subseteq granted[k]
         /\ IsFiniteSet(windows[k]) /\ IsFiniteSet(Valid(k))
         /\ Cardinality(Valid(k)) \in Nat
         /\ Cardinality(Valid(k)) <= Cardinality(windows[k])
         /\ Cardinality(granted[k]) \in Nat /\ Cardinality(windows[k]) \in Nat
  <1>1. IsFiniteSet(granted[k]) /\ windows[k] \subseteq granted[k]
    BY DEF TypeOK
  <1>2. Valid(k) \subseteq windows[k]
    BY DEF Valid
  <1>3. IsFiniteSet(windows[k]) /\ IsFiniteSet(Valid(k))
    BY <1>1, <1>2, FS_Subset
  <1>4. Cardinality(Valid(k)) <= Cardinality(windows[k])
    BY <1>2, <1>3, FS_Subset
  <1> QED BY <1>1, <1>2, <1>3, <1>4, FS_CardinalityType

(* One more call is at most one more. *)
LEMMA OneMore ==
  ASSUME NEW S, IsFiniteSet(S), NEW x
  PROVE  /\ IsFiniteSet(S \cup {x})
         /\ Cardinality(S \cup {x}) <= Cardinality(S) + 1
         /\ Cardinality(S) \in Nat /\ Cardinality(S \cup {x}) \in Nat
  <1>1. IsFiniteSet(S \cup {x}) /\ Cardinality(S) \in Nat /\ Cardinality(S \cup {x}) \in Nat
    BY FS_AddElement, FS_CardinalityType
  <1>2. Cardinality(S \cup {x}) = Cardinality(S) \/ Cardinality(S \cup {x}) = Cardinality(S) + 1
    BY FS_AddElement
  <1> QED BY <1>1, <1>2

(* A new limiter satisfies the invariant. *)
LEMMA InitHolds == Init => Inv
  <1> SUFFICES ASSUME Init PROVE Inv
    OBVIOUS
  <1>1. \A k \in Keys : granted[k] = {} /\ windows[k] = {}
    BY DEF Init
  <1>2. IsFiniteSet({}) /\ Cardinality({}) = 0
    BY FS_EmptySet
  <1>3. \A k \in Keys : MaxOf[k] \in Nat \ {0}
    BY MaxAssumption
  <1>4. TypeOK
    BY <1>1, <1>2, <1>3, TimeAssumption DEF Init, TypeOK
  <1>5. \A k \in Keys, t \in 0..MaxTime : GrantedFrom(k, t) = {}
    BY <1>1 DEF GrantedFrom
  <1>6. AtMostMaxPerWindow
    BY <1>2, <1>3, <1>5 DEF AtMostMaxPerWindow
  <1> QED BY <1>1, <1>4, <1>6 DEF Inv, Remembers

(* The clock: nothing that was forgotten counts again. *)
LEMMA TickKeeps == Inv /\ Tick => Inv'
  <1> SUFFICES ASSUME Inv, Tick PROVE Inv'
    OBVIOUS
  <1> USE DEF Inv
  <1>0. now \in Nat /\ now' = now + 1 /\ now' \in 0..MaxTime
    BY TimeAssumption DEF TypeOK, Tick
  <1>1. windows' = windows /\ granted' = granted
    BY DEF Tick
  <1>a. \A k \in Keys : \A c \in granted[k] : c.at \in Nat
    BY DEF TypeOK, Call
  <1>2. TypeOK'
    BY <1>0, <1>1, <1>a DEF TypeOK
  <1>3. Remembers'
    BY <1>0, <1>1, <1>a, WindowAssumption DEF Remembers, Counts
  <1>4. AtMostMaxPerWindow'
    BY <1>1 DEF AtMostMaxPerWindow, GrantedFrom
  <1> QED BY <1>2, <1>3, <1>4

(* A refused call only filters the window. *)
LEMMA RefuseKeeps == ASSUME NEW k \in Keys PROVE Inv /\ Refuse(k) => Inv'
  <1> SUFFICES ASSUME Inv, Refuse(k) PROVE Inv'
    OBVIOUS
  <1> USE DEF Inv
  <1>1. now' = now /\ granted' = granted
    BY DEF Refuse
  <1>2. windows' = [windows EXCEPT ![k] = Valid(k)]
    BY DEF Refuse
  <1>3. \A l \in Keys : windows'[l] = IF l = k THEN Valid(k) ELSE windows[l]
    BY <1>2 DEF TypeOK
  <1>4. /\ Valid(k) \subseteq windows[k] /\ Valid(k) \subseteq granted[k]
        /\ Cardinality(Valid(k)) \in Nat /\ Cardinality(windows[k]) \in Nat
        /\ Cardinality(Valid(k)) <= Cardinality(windows[k])
    BY ValidFinite
  <1>5. \A l \in Keys : MaxOf[l] \in Nat
    BY MaxAssumption
  <1>6. windows' \in [Keys -> SUBSET Call]
    BY <1>2, <1>4 DEF TypeOK
  <1>7. \A l \in Keys : Cardinality(windows'[l]) <= MaxOf[l]
    BY <1>3, <1>4, <1>5 DEF TypeOK
  <1>8. TypeOK'
    BY <1>1, <1>3, <1>4, <1>6, <1>7 DEF TypeOK
  <1>9. Remembers'
    BY <1>1, <1>3 DEF Remembers, Valid
  <1>10. AtMostMaxPerWindow'
    BY <1>1 DEF AtMostMaxPerWindow, GrantedFrom
  <1> QED BY <1>8, <1>9, <1>10

(* A grant: every call of a minute that the new one is in still counts, so   *)
(* that there were fewer than the limit.                                     *)
LEMMA GrantKeeps == ASSUME NEW k \in Keys PROVE Inv /\ Grant(k) => Inv'
  <1> SUFFICES ASSUME Inv, Grant(k) PROVE Inv'
    OBVIOUS
  <1> USE DEF Inv
  <1> DEFINE new == ThisCall(k)
  <1>1. now' = now /\ now \in Nat /\ now \in 0..MaxTime
    BY TimeAssumption DEF Grant, TypeOK
  <1>2. windows' = [windows EXCEPT ![k] = Valid(k) \cup {new}]
    BY DEF Grant
  <1>3. granted' = [granted EXCEPT ![k] = granted[k] \cup {new}]
    BY DEF Grant
  <1>4. /\ Valid(k) \subseteq windows[k] /\ Valid(k) \subseteq granted[k]
        /\ IsFiniteSet(Valid(k)) /\ Cardinality(Valid(k)) \in Nat
        /\ Cardinality(granted[k]) \in Nat
    BY ValidFinite
  <1>5. new \in Call /\ new.at = now
    BY <1>1, <1>4 DEF ThisCall, Call
  <1> HIDE DEF new
  <1>6. \A l \in Keys : /\ windows'[l] = IF l = k THEN Valid(k) \cup {new} ELSE windows[l]
                        /\ granted'[l] = IF l = k THEN granted[k] \cup {new} ELSE granted[l]
    BY <1>2, <1>3 DEF TypeOK
  <1>7. \A l \in Keys : MaxOf[l] \in Nat
    BY MaxAssumption
  <1>8. Cardinality(Valid(k)) + 1 <= MaxOf[k]
    BY <1>4, <1>7 DEF Grant
  <1>9. TypeOK'
    <2>1. windows' \in [Keys -> SUBSET Call] /\ granted' \in [Keys -> SUBSET Call]
      BY <1>2, <1>3, <1>4, <1>5 DEF TypeOK
    <2>0. /\ Cardinality(Valid(k) \cup {new}) <= Cardinality(Valid(k)) + 1
          /\ Cardinality(Valid(k) \cup {new}) \in Nat
      BY OneMore, <1>4
    <2>2. Cardinality(Valid(k) \cup {new}) <= MaxOf[k]
      BY <2>0, <1>4, <1>7, <1>8
    <2>3. IsFiniteSet(granted[k] \cup {new})
      BY OneMore DEF TypeOK
    <2>4. \A l \in Keys : /\ IsFiniteSet(granted'[l]) /\ windows'[l] \subseteq granted'[l]
                          /\ Cardinality(windows'[l]) <= MaxOf[l]
      BY <2>2, <2>3, <1>4, <1>6 DEF TypeOK
    <2>5. \A l \in Keys : \A c \in granted'[l] : c.at <= now'
      BY <1>1, <1>5, <1>6 DEF TypeOK
    <2> QED BY <1>1, <2>1, <2>4, <2>5 DEF TypeOK
  <1>10. Remembers'
    <2> SUFFICES ASSUME NEW l \in Keys, NEW c \in granted'[l], Counts(c.at, now)
                 PROVE  c \in windows'[l]
      BY <1>1 DEF Remembers, Counts
    <2> QED BY <1>6 DEF Remembers, Valid
  <1>11. AtMostMaxPerWindow'
    <2> SUFFICES ASSUME NEW l \in Keys, NEW t \in 0..MaxTime
                 PROVE  Cardinality(GrantedFrom(l, t)') <= MaxOf[l]
      BY DEF AtMostMaxPerWindow
    <2>1. CASE l # k
      <3>1. GrantedFrom(l, t)' = GrantedFrom(l, t)
        BY <2>1, <1>6 DEF GrantedFrom
      <3> QED BY <3>1 DEF AtMostMaxPerWindow
    <2>2. CASE l = k /\ ~(t <= now /\ now < t + Window)
      <3>1. GrantedFrom(k, t)' = GrantedFrom(k, t)
        BY <2>2, <1>5, <1>6 DEF GrantedFrom
      <3> QED BY <2>2, <3>1 DEF AtMostMaxPerWindow
    <2>3. CASE l = k /\ t <= now /\ now < t + Window
      <3>0. \A c \in granted[k] : c.at \in Nat
        BY DEF TypeOK, Call
      <3>1. GrantedFrom(k, t) \subseteq Valid(k)
        BY <2>3, <3>0, <1>1, WindowAssumption DEF GrantedFrom, Valid, Remembers, Counts
      <3>2. GrantedFrom(k, t)' \subseteq Valid(k) \cup {new}
        BY <3>1, <1>6 DEF GrantedFrom
      <3>3. /\ IsFiniteSet(Valid(k) \cup {new})
            /\ Cardinality(Valid(k) \cup {new}) \in Nat
            /\ Cardinality(Valid(k) \cup {new}) <= Cardinality(Valid(k)) + 1
        BY OneMore, <1>4
      <3>4. /\ Cardinality(GrantedFrom(k, t)') <= Cardinality(Valid(k) \cup {new})
            /\ IsFiniteSet(GrantedFrom(k, t)')
        BY <3>2, <3>3, FS_Subset
      <3>5. Cardinality(GrantedFrom(k, t)') \in Nat
        BY <3>4, FS_CardinalityType
      <3> QED BY <2>3, <3>3, <3>4, <3>5, <1>4, <1>7, <1>8
    <2> QED BY <2>1, <2>2, <2>3
  <1> QED BY <1>9, <1>10, <1>11

(* The invariant of the limiter. *)
LEMMA Invariance == Spec => []Inv
  <1>1. Inv /\ UNCHANGED vars => Inv'
    BY DEF Inv, TypeOK, Remembers, AtMostMaxPerWindow, GrantedFrom, Counts, vars
  <1>2. Inv /\ [Next]_vars => Inv'
    BY <1>1, TickKeeps, RefuseKeeps, GrantKeeps DEF Next
  <1> QED BY InitHolds, <1>2, PTL DEF Spec

(* What r.windows holds: only granted calls, never more than the limit.      *)
THEOREM TypeCorrect == Spec => []TypeOK
  <1>1. Inv => TypeOK
    BY DEF Inv
  <1> QED BY Invariance, <1>1, PTL

(* The promise of the limiter: no minute has more grants than the limit.     *)
THEOREM LimitHolds == Spec => []AtMostMaxPerWindow
  <1>1. Inv => AtMostMaxPerWindow
    BY DEF Inv
  <1> QED BY Invariance, <1>1, PTL

(* ... and a call is refused only if the minute before it had the limit.     *)
THEOREM RefusalsHaveCause == Spec => []RefusedWithCause
  <1>1. TypeOK => RefusedWithCause
    <2> SUFFICES ASSUME TypeOK, NEW k \in Keys, Cardinality(Valid(k)) >= MaxOf[k]
                 PROVE  Cardinality({c \in granted[k] : c.at > now - Window}) >= MaxOf[k]
      BY DEF RefusedWithCause
    <2> DEFINE recent == {c \in granted[k] : c.at > now - Window}
    <2>1. Valid(k) \subseteq recent
      BY ValidFinite DEF Valid, Counts
    <2>2. recent \subseteq granted[k] /\ IsFiniteSet(granted[k])
      BY DEF TypeOK
    <2>3. IsFiniteSet(recent)
      BY <2>2, FS_Subset
    <2>4. Cardinality(Valid(k)) <= Cardinality(recent)
      BY <2>1, <2>3, FS_Subset
    <2>5. /\ Cardinality(Valid(k)) \in Nat /\ Cardinality(recent) \in Nat
          /\ MaxOf[k] \in Nat
      BY <2>3, ValidFinite, FS_CardinalityType, MaxAssumption
    <2> QED BY <2>4, <2>5
  <1> QED BY TypeCorrect, <1>1, PTL
=============================================================================
