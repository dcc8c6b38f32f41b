--------------------------- MODULE SpiServerProofs ---------------------------
(***************************************************************************)
(* Proofs about SpiServer, for any finite set of users and any number of   *)
(* sessions, devices and faults.                                           *)
(***************************************************************************)
EXTENDS SpiServer, FiniteSetTheorems, WellFoundedInduction, TLAPS

-------------------------------------------------------------------------------
(* What find_free_session returns.                                         *)

LEMMA HandleRange == NoHandle \notin Handles /\ Handles \subseteq Nat
BY SpiServerAssumption DEF Handles, NoHandle

LEMMA FirstFree == FreeSessions # {} => Lowest(FreeSessions) \in FreeSessions
<1> SUFFICES ASSUME FreeSessions # {} PROVE Lowest(FreeSessions) \in FreeSessions
  OBVIOUS
<1> DEFINE R == {p \in Nat \X Nat : p[1] < p[2]}
<1>1. IsWellFoundedOn(R, Nat)
  BY NatLessThanWellFounded DEF OpToRel
<1>2. FreeSessions \subseteq Nat
  BY HandleRange DEF FreeSessions
<1>3. \E i \in FreeSessions : \A j \in FreeSessions : ~(<<j, i>> \in R)
  <2> HIDE DEF R
  <2> QED
    BY <1>1, <1>2, WFMin
<1>4. PICK i \in FreeSessions : \A j \in FreeSessions : ~(<<j, i>> \in R)
  BY <1>3
<1>5. \A j \in FreeSessions : i <= j
  <2> SUFFICES ASSUME NEW j \in FreeSessions PROVE i <= j
    OBVIOUS
  <2>1. i \in Nat /\ j \in Nat
    BY <1>2, <1>4
  <2>2. ~(j < i)
    BY <1>4, <2>1
  <2> QED
    BY <2>1, <2>2
<1> QED
  BY <1>4, <1>5 DEF Lowest

-------------------------------------------------------------------------------
(* Types and ownership of the sessions.                                    *)

LEMMA FaultOK == TypeOK /\ Fault => faults' \in 0..MaxFaults /\ faults' = faults + 1
BY SpiServerAssumption DEF TypeOK, Fault

LEMMA InitSound == Init => TypeOK /\ SoundSessions
<1>1. 0 \in 0..MaxFaults /\ 0 \in Devices
  BY SpiServerAssumption DEF Devices
<1> QED
  BY <1>1 DEF Init, TypeOK, SoundSessions

LEMMA OpenSound ==
    ASSUME TypeOK, SoundSessions, NEW u \in Users, NEW d \in Devices, Open(u, d)
    PROVE  TypeOK' /\ SoundSessions'
<1> DEFINE h == Lowest(FreeSessions)
<1>1. h \in Handles /\ h \notin active
  BY FirstFree DEF Open, Fill, FreeSessions
<1>2. u \notin sound
  BY HandleRange DEF Open, SoundSessions, TypeOK
<1> HIDE DEF h
<1>3. CASE Learn(u) /\ sound' = sound \cup {u} /\ UNCHANGED faults
  BY <1>1, <1>2, <1>3 DEF Open, Fill, Learn, TypeOK, SoundSessions, h
<1>4. CASE Fault /\ UNCHANGED <<claim, sound>>
  <2>1. TypeOK'
    BY <1>1, <1>4, FaultOK DEF Open, Fill, TypeOK, h
  <2> QED
    BY <1>1, <1>2, <1>4, <2>1 DEF Open, Fill, TypeOK, SoundSessions, h
<1> QED
  BY <1>3, <1>4 DEF Open

LEMMA CloseSound ==
    ASSUME TypeOK, SoundSessions, NEW u \in Users, Close(u)
    PROVE  TypeOK' /\ SoundSessions'
<1>1. TypeOK'
  BY FaultOK DEF Close, Free, Losers, TypeOK
<1> QED
  BY <1>1 DEF Close, Free, Losers, TypeOK, SoundSessions

LEMMA NextSound == TypeOK /\ SoundSessions /\ [Next]_vars => TypeOK' /\ SoundSessions'
<1> SUFFICES ASSUME TypeOK, SoundSessions, [Next]_vars PROVE TypeOK' /\ SoundSessions'
  OBVIOUS
<1>1. ASSUME NEW u \in Users, NEW d \in Devices, OpenRefused(u, d)
      PROVE  TypeOK' /\ SoundSessions'
  BY <1>1, HandleRange DEF OpenRefused, TypeOK, SoundSessions
<1>2. ASSUME NEW u \in Users, Refused(u) PROVE TypeOK' /\ SoundSessions'
  BY <1>2 DEF Refused, TypeOK, SoundSessions
<1>3. ASSUME NEW u \in Users, Restart(u) PROVE TypeOK' /\ SoundSessions'
  BY <1>3, FaultOK DEF Restart, TypeOK, SoundSessions
<1>4. CASE UNCHANGED vars
  BY <1>4 DEF vars, TypeOK, SoundSessions
<1> QED
  BY <1>1, <1>2, <1>3, <1>4, OpenSound, CloseSound DEF Next

LEMMA SoundHolds == Spec => [](TypeOK /\ SoundSessions)
BY InitSound, NextSound, PTL DEF Spec

(* For every size of the table and every number of users and faults, the   *)
(* session table and what the users hold keep their types: every handle    *)
(* the server hands out is one of its table.                               *)
THEOREM TypeCorrect == Spec => []TypeOK
BY SoundHolds, PTL

(* For every size of the table and every number of users and faults, a     *)
(* user whose session nobody closed has it to itself, with its own device. *)
THEOREM SessionsSound == Spec => []SoundSessions
BY SoundHolds, PTL

-------------------------------------------------------------------------------
(* Stale handles and orphaned sessions, counted.                           *)

LEMMA DamageFinite ==
    ASSUME TypeOK
    PROVE  /\ IsFiniteSet(Stale) /\ IsFiniteSet(Orphans)
           /\ Cardinality(Stale) \in Nat /\ Cardinality(Orphans) \in Nat
<1>1. IsFiniteSet(Handles)
  BY SpiServerAssumption, FS_Interval DEF Handles
<1>2. Stale \in SUBSET Users /\ Orphans \in SUBSET Handles
  BY DEF Stale, Orphans, TypeOK
<1>3. IsFiniteSet(Stale) /\ IsFiniteSet(Orphans)
  BY <1>1, <1>2, SpiServerAssumption, FS_Subset
<1> QED
  BY <1>3, FS_CardinalityType

(* Adding at most one element to a set, taking at least one away, both.    *)
LEMMA GrowByOne ==
    ASSUME NEW S, NEW T, NEW x, IsFiniteSet(S), T \subseteq S \cup {x}
    PROVE  Cardinality(T) \in Nat /\ Cardinality(T) <= Cardinality(S) + 1
<1>1. Cardinality(S) \in Nat
  BY FS_CardinalityType
<1>2. IsFiniteSet(S \cup {x}) /\ Cardinality(S \cup {x}) <= Cardinality(S) + 1
  BY <1>1, FS_AddElement
<1>3. Cardinality(T) <= Cardinality(S \cup {x}) /\ IsFiniteSet(T)
  BY <1>2, FS_Subset
<1> QED
  BY <1>1, <1>2, <1>3, FS_CardinalityType

LEMMA ShrinkByOne ==
    ASSUME NEW S, NEW T, NEW x \in S, IsFiniteSet(S), T \subseteq S \ {x}
    PROVE  Cardinality(T) \in Nat /\ Cardinality(T) <= Cardinality(S) - 1
<1>1. IsFiniteSet(S \ {x}) /\ Cardinality(S \ {x}) = Cardinality(S) - 1
  BY FS_RemoveElement
<1> QED
  BY <1>1, FS_Subset, FS_CardinalityType

LEMMA SwapOne ==
    ASSUME NEW S, NEW T, NEW x \in S, NEW y, IsFiniteSet(S), T \subseteq (S \ {x}) \cup {y}
    PROVE  Cardinality(T) \in Nat /\ Cardinality(T) <= Cardinality(S)
<1>1. IsFiniteSet(S \ {x}) /\ Cardinality(S \ {x}) = Cardinality(S) - 1
  BY FS_RemoveElement
<1>2. Cardinality(T) \in Nat /\ Cardinality(T) <= Cardinality(S \ {x}) + 1
  BY <1>1, GrowByOne
<1> QED
  BY <1>1, <1>2, FS_CardinalityType

(* Each step raises the damage by no more than its faults.                 *)
LEMMA OpenDamage ==
    ASSUME TypeOK, SoundSessions, DamageBounded, NEW u \in Users, NEW d \in Devices, Open(u, d)
    PROVE  DamageBounded'
<1> DEFINE h == Lowest(FreeSessions)
<1>1. h \in Handles /\ h \notin active
  BY FirstFree DEF Open, Fill, FreeSessions
<1>2. u \notin sound
  BY HandleRange DEF Open, SoundSessions, TypeOK
<1>3. active' = active \cup {h}
  BY DEF Open, Fill
<1> HIDE DEF h
<1>4. CASE Learn(u) /\ sound' = sound \cup {u} /\ UNCHANGED faults
  <2>1. claim' = [claim EXCEPT ![u] = h]
    BY <1>4 DEF Learn, h
  <2>2. Stale' = Stale
    BY <1>1, <1>2, <1>4, <2>1, HandleRange DEF Open, Stale, TypeOK
  <2>3. {claim'[v] : v \in sound'} = {claim[v] : v \in sound} \cup {h}
    BY <1>2, <1>4, <2>1 DEF TypeOK
  <2>4. Orphans' = Orphans
    BY <1>1, <1>3, <2>3 DEF Orphans
  <2> QED
    BY <1>4, <2>2, <2>4 DEF DamageBounded
<1>5. CASE Fault /\ UNCHANGED <<claim, sound>>
  <2>1. Stale' = Stale
    BY <1>5 DEF Stale
  <2>2. Orphans' \subseteq Orphans \cup {h}
    BY <1>3, <1>5 DEF Orphans
  <2>3. Cardinality(Orphans') \in Nat /\ Cardinality(Orphans') <= Cardinality(Orphans) + 1
    BY <2>2, DamageFinite, GrowByOne
  <2> QED
    BY <1>5, <2>1, <2>3, DamageFinite, FaultOK DEF DamageBounded, TypeOK
<1> QED
  BY <1>4, <1>5 DEF Open

(* A close whose session had a sound holder hands the staleness on.        *)
LEMMA CloseDamage ==
    ASSUME TypeOK, SoundSessions, DamageBounded, NEW u \in Users, Close(u)
    PROVE  DamageBounded'
<1> DEFINE h == claim[u]
<1>1. h \in active /\ active' = active \ {h} /\ sound' = sound \ Losers(h)
  BY DEF Close, Free
<1>2. h # NoHandle
  BY <1>1, HandleRange DEF TypeOK
<1> HIDE DEF h
<1>3. \/ claim' = [claim EXCEPT ![u] = NoHandle] /\ faults' = faults
      \/ claim' = claim /\ faults' = faults + 1
  BY FaultOK DEF Close
<1>4. Losers(h) = {} \/ \E w \in sound : claim[w] = h /\ Losers(h) = {w}
  BY DEF Losers, SoundSessions
<1>5. CASE Losers(h) = {}
  <2>1. h \in Orphans /\ u \notin sound
    BY <1>1, <1>5 DEF Orphans, Losers, h
  <2>2. Orphans' \subseteq Orphans \ {h}
    BY <1>1, <1>3, <1>5, <2>1 DEF Orphans, TypeOK
  <2>3. Stale' \subseteq Stale
    BY <1>1, <1>3, <1>5 DEF Stale, TypeOK
  <2>4. Cardinality(Orphans') \in Nat /\ Cardinality(Orphans') <= Cardinality(Orphans) - 1
    BY <2>1, <2>2, DamageFinite, ShrinkByOne
  <2>5. Cardinality(Stale') \in Nat /\ Cardinality(Stale') <= Cardinality(Stale)
    BY <2>3, DamageFinite, FS_Subset, FS_CardinalityType
  <2>6. faults \in Nat /\ faults' >= faults
    BY <1>3, SpiServerAssumption DEF TypeOK
  <2> QED
    BY <1>3, <2>4, <2>5, <2>6, DamageFinite, SpiServerAssumption DEF DamageBounded, TypeOK
<1>6. ASSUME NEW w \in sound, claim[w] = h, Losers(h) = {w}
      PROVE  DamageBounded'
  <2>1. Orphans' = Orphans
    <3>1. sound' = sound \ {w} /\ u \notin sound'
      BY <1>1, <1>6 DEF Losers, h
    <3>2. {claim'[v] : v \in sound'} = {claim[v] : v \in sound} \ {h}
      BY <1>3, <1>6, <3>1 DEF SoundSessions, TypeOK
    <3> QED
      BY <1>1, <1>6, <3>2 DEF Orphans
  <2>2. CASE claim' = [claim EXCEPT ![u] = NoHandle] /\ faults' = faults
    <3>1. CASE u \in sound
      <4>1. u = w
        BY <1>6, <3>1 DEF Losers, h
      <4>2. Stale' \subseteq Stale
        BY <1>1, <1>6, <2>2, <4>1 DEF Stale, TypeOK
      <4>3. Cardinality(Stale') \in Nat /\ Cardinality(Stale') <= Cardinality(Stale)
        BY <4>2, DamageFinite, FS_Subset, FS_CardinalityType
      <4> QED
        BY <2>1, <2>2, <4>3, DamageFinite, SpiServerAssumption DEF DamageBounded, TypeOK
    <3>2. CASE u \notin sound
      <4>1. u \in Stale
        BY <1>2, <3>2 DEF Stale, h
      <4>2. Stale' \subseteq (Stale \ {u}) \cup {w}
        BY <1>1, <1>6, <2>2, <3>2 DEF Stale, TypeOK
      <4>3. Cardinality(Stale') \in Nat /\ Cardinality(Stale') <= Cardinality(Stale)
        BY <4>1, <4>2, DamageFinite, SwapOne
      <4> QED
        BY <2>1, <2>2, <4>3, DamageFinite, SpiServerAssumption DEF DamageBounded, TypeOK
    <3> QED
      BY <3>1, <3>2
  <2>3. CASE claim' = claim /\ faults' = faults + 1
    <3>1. Stale' \subseteq Stale \cup {w}
      BY <1>1, <1>6, <2>3 DEF Stale
    <3>2. Cardinality(Stale') \in Nat /\ Cardinality(Stale') <= Cardinality(Stale) + 1
      BY <3>1, DamageFinite, GrowByOne
    <3> QED
      BY <2>1, <2>3, <3>2, DamageFinite, SpiServerAssumption DEF DamageBounded, TypeOK
  <2> QED
    BY <1>3, <2>2, <2>3
<1> QED
  BY <1>4, <1>5, <1>6

LEMMA RefusedDamage ==
    ASSUME TypeOK, SoundSessions, DamageBounded, NEW u \in Users, Refused(u)
    PROVE  DamageBounded'
<1>1. u \notin sound
  BY DEF Refused, SoundSessions
<1>2. Orphans' = Orphans
  BY <1>1 DEF Refused, Orphans, TypeOK
<1>3. Stale' \subseteq Stale
  BY <1>1 DEF Refused, Stale, TypeOK
<1>4. Cardinality(Stale') \in Nat /\ Cardinality(Stale') <= Cardinality(Stale)
  BY <1>3, DamageFinite, FS_Subset, FS_CardinalityType
<1> QED
  BY <1>2, <1>4, DamageFinite, SpiServerAssumption DEF Refused, DamageBounded, TypeOK

LEMMA RestartDamage ==
    ASSUME TypeOK, SoundSessions, DamageBounded, NEW u \in Users, Restart(u)
    PROVE  DamageBounded'
<1>1. Orphans' \subseteq Orphans \cup {claim[u]}
  BY DEF Restart, Orphans, TypeOK
<1>2. Stale' \subseteq Stale
  BY DEF Restart, Stale, TypeOK
<1>3. Cardinality(Orphans') \in Nat /\ Cardinality(Orphans') <= Cardinality(Orphans) + 1
  BY <1>1, DamageFinite, GrowByOne
<1>4. Cardinality(Stale') \in Nat /\ Cardinality(Stale') <= Cardinality(Stale)
  BY <1>2, DamageFinite, FS_Subset, FS_CardinalityType
<1>5. faults \in Nat /\ faults' = faults + 1
  BY FaultOK DEF Restart, TypeOK
<1> QED
  BY <1>3, <1>4, <1>5, DamageFinite DEF DamageBounded

LEMMA NextDamage ==
    TypeOK /\ SoundSessions /\ DamageBounded /\ [Next]_vars => DamageBounded'
<1> SUFFICES ASSUME TypeOK, SoundSessions, DamageBounded, [Next]_vars PROVE DamageBounded'
  OBVIOUS
<1>1. ASSUME NEW u \in Users, NEW d \in Devices, OpenRefused(u, d) PROVE DamageBounded'
  BY <1>1 DEF OpenRefused, DamageBounded, Stale, Orphans
<1>2. CASE UNCHANGED vars
  BY <1>2 DEF vars, DamageBounded, Stale, Orphans
<1> QED
  BY <1>1, <1>2, OpenDamage, CloseDamage, RefusedDamage, RestartDamage DEF Next

(* However many sessions and users there are, stale handles and orphaned   *)
(* sessions together never outnumber the faults; with no fault there is    *)
(* neither.                                                                *)
THEOREM DamageIsBounded == Spec => []DamageBounded
<1>1. Init => DamageBounded
  <2> SUFFICES ASSUME Init PROVE DamageBounded
    OBVIOUS
  <2>1. Stale = {} /\ Orphans = {}
    BY DEF Init, Stale, Orphans
  <2> QED
    BY <2>1, FS_EmptySet DEF Init, DamageBounded
<1> QED
  BY <1>1, NextDamage, SoundHolds, PTL DEF Spec
===============================================================================
