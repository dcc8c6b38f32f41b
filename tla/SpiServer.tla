------------------------------ MODULE SpiServer ------------------------------
(***************************************************************************)
(* The SPI protocol server of mygearvm (scmi_spi_server.c): a table of     *)
(* sessions that DEVICE_OPEN fills, DEVICE_CLOSE empties and               *)
(* DEVICE_TRANSFER looks into.  A handle is the index of a session and     *)
(* says nothing of who opened it.                                          *)
(*                                                                         *)
(* The handler runs inside the firmware's FIQ handler, one message at a    *)
(* time, so a message is an action.  Its answer may not reach the caller:  *)
(* scmi_dispatch and scmi_do_xact give up after their timeouts while the   *)
(* firmware still works, and a caller may restart.  The users of the       *)
(* server are external: each has at most one session, keeps its handle     *)
(* until a close is answered, and drops a handle the server refuses.       *)
(***************************************************************************)
EXTENDS Integers, FiniteSets

CONSTANTS Users,        \* who opens sessions
          NumSessions,  \* NUM_SPI_SESSIONS, 4 in the code
          NumDevices,   \* g_num_spi_devices, 2 in the code
          MaxFaults     \* bound: answers lost and users restarted

ASSUME SpiServerAssumption ==
    /\ IsFiniteSet(Users)
    /\ NumSessions \in Nat
    /\ NumDevices \in Nat \ {0}
    /\ MaxFaults \in Nat

Handles  == 0..NumSessions - 1
Devices  == 0..NumDevices - 1
NoHandle == -1

VARIABLES
    active,  \* g_sessions[i].active, as the set of such i
    devid,   \* g_sessions[i].dev_id
    claim,   \* the handle each user believes is its session's
    wants,   \* the device it last asked for
    sound,   \* history: users whose session is still the one they opened
    faults   \* faults so far

vars == <<active, devid, claim, wants, sound, faults>>

TypeOK ==
    /\ active \subseteq Handles
    /\ devid \in [Handles -> Devices]
    /\ claim \in [Users -> Handles \cup {NoHandle}]
    /\ wants \in [Users -> Devices]
    /\ sound \subseteq Users
    /\ faults \in 0..MaxFaults

Init ==
    /\ active = {}
    /\ devid = [h \in Handles |-> 0]
    /\ claim = [u \in Users |-> NoHandle]
    /\ wants = [u \in Users |-> 0]
    /\ sound = {}
    /\ faults = 0

Fault == faults < MaxFaults /\ faults' = faults + 1

Lowest(S) == CHOOSE i \in S : \A j \in S : i <= j

(* Users that hold a handle to a session that is not theirs (any more),    *)
(* and sessions that no user knows of.                                     *)
Stale   == {u \in Users : claim[u] # NoHandle} \ sound
Orphans == active \ {claim[u] : u \in sound}

-------------------------------------------------------------------------------
(* Mutant of FreeSessions: the search does not look at active.             *)
FreeSessionsAll == Handles

FreeSessions == Handles \ active

(* find_free_session and the stores of DEVICE_OPEN.                        *)
Fill(d) ==
    /\ FreeSessions # {}
    /\ active' = active \cup {Lowest(FreeSessions)}
    /\ devid' = [devid EXCEPT ![Lowest(FreeSessions)] = d]

(* The answer carries the index of the session.                            *)
Learn(u) == claim' = [claim EXCEPT ![u] = Lowest(FreeSessions)]

Open(u, d) ==
    /\ claim[u] = NoHandle
    /\ Fill(d)
    /\ wants' = [wants EXCEPT ![u] = d]
    /\ \/ Learn(u) /\ sound' = sound \cup {u} /\ UNCHANGED faults
       \/ Fault /\ UNCHANGED <<claim, sound>>

(* SCMI_NOMEM: nothing changes but what the user last asked for.           *)
OpenRefused(u, d) ==
    /\ claim[u] = NoHandle
    /\ FreeSessions = {}
    /\ wants' = [wants EXCEPT ![u] = d]
    /\ UNCHANGED <<active, devid, claim, sound, faults>>

(* Whoever opened session h has lost it.                                   *)
Losers(h) == {u \in sound : claim[u] = h}

(* Mutant of Free: CLOSE answers success and leaves the session active.    *)
FreeNothing(h) == UNCHANGED active

Free(h) == active' = active \ {h}

Close(u) ==
    /\ claim[u] \in active
    /\ Free(claim[u])
    /\ sound' = sound \ Losers(claim[u])
    /\ \/ claim' = [claim EXCEPT ![u] = NoHandle] /\ UNCHANGED faults
       \/ Fault /\ UNCHANGED claim
    /\ UNCHANGED <<devid, wants>>

(* session_from_handle rejects the handle of a CLOSE or a TRANSFER, and    *)
(* the user learns that its session is gone.                               *)
Refused(u) ==
    /\ claim[u] # NoHandle
    /\ claim[u] \notin active
    /\ claim' = [claim EXCEPT ![u] = NoHandle]
    /\ sound' = sound \ {u}
    /\ UNCHANGED <<active, devid, wants, faults>>

(* A user restarts and has forgotten its session.                          *)
Restart(u) ==
    /\ claim[u] # NoHandle
    /\ Fault
    /\ claim' = [claim EXCEPT ![u] = NoHandle]
    /\ sound' = sound \ {u}
    /\ UNCHANGED <<active, devid, wants>>

Next == \E u \in Users :
    \/ \E d \in Devices : Open(u, d) \/ OpenRefused(u, d)
    \/ Close(u)
    \/ Refused(u)
    \/ Restart(u)

Spec == Init /\ [][Next]_vars

-------------------------------------------------------------------------------
(* A user that opened a session and whose session nobody closed has it to  *)
(* itself: it is active, runs with the device that user asked for, and no  *)
(* other such user has the same handle.                                    *)
SoundSessions ==
    \A u \in sound :
        /\ claim[u] \in active
        /\ devid[claim[u]] = wants[u]
        /\ \A v \in sound : claim[v] = claim[u] => v = u

(* The damage is bounded by its causes: a stale handle can close another   *)
(* user's session and hand its staleness on, and a session can be left     *)
(* that nobody closes, but both together never outnumber the answers lost  *)
(* and the users restarted.  Without a fault no session leaks and no       *)
(* transfer reaches a session of another user.                             *)
DamageBounded == Cardinality(Stale) + Cardinality(Orphans) <= faults
===============================================================================
