----------------------------- MODULE MCGstdSync -----------------------------
(***************************************************************************)
(* The two locks of gstd::sync: a program of three messages that take one  *)
(* Mutex, or one RwLock.  Every behaviour is one of GstdMutex or of        *)
(* GstdRwLock, while the other lock rests in its initial state.            *)
(***************************************************************************)
EXTENDS GstdMutex, GstdRwLock

VARIABLE lock  \* the one that the program uses

mutexMem == <<timer, mem>>
rwMem == <<late, memory>>
syncVars == <<lock, place, mutexMem, rwMem>>

SyncInit == lock \in {"Mutex", "RwLock"} /\ MutexInit /\ RwInit

WithMutex(action) == lock = "Mutex" /\ action /\ UNCHANGED <<lock, rwMem>>
WithRwLock(action) == lock = "RwLock" /\ action /\ UNCHANGED <<lock, mutexMem>>

\* The messages of an RwLock may all have ended: no step is left.
Ended == WithRwLock(UNCHANGED rwVars) /\ \A m \in Messages : place[m] = "gone"

SyncNext == WithMutex(MutexNext) \/ WithRwLock(RwNext) \/ Ended

\* The fairness of MutexFairSpec and of RwFairSpec
SyncSpec ==
    /\ SyncInit /\ [][SyncNext]_syncVars
    /\ WF_syncVars(WithMutex(NextBlock))
    /\ \A m \in Messages :
          /\ WF_syncVars(WithMutex(Run(m)) \/ WithRwLock(RwRun(m)))
          /\ WF_syncVars(WithMutex(TimerEnds(m)) \/ WithRwLock(RwReplyArrives(m)))
          /\ WF_syncVars(WithMutex(HandleSignal(m)))

-----------------------------------------------------------------------------
\* A message that wants the Mutex ends (GstdMutex!EveryMessageEnds).
EveryMutexMessageEnds == lock = "Mutex" => EveryMessageEnds

\* If nothing traps and no wait times out, a message that wants the RwLock ends
\* (GstdRwLock!EveryRequestEnds).
EveryRwRequestEnds == lock = "RwLock" => EveryRequestEnds
=============================================================================
