----------------------------- MODULE GstdRwLock -----------------------------
(***************************************************************************)
(* The asynchronous RwLock of gstd.  A message takes the lock to read or   *)
(* to write, may await a reply while it holds the guard, and drops it.     *)
(*                                                                         *)
(* As in GstdMutex an execution is one step and a trap rolls the memory of *)
(* the program back.  Time is left out: a wait may end by its timer at any *)
(* moment, and a message so woken that has to wait on for the lock traps,  *)
(* its only lock having passed its deadline.                               *)
(***************************************************************************)
EXTENDS GstdRuntime, Integers, FiniteSets, Sequences

CONSTANT ReadersLimit  \* READERS_LIMIT

ASSUME MessagesAssumption == IsFiniteSet(Messages) /\ None \notin Messages
ASSUME LimitAssumption == ReadersLimit \in Nat \ {0}

VARIABLES
    late,     \* messages whose wait for the lock ended by its timer
    task,     \* FUTURES: none, or what the message asks for or holds
    replied,  \* messages whose reply has arrived
    locked, readers, access  \* fields of RwLock

rwVars == <<place, late, task, replied, locked, readers, access>>
memory == <<task, replied, locked, readers, access>>

Guards == {"read", "write"}

RwInit ==
    /\ place = [m \in Messages |-> "new"]
    /\ late = {} /\ replied = {}
    /\ task = [m \in Messages |-> "none"]
    /\ locked = None /\ readers = 0 /\ access = <<>>

-----------------------------------------------------------------------------
IsInQueue(m) == \E i \in DOMAIN access : access[i] = m

Wants(m, kind) ==
    /\ place[m] = "queue"
    /\ task[m] = "none" \/ task[m] = (IF kind = "read" THEN "to read" ELSE "to write")

\* The next message in the access queue, if there is one.
NextInQueue == IF access = <<>> THEN {} ELSE {Head(access)}
Dequeued == IF access = <<>> THEN <<>> ELSE Tail(access)

\* Mutant: a reader does not look at the writer.
ReadIgnoresWriter == readers + 1 <= ReadersLimit

CanRead == locked = None /\ readers + 1 <= ReadersLimit

CanWrite == locked = None /\ readers = 0

Can(kind) == IF kind = "read" THEN CanRead ELSE CanWrite

\* The execution ends in a trap.
RwTrap(m) ==
    /\ place[m] = "queue"
    /\ place' = [place EXCEPT ![m] = "signal"]
    /\ UNCHANGED <<late, memory>>

RwArrive(m) ==
    /\ place[m] = "new" /\ place' = [place EXCEPT ![m] = "queue"]
    /\ UNCHANGED <<late, memory>>

\* The lock is taken, and the message awaits a reply.
Take(m, kind) ==
    /\ Wants(m, kind) /\ Can(kind)
    /\ task' = [task EXCEPT ![m] = kind]
    /\ locked' = IF kind = "write" THEN m ELSE locked
    /\ readers' = IF kind = "read" THEN readers + 1 ELSE readers
    /\ place' = [place EXCEPT ![m] = "wait"]
    /\ late' = late \ {m}
    /\ UNCHANGED <<replied, access>>

\* The lock is taken and dropped at once: the next message is woken.
TakeAndDrop(m, kind) ==
    /\ Wants(m, kind) /\ Can(kind)
    /\ task' = [task EXCEPT ![m] = "none"]
    /\ late' = late \ {m}
    /\ IF kind = "read" /\ readers > 0
       THEN place' = [place EXCEPT ![m] = "gone"] /\ UNCHANGED access
       ELSE place' = Moved(m, "gone", NextInQueue) /\ access' = Dequeued
    /\ UNCHANGED <<replied, locked, readers>>

\* The message is queued for the lock.
QueueForAccess(m, kind) ==
    /\ Wants(m, kind) /\ ~Can(kind) /\ m \notin late
    /\ task' = [task EXCEPT ![m] = IF kind = "read" THEN "to read" ELSE "to write"]
    /\ access' = IF IsInQueue(m) THEN access ELSE Append(access, m)
    /\ place' = [place EXCEPT ![m] = "wait"]
    /\ UNCHANGED <<late, replied, locked, readers>>

\* Its wait is over and there is no lock to wait on.
WaitFails(m, kind) == Wants(m, kind) /\ ~Can(kind) /\ m \in late /\ RwTrap(m)

\* Mutant: the writer is forgotten when any reader is done.
DropReadUnlocks(m) ==
    /\ place[m] = "queue" /\ task[m] = "read" /\ m \in replied
    /\ readers' = 0 /\ locked' = None
    /\ access' = Dequeued /\ place' = Moved(m, "gone", NextInQueue)
    /\ task' = [task EXCEPT ![m] = "none"]
    /\ replied' = replied \ {m}
    /\ UNCHANGED late

\* Drop of RwLockReadGuard: the last reader wakes the next message.
DropRead(m) ==
    /\ place[m] = "queue" /\ task[m] = "read" /\ m \in replied
    /\ readers' = IF readers = 0 THEN 0 ELSE readers - 1
    /\ IF readers <= 1
       THEN locked' = None /\ access' = Dequeued /\ place' = Moved(m, "gone", NextInQueue)
       ELSE place' = [place EXCEPT ![m] = "gone"] /\ UNCHANGED <<locked, access>>
    /\ task' = [task EXCEPT ![m] = "none"]
    /\ replied' = replied \ {m}
    /\ UNCHANGED late

\* Mutant: the lock is let go and nobody hears of it.
DropWriteSilent(m) ==
    /\ place[m] = "queue" /\ task[m] = "write" /\ m \in replied /\ locked = m
    /\ locked' = None /\ place' = [place EXCEPT ![m] = "gone"]
    /\ task' = [task EXCEPT ![m] = "none"]
    /\ replied' = replied \ {m}
    /\ UNCHANGED <<late, readers, access>>

\* Drop of RwLockWriteGuard
DropWrite(m) ==
    /\ place[m] = "queue" /\ task[m] = "write" /\ m \in replied
    /\ IF locked # m THEN RwTrap(m)
       ELSE /\ locked' = None /\ access' = Dequeued
            /\ place' = Moved(m, "gone", NextInQueue)
            /\ task' = [task EXCEPT ![m] = "none"]
            /\ replied' = replied \ {m}
            /\ UNCHANGED <<late, readers>>

\* The reply has not arrived: the message goes on waiting.
WaitOn(m) ==
    /\ place[m] = "queue" /\ task[m] \in Guards /\ m \notin replied
    /\ place' = [place EXCEPT ![m] = "wait"]
    /\ UNCHANGED <<late, memory>>

\* The reply to the message of a holder, or its timeout.
RwReplyArrives(m) ==
    /\ task[m] \in Guards /\ m \notin replied
    /\ replied' = replied \cup {m}
    /\ place' = [place EXCEPT ![m] = IF @ = "wait" THEN "queue" ELSE @]
    /\ UNCHANGED <<late, task, locked, readers, access>>

RwTimerEnds(m) ==
    /\ place[m] = "wait" /\ place' = [place EXCEPT ![m] = "queue"]
    /\ late' = IF task[m] \in Guards THEN late ELSE late \cup {m}
    /\ UNCHANGED memory

RwRentRunsOut(m) ==
    /\ place[m] = "wait" /\ place' = [place EXCEPT ![m] = "signal"]
    /\ UNCHANGED <<late, memory>>

\* handle_signal drops the future; the drop of a guard there panics and nothing changes.
RwHandleSignal(m) ==
    /\ place[m] = "signal" /\ place' = [place EXCEPT ![m] = "gone"]
    /\ task' = IF task[m] \in Guards THEN task ELSE [task EXCEPT ![m] = "none"]
    /\ UNCHANGED <<late, replied, locked, readers, access>>

RwRun(m) ==
    \/ \E kind \in Guards :
          Take(m, kind) \/ TakeAndDrop(m, kind) \/ QueueForAccess(m, kind) \/ WaitFails(m, kind)
    \/ DropRead(m)
    \/ DropWrite(m)
    \/ WaitOn(m)

RwNext ==
    \E m \in Messages :
       \/ RwArrive(m) \/ RwRun(m) \/ RwReplyArrives(m)
       \/ RwTrap(m) \/ RwTimerEnds(m) \/ RwRentRunsOut(m) \/ RwHandleSignal(m)

RwSpec == RwInit /\ [][RwNext]_rwVars

\* The runtime executes what is queued, and every reply arrives.
RwFairSpec == RwSpec /\ \A m \in Messages : WF_rwVars(RwRun(m)) /\ WF_rwVars(RwReplyArrives(m))

-----------------------------------------------------------------------------
Readers == {m \in Messages : task[m] = "read"}

\* Every variable keeps to its type.
RwTypes ==
    /\ place \in [Messages -> {"new", "queue", "wait", "signal", "gone"}]
    /\ late \subseteq Messages /\ replied \subseteq Messages
    /\ task \in [Messages -> Guards \cup {"none", "to read", "to write"}]
    /\ locked \in Messages \cup {None}
    /\ readers \in 0..ReadersLimit
    /\ access \in Seq(Messages)

\* A message with a write guard is alone: it is the one recorded, no other has a write
\* guard, and nobody has a read guard.  Drops, traps and seized waits never undo it.
WriterIsAlone ==
    \A m \in Messages : task[m] = "write" => locked = m /\ Readers = {}

\* The number of readers is exact: no guard is lost or counted twice, so the last reader
\* is the one that lets writers in.
ReadersAreCounted == readers = Cardinality(Readers)

\* The guard of a message that trapped or ran out of rent, dropped with its future by the
\* handler of the signal, releases the lock: nothing of the message is left behind.
NothingLeftBehind == \A m \in Messages : place[m] = "gone" => task[m] = "none"

\* If no execution traps and no wait for the lock ends by its timer, then every message
\* that wants the lock gets it and ends: the drop of a guard always wakes somebody who
\* can go on, with no timer to help.
EveryRequestEnds ==
    [](late = {} /\ \A m \in Messages : place[m] # "signal")
       => \A m \in Messages : place[m] = "queue" ~> place[m] = "gone"
=============================================================================
