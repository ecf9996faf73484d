----------------------------- MODULE GstdMutex -----------------------------
(***************************************************************************)
(* The asynchronous Mutex of gstd and the part of its runtime that puts    *)
(* messages to sleep and wakes them.  Every message takes the lock, may    *)
(* await a reply while it holds it, and lets it go.                        *)
(*                                                                         *)
(* An execution is one step: it runs until the message waits or ends.  A   *)
(* trap leaves the memory of the program as it was before the execution    *)
(* and queues a signal, whose handler drops what the message left behind.  *)
(* Block numbers are kept as the number of blocks still to go, zero once   *)
(* they have passed: the code only compares them with the present block.   *)
(***************************************************************************)
EXTENDS GstdRuntime, Integers, FiniteSets, Sequences

CONSTANTS Durations,  \* bound: own_up_for of a lock request, in blocks
          WaitUpTo    \* Config::wait_up_to, in blocks

ASSUME DurationsAssumption == Durations \subseteq Nat \ {0} /\ WaitUpTo \in Nat \ {0}
ASSUME NoneAssumption == None \notin [owner : Messages, left : Nat]

VARIABLES
    timer,   \* blocks until the runtime wakes a waiting message
    mem      \* memory of the program

mutexVars == <<place, timer, mem>>

\* What a message can wait on: a LockContext of its entry in LocksMap.
Contexts == {"MxLockMonitor", "ReplyToSelf", "ReplyTo"}

NoLocks == [c \in Contexts |-> None]

MutexInit ==
    /\ place = [m \in Messages |-> "new"]
    /\ timer = [m \in Messages |-> 0]
    /\ mem = [locked |-> None,                         \* Mutex::locked
              access |-> <<>>,                         \* AccessQueue
              task |-> [m \in Messages |-> "none"],    \* FUTURES: none, lock, hold
              exceeded |-> [m \in Messages |-> FALSE], \* Task::lock_exceeded
              replied |-> [m \in Messages |-> FALSE],  \* WakeSignal::payload
              locks |-> [m \in Messages |-> NoLocks]]  \* LOCKS

-----------------------------------------------------------------------------
IsQueued(s, m) == \E i \in DOMAIN s.access : s.access[i] = m
Owns(s, m) == s.locked # None /\ s.locked.owner = m

\* The outcome of a piece of code: the memory, the messages it wakes, and whether the
\* lock was taken.
Outcome(s, wakes, got) == [mem |-> s, wakes |-> wakes, got |-> got]

Acquire(s, m, duration) ==
    LET own == [s EXCEPT !.locks[m]["MxLockMonitor"] = None,
                         !.locked = [owner |-> m, left |-> duration]]
    IN  IF s.access = <<>> THEN own
        ELSE [own EXCEPT !.locks[Head(s.access)]["MxLockMonitor"] = duration]

\* The first in the queue looks after itself if the owner did not know of it.
QueueForLock(s, m, deadline) ==
    IF IsQueued(s, m) THEN s
    ELSE IF deadline # None /\ s.access = <<>>
    THEN [s EXCEPT !.access = <<m>>, !.locks[m]["MxLockMonitor"] = deadline]
    ELSE [s EXCEPT !.access = Append(@, m)]

\* Mutant: the owner that is ousted does not learn of it.
OustSilently(s) == Outcome(s, {}, FALSE)

\* The owner is told to give up when it runs next, if it is still there.
Oust(s) ==
    IF s.task[s.locked.owner] = "none" THEN Outcome(s, {}, FALSE)
    ELSE Outcome([s EXCEPT !.exceeded[s.locked.owner] = TRUE], {s.locked.owner}, FALSE)

\* The queue without the entries of the owner in front.
Rivals(s) ==
    LET others == {i \in DOMAIN s.access : s.access[i] # s.locked.owner}
    IN  IF others = {} THEN <<>>
        ELSE SubSeq(s.access, CHOOSE i \in others : \A j \in others : i <= j, Len(s.access))

\* MutexLockFuture::poll
PollLock(s, m, duration) ==
    LET o == Oust(s)
        rivals == Rivals(s)
        freed == [o.mem EXCEPT !.access = Tail(rivals), !.locked = None]
    IN  IF s.locked = None THEN Outcome(Acquire(s, m, duration), {}, TRUE)
        ELSE IF s.locked.left > 0 THEN Outcome(QueueForLock(s, m, s.locked.left), {}, FALSE)
        ELSE IF rivals = <<>>
        THEN Outcome(Acquire([o.mem EXCEPT !.access = <<>>], m, duration), o.wakes, TRUE)
        ELSE IF Head(rivals) = m
        THEN Outcome(Acquire([o.mem EXCEPT !.access = Tail(rivals)], m, duration), o.wakes, TRUE)
        ELSE Outcome(QueueForLock(freed, m, None), o.wakes \cup {Head(rivals)}, FALSE)

\* Drop of MutexGuard: the next in the queue is woken.
DropGuard(s, m) ==
    IF ~Owns(s, m) THEN Outcome(s, {}, FALSE)
    ELSE IF s.access = <<>> THEN Outcome([s EXCEPT !.locked = None], {}, FALSE)
    ELSE Outcome([s EXCEPT !.locked = None, !.access = Tail(@)], {Head(s.access)}, FALSE)

\* The future of the message and its entry in the locks are removed.
Forget(s, m) ==
    [s EXCEPT !.task[m] = "none", !.exceeded[m] = FALSE, !.replied[m] = FALSE,
              !.locks[m] = NoLocks]

\* LocksMap::wait
WithDefaultLock(s, m) ==
    IF s.locks[m] = NoLocks THEN [s EXCEPT !.locks[m]["ReplyToSelf"] = WaitUpTo] ELSE s

\* Mutant: a lock whose deadline is the present block is waited on.
PendingOrDue(s, m) ==
    {s.locks[m][c] : c \in {x \in Contexts : s.locks[m][x] # None}}

Pending(s, m) ==
    {s.locks[m][c] : c \in {x \in Contexts : s.locks[m][x] # None /\ s.locks[m][x] > 0}}

-----------------------------------------------------------------------------
\* The execution ends in a trap: the memory is rolled back.
Trap(m) ==
    /\ place[m] = "queue"
    /\ place' = [place EXCEPT ![m] = "signal"]
    /\ UNCHANGED <<timer, mem>>

\* The execution ends with a wait, which traps if there is nothing to wait on.
Waits(s, m, wakes) ==
    LET t == WithDefaultLock(s, m)
        deadlines == Pending(t, m)
    IN  IF deadlines = {} THEN Trap(m)
        ELSE /\ mem' = t
             /\ place' = Moved(m, "wait", wakes)
             /\ timer' = [timer EXCEPT ![m] = CHOOSE d \in deadlines : \A e \in deadlines : d <= e]

\* The guard is dropped and the execution ends; the drop panics if the lock is not owned.
Ends(s, m, wakes) ==
    LET d == DropGuard(s, m)
    IN  IF ~Owns(s, m) THEN Trap(m)
        ELSE /\ mem' = Forget(d.mem, m)
             /\ place' = Moved(m, "gone", wakes \cup d.wakes)
             /\ UNCHANGED timer

Arrive(m) ==
    /\ place[m] = "new" /\ place' = [place EXCEPT ![m] = "queue"]
    /\ UNCHANGED <<timer, mem>>

IsRunnable(m) == place[m] = "queue" /\ ~mem.exceeded[m]

\* The message asks for the lock and does not get it.
RunQueues(m, duration) ==
    LET r == PollLock([mem EXCEPT !.task[m] = "lock"], m, duration)
    IN  /\ IsRunnable(m) /\ mem.task[m] # "hold" /\ ~r.got
        /\ Waits(r.mem, m, r.wakes)

\* It gets the lock, and ends or awaits a reply.
RunEnds(m, duration) ==
    LET r == PollLock([mem EXCEPT !.task[m] = "lock"], m, duration)
    IN  /\ IsRunnable(m) /\ mem.task[m] # "hold" /\ r.got
        /\ Ends(r.mem, m, r.wakes)

RunHolds(m, duration) ==
    LET r == PollLock([mem EXCEPT !.task[m] = "lock"], m, duration)
    IN  /\ IsRunnable(m) /\ mem.task[m] # "hold" /\ r.got
        /\ Waits([r.mem EXCEPT !.task[m] = "hold", !.locks[m]["ReplyTo"] = WaitUpTo],
                 m, r.wakes)

\* It continues after the reply or its timeout, or goes on waiting.
RunAgain(m) ==
    /\ IsRunnable(m) /\ mem.task[m] = "hold"
    /\ IF mem.replied[m] \/ mem.locks[m]["ReplyTo"] = 0 THEN Ends(mem, m, {})
       ELSE Waits(mem, m, {})

\* message_loop panics for a message that was ousted.
RunExceeded(m) == mem.exceeded[m] /\ Trap(m)

ReplyArrives(m) ==
    /\ mem.task[m] = "hold" /\ ~mem.replied[m]
    /\ mem' = [mem EXCEPT !.replied[m] = TRUE]
    /\ place' = [place EXCEPT ![m] = IF @ = "wait" THEN "queue" ELSE @]
    /\ UNCHANGED timer

\* The runtime wakes a message at the end of its wait, or its gas runs out before.
TimerEnds(m) ==
    /\ place[m] = "wait" /\ timer[m] = 0
    /\ place' = [place EXCEPT ![m] = "queue"]
    /\ UNCHANGED <<timer, mem>>

RentRunsOut(m) ==
    /\ place[m] = "wait" /\ place' = [place EXCEPT ![m] = "signal"]
    /\ UNCHANGED <<timer, mem>>

\* handle_signal
HandleSignal(m) ==
    LET d == IF mem.task[m] = "hold" THEN DropGuard(mem, m) ELSE Outcome(mem, {}, FALSE)
    IN  /\ place[m] = "signal"
        /\ mem' = Forget(d.mem, m)
        /\ place' = Moved(m, "gone", d.wakes)
        /\ UNCHANGED timer

\* The handler traps: what the message left behind stays.
SignalTraps(m) ==
    /\ place[m] = "signal" /\ place' = [place EXCEPT ![m] = "gone"]
    /\ UNCHANGED <<timer, mem>>

LessOne(n) == IF n = None \/ n = 0 THEN n ELSE n - 1

Aged(lock) == IF lock = None THEN None ELSE [lock EXCEPT !.left = LessOne(@)]

\* A block later; messages that are due are woken first.
NextBlock ==
    /\ \A m \in Messages : place[m] = "wait" => timer[m] > 0
    /\ timer' = [m \in Messages |-> LessOne(timer[m])]
    /\ mem' = [mem EXCEPT
                 !.locked = Aged(@),
                 !.locks = [m \in Messages |-> [c \in Contexts |-> LessOne(@[m][c])]]]
    /\ UNCHANGED place

Run(m) ==
    \/ \E duration \in Durations :
          RunQueues(m, duration) \/ RunEnds(m, duration) \/ RunHolds(m, duration)
    \/ RunAgain(m)
    \/ RunExceeded(m)

MutexNext ==
    \/ \E m \in Messages :
          \/ Arrive(m)
          \/ Run(m)
          \/ ReplyArrives(m)
          \/ Trap(m)
          \/ TimerEnds(m)
          \/ RentRunsOut(m)
          \/ HandleSignal(m)
          \/ SignalTraps(m)
    \/ NextBlock

MutexSpec == MutexInit /\ [][MutexNext]_mutexVars

\* Blocks are produced, and the runtime executes what is queued and wakes what is due.
MutexFairSpec ==
    /\ MutexSpec /\ WF_mutexVars(NextBlock)
    /\ \A m \in Messages :
          WF_mutexVars(Run(m)) /\ WF_mutexVars(TimerEnds(m)) /\ WF_mutexVars(HandleSignal(m))

-----------------------------------------------------------------------------

\* A message with a guard that was not told to give it up owns the lock, whatever was
\* seized, trapped or timed out before: no two messages are in the protected section,
\* and the guard of a message that runs on never mismatches the owner when dropped.
GuardMeansOwner ==
    \A m \in Messages : mem.task[m] = "hold" /\ ~mem.exceeded[m] => Owns(mem, m)

\* A message that wants the lock ends: it gets the lock and is done, or it traps,
\* whatever traps, runs out of gas or is never answered on the way.
EveryMessageEnds == \A m \in Messages : place[m] = "queue" ~> place[m] = "gone"

=============================================================================
