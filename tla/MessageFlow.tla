---------------------------- MODULE MessageFlow ----------------------------
(***************************************************************************)
(* The life of a message in pallet-gear: the queue, the waitlist, the      *)
(* mailbox, the stash of delayed dispatches, the pool of scheduled tasks   *)
(* that ends every hold, and the gas that pays for them, block by block.   *)
(*                                                                         *)
(* One program and its users.  A message of the program or of a user is    *)
(* <<m, "msg">>, the reply to it <<m, "reply">>.  The order of the queue   *)
(* is the subject of MessageQueue, the gas tree the subject of GasTree:    *)
(* here the queue is a set and a gas node is the purse its holder pays     *)
(* from.  Every unreachable! of the handlers clears gas.ok.                *)
(***************************************************************************)
EXTENDS Storage, HoldBound, FiniteSets, Sequences

CONSTANTS Messages,
          WaitlistCost, MailboxCost, StashCost, \* gas per block
          MailboxThreshold,
          MaxBlock,  \* bound: gear blocks
          GasLimits, \* bound: gas limits a sender attaches
          Delays,    \* bound: delays and durations, in blocks
          Burns      \* bound: gas an execution burns

ASSUME CostsAssumption ==
    /\ WaitlistCost \in Nat \ {0} /\ MailboxCost \in Nat \ {0} /\ StashCost \in Nat \ {0}
    /\ MailboxThreshold \in Nat
    /\ MailboxThreshold >= RentFor(1, MailboxCost)
ASSUME BoundsAssumption ==
    /\ MaxBlock \in Nat /\ GasLimits \subseteq Nat /\ Burns \subseteq Nat
    /\ Delays \subseteq Nat \ {0}

Ids == Messages \X {"msg", "reply"}
IsReply(id) == id[2] = "reply"
Reply(id) == <<id[1], "reply">>

LockIds == {"Mailbox", "Waitlist", "DispatchStash"}
\* In the order in which the pool hands out the tasks of a block.
TaskKinds == <<"RemoveFromMailbox", "RemoveFromWaitlist", "WakeMessage", "SendDispatch",
               "SendUserMessage", "SendUserMessageToMailbox">>
Limits == GasLimits \cup {None}

ASSUME NoneAssumption ==
    /\ None \notin Ids /\ None \notin Nat
    /\ None \notin [at : Nat, kind : {TaskKinds[i] : i \in DOMAIN TaskKinds}, id : Ids]

VARIABLES
    bn,       \* BlockNumber of the pallet
    phase,    \* idle, open, tasks, queue, execute, journal, exit, done
    enabled,  \* ExecuteInherent
    first,    \* FirstIncompleteTasksBlock, or None
    cursor,   \* the block process_tasks has come to
    pool,     \* TaskPool
    queue, running, waitlist, mailbox, stash,
    gas,      \* what the gas tree holds for the messages
    source,   \* who sent a message
    active    \* the program is active

block == <<bn, phase, enabled, first, cursor>>
held == <<waitlist, mailbox, stash>>
vars == <<block, pool, queue, running, held, gas, source, active>>

Task(at, kind, id) == [at |-> at, kind |-> kind, id |-> id]

-----------------------------------------------------------------------------
\* The gas handler, as far as the messages can tell.

Expect(g, condition) == [g EXCEPT !.ok = @ /\ condition]
HasGas(g, id) == id \in DOMAIN g.purse
Limit(g, id) == IF HasGas(g, id) THEN g.value[g.purse[id]] ELSE 0
ExistsAndDeposit(g, id) == id \in g.deposits

NewNode(g, id, amount, line) ==
    [Expect(g, ~HasGas(g, id)) EXCEPT !.purse = Put(@, id, id), !.value[id] = amount,
                                      !.line[id] = line]

Pay(g, id, amount) ==
    [Expect(g, amount <= Limit(g, id)) EXCEPT !.value[g.purse[id]] = @ - amount]

Create(g, id, amount, isReply) ==
    IF isReply /\ ExistsAndDeposit(g, id) THEN g ELSE NewNode(g, id, amount, <<>>)

\* A node that shares the purse of its parent.
Split(g, from, to, isReply) ==
    IF isReply /\ ExistsAndDeposit(g, to) THEN g
    ELSE [Expect(g, ~HasGas(g, to)) EXCEPT !.purse = Put(@, to, g.purse[from])]

SplitWithValue(g, from, to, amount, isReply) ==
    IF isReply /\ ExistsAndDeposit(g, to) THEN g
    ELSE NewNode(Pay(g, from, amount), to, amount, <<g.purse[from]>> \o g.line[g.purse[from]])

Cut(g, from, to, amount) == NewNode(Pay(g, from, amount), to, amount, <<>>)

CreateDeposit(g, from, to, amount) == [Cut(g, from, to, amount) EXCEPT !.deposits = @ \cup {to}]

LockGas(g, id, lock, amount) == [Pay(g, id, amount) EXCEPT !.lock[id][lock] = @ + amount]

UnlockAll(g, id, lock) ==
    [g EXCEPT !.value[g.purse[id]] = @ + g.lock[id][lock], !.lock[id][lock] = 0]

\* The nearest ancestor that still pays for somebody gets what is left; if there is
\* none, the sender does.
Consume(g, id) ==
    LET p == g.purse[id]
        users == {u \in DOMAIN g.purse \ {id} : g.purse[u] = p}
        payers == {g.purse[u] : u \in DOMAIN g.purse \ {id}}
        heirs == {i \in DOMAIN g.line[p] : g.line[p][i] \in payers}
        heir == g.line[p][CHOOSE i \in heirs : \A j \in heirs : i <= j]
        rest == [Expect(g, \A l \in LockIds : g.lock[id][l] = 0)
                   EXCEPT !.purse = Drop(@, id), !.deposits = @ \ {id}]
    IN  IF users # {} THEN rest
        ELSE IF heirs = {} THEN [rest EXCEPT !.value[p] = 0]
        ELSE [rest EXCEPT !.value[p] = 0, !.value[heir] = @ + g.value[p]]

ChargeForHold(g, id, hold, lock, cost) ==
    Pay(UnlockAll(g, id, lock), id, ChargeFor(bn, hold, cost, g.lock[id][lock]))

-----------------------------------------------------------------------------
Init ==
    /\ bn = 0 /\ phase = "idle" /\ enabled = TRUE /\ first = None /\ cursor = 0
    /\ pool = {} /\ queue = {} /\ running = None
    /\ waitlist = <<>> /\ mailbox = <<>> /\ stash = <<>> /\ source = <<>>
    /\ gas = [purse |-> <<>>, value |-> [i \in Ids |-> 0], line |-> [i \in Ids |-> <<>>],
              lock |-> [i \in Ids |-> [l \in LockIds |-> 0]], deposits |-> {}, ok |-> TRUE]
    /\ active = TRUE

OnInitialize ==
    /\ phase = "idle" /\ bn < MaxBlock
    /\ bn' = bn + 1 /\ phase' = "open"
    /\ UNCHANGED <<enabled, first, cursor, pool, queue, running, held, gas, source, active>>

\* Mutant: the number stays when the block did not process the queue.
OnFinalizeKeeps ==
    /\ phase \in {"open", "done"} /\ phase' = "idle"
    /\ UNCHANGED <<bn, enabled, first, cursor, pool, queue, running, held, gas, source, active>>

\* A block without a run of the queue does not count, unless runs are switched off.
OnFinalize ==
    /\ phase \in {"open", "done"} /\ phase' = "idle"
    /\ bn' = IF phase = "open" /\ enabled THEN bn - 1 ELSE bn
    /\ UNCHANGED <<enabled, first, cursor, pool, queue, running, held, gas, source, active>>

-----------------------------------------------------------------------------
\* Extrinsics.

SetExecuteInherent(value) ==
    /\ phase = "open" /\ enabled' = value
    /\ UNCHANGED <<bn, phase, first, cursor, pool, queue, running, held, gas, source, active>>

SendMessage(m, limit) ==
    LET id == <<m, "msg">> IN
    /\ phase = "open" /\ m \in Messages \ DOMAIN source /\ active
    /\ source' = Put(source, m, "user")
    /\ gas' = Expect(Create(gas, id, limit, FALSE), id \notin queue)
    /\ queue' = queue \cup {id}
    /\ UNCHANGED <<block, pool, running, held, active>>

\* Mutant: the gas is not given back.
GasAfterReadKeeps(id) == ChargeForHold(gas, id, mailbox[id], "Mailbox", MailboxCost)

\* The rent of a message in the mailbox is charged and its gas given back.
GasAfterRead(id) == Consume(ChargeForHold(gas, id, mailbox[id], "Mailbox", MailboxCost), id)

\* Mutant: the removal task of a message that was read is left in the pool.
LeaveMailboxKeepsTask(id) == mailbox' = Drop(mailbox, id) /\ pool' = pool

LeaveMailbox(id) ==
    /\ mailbox' = Drop(mailbox, id)
    /\ pool' = pool \ {Task(mailbox[id].finish, "RemoveFromMailbox", id)}

ClaimValue(id) ==
    /\ phase = "open" /\ id \in DOMAIN mailbox
    /\ LeaveMailbox(id)
    /\ IF active
       THEN /\ gas' = Expect(Create(GasAfterRead(id), Reply(id), 0, TRUE), Reply(id) \notin queue)
            /\ queue' = queue \cup {Reply(id)}
       ELSE gas' = GasAfterRead(id) /\ queue' = queue
    /\ UNCHANGED <<block, running, waitlist, stash, source, active>>

\* A failed reply is rolled back: only the reply to an active program changes the state.
SendReply(id, limit) ==
    LET g == GasAfterRead(id) IN
    /\ phase = "open" /\ id \in DOMAIN mailbox /\ active
    /\ LeaveMailbox(id)
    /\ gas' = Expect(Create(g, Reply(id), IF ExistsAndDeposit(g, Reply(id)) THEN 0 ELSE limit, TRUE),
                     Reply(id) \notin queue)
    /\ queue' = queue \cup {Reply(id)}
    /\ UNCHANGED <<block, running, waitlist, stash, source, active>>

-----------------------------------------------------------------------------
\* The run of a block: first the tasks that are due, then the queue.

Run ==
    /\ phase = "open" /\ enabled
    /\ phase' = "tasks" /\ first' = None
    /\ cursor' = IF first = None THEN bn ELSE first
    /\ UNCHANGED <<bn, enabled, pool, queue, running, held, gas, source, active>>

DueTasks == {t \in pool : t.at = cursor}

TasksNextBlock ==
    /\ phase = "tasks" /\ DueTasks = {}
    /\ IF cursor < bn THEN cursor' = cursor + 1 /\ phase' = phase
       ELSE cursor' = cursor /\ phase' = "queue"
    /\ UNCHANGED <<bn, enabled, first, pool, queue, running, held, gas, source, active>>

\* The gas allowance of the block is used up.
TasksStop ==
    /\ phase = "tasks"
    /\ phase' = "queue" /\ first' = cursor
    /\ UNCHANGED <<bn, enabled, cursor, pool, queue, running, held, gas, source, active>>

IsNextTask(task) ==
    /\ phase = "tasks" /\ task \in DueTasks
    /\ \E i \in DOMAIN TaskKinds :
          /\ task.kind = TaskKinds[i]
          /\ \A t \in DueTasks, j \in DOMAIN TaskKinds : t.kind = TaskKinds[j] => i <= j

\* A handler reached code marked unreachable.
Panic ==
    /\ gas' = Expect(gas, FALSE)
    /\ UNCHANGED <<block, pool, queue, running, held, source, active>>

RemoveFromMailbox(id) ==
    IF id \notin DOMAIN mailbox THEN Panic
    ELSE /\ LeaveMailbox(id)
         /\ gas' = Expect(Create(GasAfterRead(id), Reply(id), 0, TRUE), Reply(id) \notin queue)
         /\ queue' = queue \cup {Reply(id)}
         /\ UNCHANGED <<block, running, waitlist, stash, source, active>>

GasAfterWake(id) == ChargeForHold(gas, id, waitlist[id], "Waitlist", WaitlistCost)

\* Mutant: the removal task of a woken message is left in the pool.
LeaveWaitlistKeepsTask(id, task) == waitlist' = Drop(waitlist, id) /\ pool' = pool \ {task}

\* Mutant: the woken message is not taken out of the waitlist.
LeaveWaitlistKeepsMessage(id, task) ==
    /\ waitlist' = waitlist
    /\ pool' = pool \ {task, Task(waitlist[id].finish, "RemoveFromWaitlist", id)}

\* The task being processed, if any, is out of the pool already.
LeaveWaitlist(id, task) ==
    /\ waitlist' = Drop(waitlist, id)
    /\ pool' = pool \ {task, Task(waitlist[id].finish, "RemoveFromWaitlist", id)}

\* Who sent a message from a program is told that its rent ran out.
RemoveFromWaitlist(id, task) ==
    LET told == ~IsReply(id) /\ source[id[1]] = "program"
        g == IF told THEN Split(GasAfterWake(id), id, Reply(id), TRUE) ELSE GasAfterWake(id)
    IN  IF id \notin DOMAIN waitlist THEN Panic
        ELSE /\ LeaveWaitlist(id, task)
             /\ gas' = Expect(Consume(g, id), told => Reply(id) \notin queue)
             /\ queue' = queue \cup (IF told THEN {Reply(id)} ELSE {})
             /\ UNCHANGED <<block, running, mailbox, stash, source, active>>

WakeMessage(id, task) ==
    IF id \in DOMAIN waitlist
    THEN /\ LeaveWaitlist(id, task)
         /\ gas' = Expect(GasAfterWake(id), id \notin queue)
         /\ queue' = queue \cup {id}
         /\ UNCHANGED <<block, running, mailbox, stash, source, active>>
    ELSE /\ pool' = pool \ {task}
         /\ UNCHANGED <<block, queue, running, held, gas, source, active>>

GasAfterStash(id) == ChargeForHold(gas, id, stash[id], "DispatchStash", StashCost)

SendDispatchTask(id, task) ==
    IF id \notin DOMAIN stash THEN Panic
    ELSE /\ stash' = Drop(stash, id) /\ pool' = pool \ {task}
         /\ gas' = Expect(GasAfterStash(id), id \notin queue)
         /\ queue' = queue \cup {id}
         /\ UNCHANGED <<block, running, waitlist, mailbox, source, active>>

\* A message enters the mailbox for as long as its gas pays for; all of it is locked.
EnterMailbox(g, id, limit, expected, tasks) ==
    /\ mailbox' = Put(mailbox, id, [start |-> bn, finish |-> expected])
    /\ pool' = tasks \cup {Task(expected, "RemoveFromMailbox", id)}
    /\ gas' = Expect(LockGas(g, id, "Mailbox", limit),
                     /\ expected > bn /\ id \notin DOMAIN mailbox
                     /\ Task(expected, "RemoveFromMailbox", id) \notin tasks)

\* The answer to a message that is not kept for the user is queued at once.
SendUserMessageTask(id, task) ==
    LET g == GasAfterStash(id) IN
    IF id \notin DOMAIN stash THEN Panic
    ELSE /\ stash' = Drop(stash, id)
         /\ IF task.kind = "SendUserMessageToMailbox"
            THEN /\ EnterMailbox(g, id, Limit(g, id),
                                 HoldMaximumFor(bn, Limit(g, id), MailboxCost), pool \ {task})
                 /\ queue' = queue
            ELSE /\ mailbox' = mailbox /\ pool' = pool \ {task}
                 /\ gas' = Expect(Consume(g, id), Reply(id) \notin queue)
                 /\ queue' = queue \cup {Reply(id)}
         /\ UNCHANGED <<block, running, waitlist, source, active>>

ProcessTask(task) ==
    /\ IsNextTask(task)
    /\ CASE task.kind = "RemoveFromMailbox" -> RemoveFromMailbox(task.id)
         [] task.kind = "RemoveFromWaitlist" -> RemoveFromWaitlist(task.id, task)
         [] task.kind = "WakeMessage" -> WakeMessage(task.id, task)
         [] task.kind = "SendDispatch" -> SendDispatchTask(task.id, task)
         [] OTHER -> SendUserMessageTask(task.id, task)

-----------------------------------------------------------------------------
\* The queue.

Dequeue(id) ==
    /\ phase = "queue" /\ id \in queue
    /\ phase' = "execute" /\ running' = id /\ queue' = queue \ {id}
    /\ gas' = Expect(gas, HasGas(gas, id))
    /\ UNCHANGED <<bn, enabled, first, cursor, pool, held, source, active>>

\* The message does not fit into what is left of the block and goes back.
StopProcessing ==
    /\ phase = "execute"
    /\ phase' = "done" /\ running' = None /\ queue' = queue \cup {running}
    /\ gas' = Expect(gas, running \notin queue)
    /\ UNCHANGED <<bn, enabled, first, cursor, pool, held, source, active>>

\* The queue is empty or the block is full.
EndOfQueue ==
    /\ phase = "queue" /\ phase' = "done"
    /\ UNCHANGED <<bn, enabled, first, cursor, pool, queue, running, held, gas, source, active>>

GasBurned(amount) ==
    /\ phase = "execute" /\ amount <= Limit(gas, running)
    /\ phase' = "journal" /\ gas' = Pay(gas, running, amount)
    /\ UNCHANGED <<bn, enabled, first, cursor, pool, queue, running, held, source, active>>

\* The notes of a program that ran; a dispatch to an exited program makes none.
Journal == phase = "journal" /\ active

\* The limit of a message is None if it is sent without gas of its own; the gas of a
\* reply deposit, None if there is none, is taken before the message is sent.
WithDeposit(id, deposit) ==
    IF deposit = None THEN gas ELSE CreateDeposit(gas, running, Reply(id), deposit)

\* What Ext asks of the gas counter: a message carries no gas or enough for the
\* mailbox, and one without gas of its own can still pay for the mailbox.
IsAffordable(limit, deposit, rent) ==
    /\ limit \notin {None, 0} => limit >= MailboxThreshold
    /\ (IF limit = None THEN MailboxThreshold ELSE limit)
         + (IF deposit = None THEN 0 ELSE deposit) + rent <= Limit(gas, running)

Sends(m, limit, deposit, rent) ==
    /\ Journal /\ m \in Messages \ DOMAIN source
    /\ IsAffordable(limit, deposit, rent)
    /\ source' = Put(source, m, "program")

SendToProgram(m, limit, deposit) ==
    LET id == <<m, "msg">>
        g == WithDeposit(id, deposit)
    IN  /\ Sends(m, limit, deposit, 0)
        /\ gas' = Expect(IF limit = None THEN Split(g, running, id, FALSE)
                         ELSE SplitWithValue(g, running, id, limit, FALSE), id \notin queue)
        /\ queue' = queue \cup {id}
        /\ UNCHANGED <<block, pool, running, held, active>>

\* What a message to a user takes along: its own limit or, if the sender can afford it
\* next to what must be kept, the threshold of the mailbox.
UserLimit(g, limit, kept) ==
    IF limit # None THEN limit
    ELSE IF SaturatingSub(Limit(g, running), kept) >= MailboxThreshold THEN MailboxThreshold ELSE 0

SendUserMessage(m, limit, deposit) ==
    LET id == <<m, "msg">>
        g == WithDeposit(id, deposit)
        taken == UserLimit(g, limit, 0)
    IN  /\ Sends(m, limit, deposit, 0)
        /\ IF taken >= MailboxThreshold
           THEN /\ EnterMailbox(Cut(g, running, id, taken), id, taken,
                                HoldMaximumFor(bn, taken, MailboxCost), pool)
                /\ queue' = queue
           ELSE /\ gas' = Expect(SplitWithValue(g, running, Reply(id), 0, TRUE),
                                 Reply(id) \notin queue)
                /\ queue' = queue \cup {Reply(id)}
                /\ UNCHANGED <<mailbox, pool>>
        /\ UNCHANGED <<block, running, waitlist, stash, active>>

\* A delayed message is kept in the stash until its task sends it.
EnterStash(g, id, delay, rent, kind) ==
    LET expected == HoldDuration(bn, delay)
        task == Task(bn + delay, kind, id)
    IN  /\ stash' = Put(stash, id, [start |-> bn, finish |-> expected])
        /\ pool' = pool \cup {task}
        /\ gas' = Expect(LockGas(g, id, "DispatchStash", rent),
                         id \notin DOMAIN stash /\ expected > bn /\ task \notin pool)
        /\ UNCHANGED <<block, queue, running, waitlist, mailbox, active>>

SendDelayedToProgram(m, limit, deposit, delay) ==
    LET id == <<m, "msg">>
        rent == LockAmount(bn, HoldDuration(bn, delay), StashCost)
        g == WithDeposit(id, deposit)
    IN  /\ Sends(m, limit, deposit, RentFor(delay, StashCost))
        /\ EnterStash(IF limit = None THEN Split(g, running, id, FALSE)
                      ELSE SplitWithValue(g, running, id, limit + rent, FALSE),
                      id, delay, rent, "SendDispatch")

\* The gas for the mailbox is set aside now; without it, the node of the automatic
\* reply is made now.
SendDelayedToUser(m, limit, deposit, delay) ==
    LET id == <<m, "msg">>
        rent == LockAmount(bn, HoldDuration(bn, delay), StashCost)
        g == WithDeposit(id, deposit)
        taken == UserLimit(g, limit, rent)
    IN  /\ Sends(m, limit, deposit, RentFor(delay, StashCost))
        /\ IF taken >= MailboxThreshold
           THEN EnterStash(Cut(g, running, id, rent + taken), id, delay, rent,
                           "SendUserMessageToMailbox")
           ELSE EnterStash(SplitWithValue(Cut(g, running, id, rent), running, Reply(id), 0, TRUE),
                           id, delay, rent, "SendUserMessage")

WakeNow(id) ==
    /\ Journal /\ id \in DOMAIN waitlist
    /\ LeaveWaitlist(id, None)
    /\ gas' = Expect(GasAfterWake(id), id \notin queue)
    /\ queue' = queue \cup {id}
    /\ UNCHANGED <<block, running, mailbox, stash, source, active>>

WakeLater(id, delay) ==
    /\ Journal /\ id \in DOMAIN waitlist
    /\ pool' = pool \cup {Task(bn + delay, "WakeMessage", id)}
    /\ UNCHANGED <<block, queue, running, held, gas, source, active>>

\* wait_dispatch: the hold ends with a wake-up or with a removal.
EnterWaitlist(expected, kind) ==
    LET task == Task(expected, kind, running)
        g == LockGas(gas, running, "Waitlist", LockAmount(bn, expected, WaitlistCost))
    IN  /\ gas' = Expect(g, /\ expected > bn /\ running \notin DOMAIN waitlist
                            /\ kind = "RemoveFromWaitlist" => task \notin pool)
        /\ waitlist' = Put(waitlist, running, [start |-> bn, finish |-> expected])
        /\ pool' = pool \cup {task}
        /\ phase' = "queue" /\ running' = None
        /\ UNCHANGED <<bn, enabled, first, cursor, queue, mailbox, stash, source, active>>

LongestWait == HoldMaximumFor(bn, Limit(gas, running), WaitlistCost)

Wait ==
    /\ Journal /\ RentFor(1, WaitlistCost) <= Limit(gas, running)
    /\ EnterWaitlist(LongestWait, "RemoveFromWaitlist")

WaitFor(duration) ==
    /\ Journal /\ RentFor(duration, WaitlistCost) <= Limit(gas, running)
    /\ EnterWaitlist(Least(HoldDuration(bn, duration), LongestWait), "WakeMessage")

\* With too little gas for all of the duration the message is removed at the end.
WaitUpTo(duration) ==
    /\ Journal /\ RentFor(1, WaitlistCost) <= Limit(gas, running)
    /\ EnterWaitlist(Least(HoldDuration(bn, duration), LongestWait),
                     IF RentFor(duration, WaitlistCost) <= Limit(gas, running)
                     THEN "WakeMessage" ELSE "RemoveFromWaitlist")

\* The message has been handled; a program that sent it gets a reply.
Handled ==
    LET told == ~IsReply(running) /\ source[running[1]] = "program"
        g == IF told THEN Split(gas, running, Reply(running), TRUE) ELSE gas
    IN  /\ gas' = Expect(Consume(g, running), told => Reply(running) \notin queue)
        /\ queue' = queue \cup (IF told THEN {Reply(running)} ELSE {})
        /\ phase' = "queue" /\ running' = None
        /\ UNCHANGED <<bn, enabled, first, cursor, pool, held, source>>

MessageConsumed == phase = "journal" /\ Handled /\ UNCHANGED active

\* exit_dispatch: the waitlist of the program is emptied into the queue, one message
\* at a time, then the program is inactive.
ExitDispatch ==
    /\ Journal /\ phase' = "exit"
    /\ UNCHANGED <<bn, enabled, first, cursor, pool, queue, running, held, gas, source, active>>

ExitDrain(id) ==
    /\ phase = "exit" /\ id \in DOMAIN waitlist
    /\ LeaveWaitlist(id, None)
    /\ gas' = Expect(GasAfterWake(id), id \notin queue)
    /\ queue' = queue \cup {id}
    /\ UNCHANGED <<block, running, mailbox, stash, source, active>>

Exited == phase = "exit" /\ DOMAIN waitlist = {} /\ Handled /\ active' = FALSE

-----------------------------------------------------------------------------
Extrinsic ==
    \/ \E value \in BOOLEAN : SetExecuteInherent(value)
    \/ \E m \in Messages, limit \in GasLimits : SendMessage(m, limit)
    \/ \E id \in DOMAIN mailbox : ClaimValue(id)
    \/ \E id \in DOMAIN mailbox, limit \in GasLimits : SendReply(id, limit)

Send ==
    \/ \E m \in Messages, limit \in Limits, deposit \in Limits : SendToProgram(m, limit, deposit)
    \/ \E m \in Messages, limit \in Limits, deposit \in Limits : SendUserMessage(m, limit, deposit)
    \/ \E m \in Messages, limit \in Limits, deposit \in Limits, delay \in Delays :
           SendDelayedToProgram(m, limit, deposit, delay)
    \/ \E m \in Messages, limit \in Limits, deposit \in Limits, delay \in Delays :
           SendDelayedToUser(m, limit, deposit, delay)

Execution ==
    \/ StopProcessing
    \/ \E amount \in Burns : GasBurned(amount)
    \/ Send
    \/ \E id \in DOMAIN waitlist : WakeNow(id)
    \/ \E id \in DOMAIN waitlist, delay \in Delays : WakeLater(id, delay)
    \/ Wait
    \/ \E duration \in Delays : WaitFor(duration)
    \/ \E duration \in Delays : WaitUpTo(duration)
    \/ MessageConsumed
    \/ ExitDispatch
    \/ \E id \in DOMAIN waitlist : ExitDrain(id)
    \/ Exited

\* The bound on the blocks is reached.
Over == phase = "idle" /\ bn = MaxBlock /\ UNCHANGED vars

Next ==
    \/ OnInitialize
    \/ OnFinalize
    \/ Extrinsic
    \/ Run
    \/ TasksNextBlock
    \/ TasksStop
    \/ \E task \in pool : ProcessTask(task)
    \/ \E id \in queue : Dequeue(id)
    \/ EndOfQueue
    \/ Execution
    \/ Over

Spec == Init /\ [][Next]_vars

-----------------------------------------------------------------------------

\* No handler reaches code marked unreachable: each task finds the message it is for,
\* no task or stored message is a duplicate, no hold has zero duration, and the gas
\* handler never refuses what is asked of it.
NoUnreachable == gas.ok

\* A message is in one place at a time: in the queue, in execution, in the waitlist, in
\* the mailbox or in the stash.
OnePlace ==
    LET places == <<queue, {running} \ {None}, DOMAIN waitlist, DOMAIN mailbox, DOMAIN stash>>
    IN  \A i, j \in DOMAIN places : i # j => places[i] \cap places[j] = {}

Stored ==
    queue \cup ({running} \ {None}) \cup DOMAIN waitlist \cup DOMAIN mailbox \cup DOMAIN stash

\* Gas is kept for the messages there are: whatever is stored has a gas node, and while
\* the program is active a node is that of a stored message or was made for the reply
\* to one, so that no gas is kept for a message that is gone.
GasHasOwner ==
    /\ Stored \subseteq DOMAIN gas.purse
    /\ active => \A i \in DOMAIN gas.purse :
                    i \in Stored \/ (IsReply(i) /\ <<i[1], "msg">> \in Stored)

\* Each hold ends with a task of its own at the block it was paid until, and apart from
\* wake-ups there is no task without its hold.
HoldsAreScheduled ==
    /\ \A i \in DOMAIN waitlist :
          \E t \in pool : t.id = i /\ t.at = waitlist[i].finish
                          /\ t.kind \in {"RemoveFromWaitlist", "WakeMessage"}
    /\ \A i \in DOMAIN mailbox : Task(mailbox[i].finish, "RemoveFromMailbox", i) \in pool
    /\ \A i \in DOMAIN stash :
          \E t \in pool : t.id = i /\ t.at = stash[i].finish
                          /\ t.kind \in {"SendDispatch", "SendUserMessage", "SendUserMessageToMailbox"}
    /\ \A t \in pool :
          CASE t.kind = "RemoveFromWaitlist" -> t.id \in DOMAIN waitlist /\ waitlist[t.id].finish = t.at
            [] t.kind = "RemoveFromMailbox" -> t.id \in DOMAIN mailbox /\ mailbox[t.id].finish = t.at
            [] t.kind = "WakeMessage" -> TRUE
            [] OTHER -> t.id \in DOMAIN stash /\ stash[t.id].finish = t.at

\* At any block the rent due for a hold is covered by what was locked for it, so that a
\* hold never ends up cheaper than its price.
RentIsPrepaid ==
    /\ \A i \in DOMAIN waitlist :
          DueFor(bn, waitlist[i], WaitlistCost) <= gas.lock[i]["Waitlist"]
    /\ \A i \in DOMAIN mailbox :
          DueFor(bn, mailbox[i], MailboxCost) <= gas.lock[i]["Mailbox"]
    /\ \A i \in DOMAIN stash :
          DueFor(bn, stash[i], StashCost) <= gas.lock[i]["DispatchStash"]

\* The first block whose tasks have not all been processed.
Pending ==
    CASE first # None -> first
      [] first = None /\ phase = "tasks" -> cursor
      [] first = None /\ phase = "open" -> bn
      [] first = None /\ phase \notin {"tasks", "open"} -> bn + 1

\* Every task is due at or after the block at which the next call of process_tasks starts.
NoneBehind == \A t \in pool : t.at >= Pending

\* No task is left behind while the runs of the queue are switched on: whatever the gas
\* allowance cuts short and however many blocks pass without a run, the next call of
\* process_tasks starts at or before the first block that still has tasks.
NoTaskLeftBehind == [][enabled /\ NoneBehind => NoneBehind']_vars

=============================================================================
