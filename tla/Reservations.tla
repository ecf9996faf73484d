---------------------------- MODULE Reservations ----------------------------
(***************************************************************************)
(* Gas reservations of a program.  During an execution GasReserver works   *)
(* on a copy of the program's reservation map; the journal of a successful *)
(* execution then brings three stores in line with it: the reservation map *)
(* of the program, the gas nodes and the pool of removal tasks.            *)
(*                                                                         *)
(* A reservation id is the id of the message that made it and a nonce,     *)
(* which survives in the context of a message that waits.  Every           *)
(* unreachable! of the handlers clears ok.                                 *)
(***************************************************************************)
EXTENDS Storage, HoldBound, Tally, Sequences

CONSTANTS Messages,
          ReservationCost, StashCost, \* gas per block
          MailboxThreshold, MaxReservations,
          GasLimit,            \* bound: the gas of a message
          Amounts, Durations,  \* bounds: what a program asks for
          MaxNonce,            \* bound: reservations a message makes
          MaxSends,            \* bound: sends of an execution
          MaxBlock             \* bound: gear blocks

ASSUME CostsAssumption ==
    /\ ReservationCost \in Nat /\ StashCost \in Nat /\ MailboxThreshold \in Nat
    /\ MaxReservations \in Nat
ASSUME BoundsAssumption ==
    /\ GasLimit \in Nat /\ Amounts \subseteq Nat /\ Durations \subseteq Nat
    /\ MaxNonce \in Nat /\ MaxSends \in Nat /\ MaxBlock \in Nat

VARIABLES
    bn,
    phase,     \* idle, tasks, queue, execute, journal, send
    running,   \* the message in execution
    outcome,   \* how its execution ended: Wait, Success or Exit
    status,    \* of a message: queued, waiting or done
    context,   \* of a message: the nonce its context keeps
    limit,     \* of a message: the gas of its node
    active,    \* the program is active
    gas_reservation_map,
    node,      \* gas nodes of reservations: [value, lock]
    spent,     \* consumed nodes that still pay for the message sent from them
    tasks,     \* RemoveGasReservation tasks: [at, id]
    states, nonce, left, sends, \* of Ext: GasReserver, gas counter, dispatches
    notes,     \* journal: reservations whose note is still to be handled
    ok

block == <<bn, phase>>
stores == <<gas_reservation_map, node, spent, tasks>>
ext == <<states, nonce, left, sends, notes>>
vars == <<block, running, outcome, status, context, limit, active, stores, ext, ok>>

Empty == [x \in {} |-> None]
Task(at, id) == [at |-> at, id |-> id]
CostForReservation(amount, duration) == RentFor(duration, ReservationCost) + amount

Init ==
    /\ bn = 0 /\ phase = "idle" /\ running = None /\ outcome = None /\ ok = TRUE /\ active = TRUE
    /\ status = [m \in Messages |-> "queued"]
    /\ context = [m \in Messages |-> 0] /\ limit = [m \in Messages |-> GasLimit]
    /\ gas_reservation_map = Empty /\ node = Empty /\ spent = {} /\ tasks = {}
    /\ states = Empty /\ nonce = 0 /\ left = 0 /\ sends = <<>> /\ notes = {}

NextBlock ==
    /\ phase = "idle" /\ bn < MaxBlock
    /\ bn' = bn + 1 /\ phase' = "tasks"
    /\ UNCHANGED <<running, outcome, status, context, limit, active, stores, ext, ok>>

\* All tasks that are due are done, or the gas allowance of the block is used up.
TasksStop ==
    /\ phase = "tasks" /\ phase' = "queue"
    /\ UNCHANGED <<bn, running, outcome, status, context, limit, active, stores, ext, ok>>

QueueStop ==
    /\ phase = "queue" /\ phase' = "idle"
    /\ UNCHANGED <<bn, running, outcome, status, context, limit, active, stores, ext, ok>>

\* A message that waits is woken.
Wake(m) ==
    /\ phase = "queue" /\ status[m] = "waiting"
    /\ status' = [status EXCEPT ![m] = "queued"]
    /\ UNCHANGED <<block, running, outcome, context, limit, active, stores, ext, ok>>

-----------------------------------------------------------------------------
\* Execution: the syscalls of the program.

NewReserver == [id \in DOMAIN gas_reservation_map |->
                   [kind |-> "Exists", amount |-> gas_reservation_map[id].amount,
                    start |-> gas_reservation_map[id].start,
                    finish |-> gas_reservation_map[id].finish, used |-> FALSE]]

Execute(m) ==
    /\ phase = "queue" /\ status[m] = "queued" /\ active
    /\ phase' = "execute" /\ running' = m
    /\ states' = NewReserver /\ nonce' = context[m] /\ left' = limit[m]
    /\ UNCHANGED <<sends, notes, bn, outcome, status, context, limit, active, stores, ok>>

Executing ==
    /\ phase = "execute"
    /\ UNCHANGED <<block, running, outcome, status, context, limit, active, stores, notes>>

IsLive(id) == id \in DOMAIN states /\ states[id].kind \in {"Exists", "Created"}
IsUsable(id) == IsLive(id) /\ ~states[id].used

CheckExecutionLimit == Cardinality({id \in DOMAIN states : IsLive(id)}) <= MaxReservations

\* Mutant: the rent of the reservation is not asked of the gas counter.
ReserveGasNoRent(amount, duration) ==
    LET id == <<running, nonce>> IN
    /\ Executing /\ nonce < MaxNonce
    /\ duration # 0 /\ amount >= MailboxThreshold
    /\ amount <= left
    /\ CheckExecutionLimit
    /\ left' = left - amount
    /\ nonce' = nonce + 1
    /\ states' = Put(states, id, [kind |-> "Created", amount |-> amount, duration |-> duration,
                                  used |-> FALSE])
    /\ ok' = (ok /\ id \notin DOMAIN states)
    /\ UNCHANGED sends

ReserveGas(amount, duration) ==
    LET id == <<running, nonce>> IN
    /\ Executing /\ nonce < MaxNonce
    /\ duration # 0 /\ amount >= MailboxThreshold
    /\ CostForReservation(amount, duration) <= left
    /\ CheckExecutionLimit
    /\ left' = left - CostForReservation(amount, duration)
    /\ nonce' = nonce + 1
    /\ states' = Put(states, id, [kind |-> "Created", amount |-> amount, duration |-> duration,
                                  used |-> FALSE])
    /\ ok' = (ok /\ id \notin DOMAIN states)
    /\ UNCHANGED sends

\* Mutant: a reservation that was used can be given back.
UnreserveUsed(id) ==
    /\ Executing /\ IsLive(id)
    /\ IF states[id].kind = "Exists"
       THEN /\ states' = [states EXCEPT ![id] = [kind |-> "Removed", expiration |-> states[id].finish]]
            /\ left' = left
       ELSE /\ states' = Drop(states, id)
            /\ left' = left + CostForReservation(states[id].amount, states[id].duration)
    /\ UNCHANGED <<nonce, sends, ok>>

\* Only what was reserved in this execution comes back to the gas counter.
UnreserveGas(id) ==
    /\ Executing /\ IsUsable(id)
    /\ IF states[id].kind = "Exists"
       THEN /\ states' = [states EXCEPT ![id] = [kind |-> "Removed", expiration |-> states[id].finish]]
            /\ left' = left
       ELSE /\ states' = Drop(states, id)
            /\ left' = left + CostForReservation(states[id].amount, states[id].duration)
    /\ UNCHANGED <<nonce, sends, ok>>

\* A delayed message must leave enough for the mailbox.
ReservationSend(id, delay, toUser) ==
    /\ Executing /\ IsUsable(id) /\ Len(sends) < MaxSends
    /\ delay # 0 => states[id].amount >= RentFor(delay, StashCost) + MailboxThreshold
    /\ states' = [states EXCEPT ![id].used = TRUE]
    /\ sends' = Append(sends, [id |-> id, delay |-> delay, toUser |-> toUser])
    /\ UNCHANGED <<nonce, left, ok>>

-----------------------------------------------------------------------------
\* The end of an execution.

Forget == states' = Empty /\ nonce' = 0 /\ left' = 0 /\ sends' = <<>> /\ notes' = {}

\* process_error: no note of the reserver gets into the journal.
Trap ==
    /\ phase = "execute" /\ phase' = "queue" /\ running' = None
    /\ status' = [status EXCEPT ![running] = "done"]
    /\ limit' = [limit EXCEPT ![running] = 0]
    /\ Forget
    /\ UNCHANGED <<bn, outcome, context, active, stores, ok>>

\* process_allowance_exceed: the message is tried again as it was.
AllowanceExceed ==
    /\ phase = "execute" /\ phase' = "idle" /\ running' = None
    /\ Forget
    /\ UNCHANGED <<bn, outcome, status, context, limit, active, stores, ok>>

Finish(result) ==
    /\ phase = "execute" /\ phase' = "journal" /\ outcome' = result
    /\ notes' = {id \in DOMAIN states : states[id].kind \in {"Created", "Removed"}}
    /\ UNCHANGED <<bn, running, status, context, limit, active, stores, states, nonce, left, sends, ok>>

\* journal: reserve_gas
ReserveNote(id) ==
    LET state == states[id]
        expected == HoldDuration(bn, state.duration)
        lock == LockAmount(bn, expected, ReservationCost)
    IN  /\ phase = "journal" /\ id \in notes /\ state.kind = "Created"
        /\ notes' = notes \ {id}
        /\ node' = Put(node, id, [value |-> state.amount, lock |-> lock])
        /\ limit' = [limit EXCEPT ![running] = @ - (state.amount + lock)]
        /\ tasks' = tasks \cup {Task(expected, id)}
        /\ ok' = (/\ ok /\ expected > bn /\ state.amount + lock <= limit[running]
                  /\ id \notin DOMAIN node \cup spent /\ Task(expected, id) \notin tasks)
        /\ UNCHANGED <<block, running, outcome, status, context, active, gas_reservation_map,
                       spent, states, nonce, left, sends>>

\* The gas of a reservation once its rent is charged.
GasLeft(id) ==
    node[id].value + node[id].lock
        - ChargeFor(bn, gas_reservation_map[id], ReservationCost, node[id].lock)

\* Mutant: the task is looked for at the block of the removal.
RemoveGasReservationLate(id, at) ==
    /\ gas_reservation_map' = Drop(gas_reservation_map, id)
    /\ node' = Drop(node, id)
    /\ tasks' = tasks \ {Task(bn, id)}

\* remove_gas_reservation_impl, and the removal of the task at the given block.
RemoveGasReservation(id, at) ==
    /\ gas_reservation_map' = Drop(gas_reservation_map, id)
    /\ node' = Drop(node, id)
    /\ tasks' = tasks \ {Task(at, id)}

IsReserved(id) == active /\ id \in DOMAIN gas_reservation_map /\ id \in DOMAIN node

\* journal: unreserve_gas
UnreserveNote(id) ==
    /\ phase = "journal" /\ id \in notes /\ states[id].kind = "Removed"
    /\ notes' = notes \ {id}
    /\ RemoveGasReservation(id, states[id].expiration)
    /\ ok' = (ok /\ IsReserved(id))
    /\ UNCHANGED <<block, running, outcome, status, context, limit, active, spent, states, nonce,
                   left, sends>>

IntoMap ==
    [id \in {i \in DOMAIN states : states[i].kind # "Removed"} |->
        IF states[id].kind = "Exists"
        THEN [amount |-> states[id].amount, start |-> states[id].start, finish |-> states[id].finish]
        ELSE [amount |-> states[id].amount, start |-> bn,
              finish |-> HoldDuration(bn, states[id].duration)]]

\* journal: update_gas_reservation, once every reservation has had its note
UpdateGasReservation ==
    /\ phase = "journal" /\ notes = {} /\ phase' = "send"
    /\ gas_reservation_map' = IntoMap
    /\ ok' = (ok /\ active)
    /\ UNCHANGED <<bn, running, outcome, status, context, limit, active, node, spent, tasks, ext>>

\* journal: send_dispatch.  A message to a program goes on paying from the node of the
\* reservation, one to a user takes the gas for the mailbox and for the delay.
SendNote ==
    LET send == Head(sends)
        id == send.id
        finish == gas_reservation_map[id].finish
        rent == LockAmount(bn, HoldDuration(bn, send.delay), StashCost)
        forDelay == IF send.delay = 0 THEN 0 ELSE rent
        cut == IF SaturatingSub(node[id].value, forDelay) >= MailboxThreshold
               THEN forDelay + MailboxThreshold ELSE forDelay
    IN  /\ phase = "send" /\ sends # <<>>
        /\ sends' = Tail(sends)
        /\ IF ~IsReserved(id)
           THEN ok' = FALSE /\ UNCHANGED stores
           ELSE /\ RemoveGasReservation(id, finish)
                /\ IF send.toUser
                   THEN spent' = spent /\ ok' = (ok /\ cut <= node[id].value)
                   ELSE spent' = spent \cup {id} /\ ok' = (ok /\ forDelay <= GasLeft(id))
        /\ UNCHANGED <<block, running, outcome, status, context, limit, active, states, nonce,
                       left, notes>>

\* The message sent from a reservation has been handled, its gas node goes.
MessageHandled(id) ==
    /\ phase = "queue" /\ id \in spent /\ spent' = spent \ {id}
    /\ UNCHANGED <<block, running, outcome, status, context, limit, active, gas_reservation_map,
                   node, tasks, ext, ok>>

\* journal: wait_dispatch, with the context of the dispatch
WaitDispatch ==
    /\ phase = "send" /\ sends = <<>> /\ outcome = "Wait"
    /\ phase' = "queue" /\ running' = None /\ outcome' = None
    /\ status' = [status EXCEPT ![running] = "waiting"]
    /\ context' = [context EXCEPT ![running] = nonce]
    /\ Forget
    /\ UNCHANGED <<bn, limit, active, stores, ok>>

Consumed ==
    /\ phase' = "queue" /\ running' = None /\ outcome' = None
    /\ status' = [status EXCEPT ![running] = "done"]
    /\ limit' = [limit EXCEPT ![running] = 0]
    /\ Forget

MessageConsumed ==
    /\ phase = "send" /\ sends = <<>> /\ outcome = "Success"
    /\ Consumed
    /\ UNCHANGED <<bn, context, active, stores, ok>>

\* journal: exit_dispatch takes the whole map with it (remove_gas_reservation_map).
ExitDispatch ==
    /\ phase = "send" /\ sends = <<>> /\ outcome = "Exit"
    /\ Consumed /\ active' = FALSE
    /\ gas_reservation_map' = Empty
    /\ node' = [id \in DOMAIN node \ DOMAIN gas_reservation_map |-> node[id]]
    /\ tasks' = tasks \ {Task(gas_reservation_map[id].finish, id) : id \in DOMAIN gas_reservation_map}
    /\ ok' = (ok /\ DOMAIN gas_reservation_map \subseteq DOMAIN node)
    /\ UNCHANGED <<bn, context, spent>>

\* The task that ends a reservation.
RemoveGasReservationTask(task) ==
    /\ phase = "tasks" /\ task.at <= bn
    /\ RemoveGasReservation(task.id, task.at)
    /\ ok' = (ok /\ IsReserved(task.id))
    /\ UNCHANGED <<block, running, outcome, status, context, limit, active, spent, ext>>

-----------------------------------------------------------------------------
Over == phase = "idle" /\ bn = MaxBlock /\ UNCHANGED vars

Next ==
    \/ NextBlock
    \/ \E task \in tasks : RemoveGasReservationTask(task)
    \/ TasksStop
    \/ \E m \in Messages : Wake(m)
    \/ \E m \in Messages : Execute(m)
    \/ \E amount \in Amounts, duration \in Durations : ReserveGas(amount, duration)
    \/ \E id \in DOMAIN states : UnreserveGas(id)
    \/ \E id \in DOMAIN states, delay \in {0} \cup Durations, toUser \in BOOLEAN :
           ReservationSend(id, delay, toUser)
    \/ Trap
    \/ AllowanceExceed
    \/ \E result \in {"Wait", "Success", "Exit"} : Finish(result)
    \/ \E id \in notes : ReserveNote(id)
    \/ \E id \in notes : UnreserveNote(id)
    \/ UpdateGasReservation
    \/ SendNote
    \/ WaitDispatch
    \/ MessageConsumed
    \/ ExitDispatch
    \/ \E id \in spent : MessageHandled(id)
    \/ QueueStop
    \/ Over

Spec == Init /\ [][Next]_vars

-----------------------------------------------------------------------------

\* No handler reaches code marked unreachable: what the journal reserves is covered by
\* the gas of the message, what it removes exists, no id is used twice, and the gas of a
\* reservation pays for the message sent from it.
NoUnreachable == ok

\* Between executions the three stores agree: a reservation is in the map of the program
\* with the amount its gas node holds, and has one removal task, at its last block.
StoresAgree ==
    phase \notin {"journal", "send"} =>
        /\ DOMAIN node = DOMAIN gas_reservation_map
        /\ tasks = {Task(gas_reservation_map[id].finish, id) : id \in DOMAIN gas_reservation_map}
        /\ \A id \in DOMAIN node : node[id].value = gas_reservation_map[id].amount

\* What the gas counter gave for the reservations of this execution.
SetAside(ids) == [id \in ids |-> CostForReservation(states[id].amount, states[id].duration)]
Created == {id \in DOMAIN states : states[id].kind = "Created"}

\* While a program runs, what its gas counter has left and what it has set aside for new
\* reservations make up the gas of the message.
GasIsSetAside ==
    phase = "execute" =>
        left + Sum(SetAside(Created)) = limit[running]

\* The comment on check_execution_limit: the reservations of earlier executions and of this
\* one together never exceed max_reservations in the map of a program.
StoredIsBounded == Cardinality(DOMAIN gas_reservation_map) <= MaxReservations

=============================================================================
