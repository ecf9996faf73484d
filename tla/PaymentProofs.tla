--------------------------- MODULE PaymentProofs ---------------------------
(***************************************************************************)
(* Proofs about what gas is paid with.                                     *)
(*                                                                         *)
(* The three stores of a gas reservation agree between executions; while   *)
(* the journal is handled they agree up to the notes that are left, and    *)
(* the reserver's states tell what these are.                              *)
(*                                                                         *)
(* The bank is solvent for every set of accounts, every existential        *)
(* deposit and every sequence of calls, so none of its unreachable! calls  *)
(* is reached.                                                             *)
(***************************************************************************)
EXTENDS GearBank, Reservations, TallyTheorems

-----------------------------------------------------------------------------
(* Reservations. *)

\* First-order leaves first, then arithmetic and records.
USE ZenonT(5), SMTT(90)

\* Ids of reservations, and what each store keeps for one.
Ids == Messages \X Nat
Slots == [amount : Nat, start : Nat, finish : Nat]
Nodes == [value : Nat, lock : Nat]
Tasks == [at : Nat, id : Ids]
Phases == {"idle", "tasks", "queue", "execute", "journal", "send"}

\* A message is in execution or its journal is handled.
Busy == phase \in {"execute", "journal", "send"}

\* What the variables hold.
Types ==
  /\ bn \in Nat /\ phase \in Phases /\ active \in BOOLEAN /\ ok = TRUE
  /\ status \in [Messages -> {"queued", "waiting", "done"}]
  /\ context \in [Messages -> Nat] /\ limit \in [Messages -> Nat]
  /\ DOMAIN gas_reservation_map \subseteq Ids /\ IsFiniteSet(DOMAIN gas_reservation_map)
  /\ \A id \in DOMAIN gas_reservation_map : gas_reservation_map[id] \in Slots
  /\ \A id \in DOMAIN node : node[id] \in Nodes
  /\ spent \subseteq Ids /\ tasks \subseteq Tasks

\* A message runs while the program is active, with the nonce of its context or more.
Runs ==
  /\ Busy => /\ active /\ running \in Messages /\ status[running] = "queued"
             /\ nonce \in Nat /\ context[running] <= nonce
  /\ ~active => DOMAIN gas_reservation_map = {}

\* A message that can still be executed has made the ids that are stored or pay for a
\* message with nonces below the one it goes on with.
Older ==
  \A id \in DOMAIN gas_reservation_map \cup spent :
    status[id[1]] # "done" =>
      id[2] < (IF phase = "send" /\ id[1] = running THEN nonce ELSE context[id[1]])

\* The state of a reservation in the reserver.
IsExisting(id) ==
  /\ id \in DOMAIN gas_reservation_map
  /\ states[id].amount = gas_reservation_map[id].amount
  /\ states[id].start = gas_reservation_map[id].start
  /\ states[id].finish = gas_reservation_map[id].finish

\* A reservation made in this execution has a fresh id and a positive duration.
IsCreated(id) ==
  /\ states[id].amount \in Nat /\ states[id].duration \in Nat \ {0}
  /\ id[1] = running /\ context[running] <= id[2] /\ id[2] < nonce

\* A reservation given back is still in the map.
IsRemoved(id) ==
  id \in DOMAIN gas_reservation_map /\ states[id].expiration = gas_reservation_map[id].finish

\* The reserver of the execution: in the journal what was removed is in the map as long
\* as its note is not handled.
Reserver ==
  phase \in {"execute", "journal"} =>
    /\ DOMAIN states \subseteq Ids /\ IsFiniteSet(DOMAIN states)
    /\ \A id \in DOMAIN states :
         /\ states[id].kind \in {"Exists", "Created", "Removed"}
         /\ states[id].kind = "Exists" => IsExisting(id)
         /\ states[id].kind = "Created" => IsCreated(id)
         /\ states[id].kind = "Removed" /\ (phase = "execute" \/ id \in notes) => IsRemoved(id)
         /\ states[id].kind = "Removed" /\ phase = "journal" /\ id \notin notes =>
              id \notin DOMAIN gas_reservation_map
    /\ \A id \in DOMAIN gas_reservation_map :
         id \in DOMAIN states /\ states[id].kind \in {"Exists", "Removed"}

\* The reservations whose node was made and that the map of the program lacks.
Made ==
  IF phase = "journal"
  THEN {id \in DOMAIN states : states[id].kind = "Created" /\ id \notin notes} ELSE {}

\* The three stores agree, up to those.
Agree ==
  /\ DOMAIN node = DOMAIN gas_reservation_map \cup Made
  /\ \A t \in tasks : t.id \in DOMAIN node
  /\ \A id \in DOMAIN gas_reservation_map :
       /\ node[id].value = gas_reservation_map[id].amount
       /\ Task(gas_reservation_map[id].finish, id) \in tasks
       /\ \A t \in tasks : t.id = id => t.at = gas_reservation_map[id].finish
  /\ \A id \in Made :
       /\ node[id].value = states[id].amount
       /\ Task(HoldDuration(bn, states[id].duration), id) \in tasks
       /\ \A t \in tasks : t.id = id => t.at = HoldDuration(bn, states[id].duration)

\* What is left to note is created or removed.
Notes ==
  phase = "journal" =>
    notes \subseteq {id \in DOMAIN states : states[id].kind \in {"Created", "Removed"}}

\* The gas that a delayed message needs, and the mailbox.
Suffices(amount, delay) == delay # 0 => amount >= RentFor(delay, StashCost) + MailboxThreshold

\* Each message to send has a reservation of its own that pays for it.
Sends ==
  /\ ~Busy => sends = <<>>
  /\ Busy => sends \in Seq([id : Ids, delay : Nat, toUser : BOOLEAN])
  /\ Busy => \A i, j \in DOMAIN sends : sends[i].id = sends[j].id => i = j
  /\ phase \in {"execute", "journal"} =>
       \A i \in DOMAIN sends :
         /\ IsLive(sends[i].id) /\ states[sends[i].id].used = TRUE
         /\ Suffices(states[sends[i].id].amount, sends[i].delay)
  /\ phase = "send" =>
       \A i \in DOMAIN sends :
         /\ sends[i].id \in DOMAIN gas_reservation_map
         /\ Suffices(gas_reservation_map[sends[i].id].amount, sends[i].delay)

\* The gas of the message covers what the journal will take.
Covered ==
  /\ phase = "execute" => left \in Nat /\ left + Sum(SetAside(Created)) = limit[running]
  /\ phase = "journal" => Sum(SetAside(Created \cap notes)) <= limit[running]

\* The reservations that the reserver counts.
Live == {id \in DOMAIN states : IsLive(id)}

\* check_execution_limit lets one reservation more than max_reservations through, and not two.
StoredIsNearLimit == Cardinality(DOMAIN gas_reservation_map) <= MaxReservations + 1

\* check_execution_limit bounds the reserver, and so the map.
Bounded ==
  /\ phase \in {"execute", "journal"} => Cardinality(Live) <= MaxReservations + 1
  /\ StoredIsNearLimit

\* The inductive invariant.
IInv ==
  Types /\ Runs /\ Older /\ Reserver /\ Agree /\ Notes /\ Sends /\ Covered /\ Bounded

-----------------------------------------------------------------------------
(* Rents, maps and sums. *)

\* The rent that Ext asks of the gas counter is what the journal locks.
LEMMA DelayRent ==
  ASSUME NEW now \in Nat, NEW delay \in Nat, NEW cost \in Nat
  PROVE  /\ LockAmount(now, HoldDuration(now, delay), cost) = RentFor(delay, cost)
         /\ RentFor(delay, cost) \in Nat
<1>1. SaturatingSub(now + delay + ReserveFor, now) = ReserveFor + delay
  BY ReserveForAssumption DEF SaturatingSub
<1>2. (ReserveFor + delay) * cost \in Nat
  BY ReserveForAssumption
<1> QED  BY <1>1, <1>2 DEF LockAmount, HoldDuration, RentFor

\* What a reservation costs is a natural number.
LEMMA CostIsNat ==
  ASSUME NEW amount \in Nat, NEW duration \in Nat
  PROVE  CostForReservation(amount, duration) \in Nat
<1>1. RentFor(duration, ReservationCost) \in Nat
  <2>1. 0 \in Nat /\ ReservationCost \in Nat  BY CostsAssumption
  <2> QED  BY <2>1, DelayRent
<1> QED  BY <1>1 DEF CostForReservation

\* A task is told by its block and its reservation.
LEMMA TaskIs ==
  ASSUME NEW at, NEW id
  PROVE  /\ Task(at, id).at = at /\ Task(at, id).id = id
         /\ at \in Nat /\ id \in Ids => Task(at, id) \in Tasks
         /\ \A t \in Tasks : t.at = at /\ t.id = id => t = Task(at, id)
BY DEF Task, Tasks

\* The amounts set aside for a set of new reservations.
LEMMA SetAsideType ==
  ASSUME IInv, phase \in {"execute", "journal"}, NEW S \in SUBSET Created
  PROVE  /\ SetAside(S) \in [S -> Nat] /\ IsFiniteSet(S) /\ Sum(SetAside(S)) \in Nat
<1>1. \A id \in S : states[id].amount \in Nat /\ states[id].duration \in Nat
  BY DEF IInv, Reserver, Created, IsCreated
<1>2. SetAside(S) \in [S -> Nat]  BY <1>1, CostIsNat DEF SetAside
<1>3. IsFiniteSet(S)
  <2>1. S \subseteq DOMAIN states  BY DEF Created
  <2> QED  BY <2>1, FS_Subset DEF IInv, Reserver
<1> QED  BY <1>2, <1>3, SumType

\* One reservation is split off the amounts set aside.
LEMMA SetAsideLess ==
  ASSUME IInv, phase \in {"execute", "journal"}, NEW S \in SUBSET Created, NEW id \in S
  PROVE  Sum(SetAside(S)) = Sum(SetAside(S \ {id}))
                              + CostForReservation(states[id].amount, states[id].duration)
<1>1. SetAside(S) \in [S -> Nat] /\ IsFiniteSet(S)  BY SetAsideType
<1>2. SetAside(S \ {id}) \in [S \ {id} -> Nat]
  <2>1. S \ {id} \in SUBSET Created  OBVIOUS
  <2> QED  BY <2>1, SetAsideType
<1>3. \A x \in S \ {id} : SetAside(S \ {id})[x] = SetAside(S)[x]  BY DEF SetAside
<1>4. SetAside(S)[id] = CostForReservation(states[id].amount, states[id].duration)
  BY DEF SetAside
<1>5. Sum(SetAside(S)) = Sum(SetAside(S \ {id})) + SetAside(S)[id]
  BY ONLY <1>1, <1>2, <1>3, id \in S, SumSplit
<1> QED  BY <1>4, <1>5

-----------------------------------------------------------------------------
(* Steps that leave the stores alone. *)

\* Blocks begin and end, messages wake, trap or are tried again: the stores agree as
\* before, since no note of the reserver was handled.
LEMMA QuietStep ==
  ASSUME IInv, phase \notin {"journal", "send"}, ~Busy', phase' \in Phases, bn' \in Nat,
         sends' = <<>>,
         limit' \in [Messages -> Nat], status' \in [Messages -> {"queued", "waiting", "done"}],
         \A m \in Messages : status[m] = "done" => status'[m] = "done",
         UNCHANGED <<context, active, stores, ok>>
  PROVE  IInv'
<1> USE DEF stores
<1>1. Types'  BY DEF IInv, Types
<1>2. Runs'  BY DEF IInv, Runs
<1>3. Older'
  <2>1. \A id \in DOMAIN gas_reservation_map \cup spent : id[1] \in Messages
    BY DEF IInv, Types, Ids
  <2> QED  BY <2>1 DEF IInv, Older, Busy
<1>4. Reserver' /\ Notes' /\ Covered'  BY DEF Reserver, Notes, Covered, Busy
<1>5. Agree'
  <2>1. Made = {} /\ Made' = {}  BY DEF Made, Busy
  <2> QED  BY <2>1 DEF IInv, Agree
<1>6. Sends'  BY DEF Sends, Busy
<1>7. Bounded'  BY DEF IInv, Bounded, StoredIsNearLimit, Busy
<1> QED  BY <1>1, <1>2, <1>3, <1>4, <1>5, <1>6, <1>7 DEF IInv

\* The message sent from a reservation is handled: its id is no longer in use.
LEMMA MessageHandledStep ==
  ASSUME IInv, NEW id \in spent, MessageHandled(id)
  PROVE  IInv'
<1>1. /\ phase = "queue" /\ spent' = spent \ {id}
      /\ UNCHANGED <<bn, phase, running, outcome, status, context, limit, active>>
      /\ UNCHANGED <<gas_reservation_map, node, tasks, states, nonce, left, sends, notes, ok>>
  BY DEF MessageHandled, block, ext
<1>2. Types' /\ Runs' /\ Older'  BY <1>1 DEF IInv, Types, Runs, Busy, Older
<1>3. Reserver' /\ Notes' /\ Sends' /\ Covered'
  BY <1>1 DEF IInv, Reserver, Notes, Sends, Busy, Covered
<1>4. Agree'
  <2>1. Made = {} /\ Made' = {}  BY <1>1 DEF Made
  <2> QED  BY <1>1, <2>1 DEF IInv, Agree
<1>5. Bounded'  BY <1>1 DEF IInv, Bounded, StoredIsNearLimit
<1> QED  BY <1>2, <1>3, <1>4, <1>5 DEF IInv

\* A step of the queue, of the tasks' end or of a wake-up keeps the invariant.
LEMMA BlockSteps ==
  ASSUME IInv, NextBlock \/ TasksStop \/ QueueStop \/ (\E m \in Messages : Wake(m))
  PROVE  IInv'
<1>1. /\ phase \in {"idle", "tasks", "queue"} /\ phase' \in {"idle", "tasks", "queue"}
      /\ bn' = bn \/ bn' = bn + 1
      /\ status' = status \/ \E m \in Messages : status[m] = "waiting"
                                                 /\ status' = [status EXCEPT ![m] = "queued"]
      /\ UNCHANGED <<limit, context, active, stores, ok, sends>>
  BY DEF NextBlock, TasksStop, QueueStop, Wake, block, ext
<1>2. ~Busy /\ ~Busy' /\ phase' \in Phases  BY <1>1 DEF Busy, Phases
<1>3. sends' = <<>>  BY <1>1, <1>2 DEF IInv, Sends
<1>4. bn' \in Nat /\ limit' \in [Messages -> Nat]  BY SMTT(90), <1>1 DEF IInv, Types
<1>5. /\ status' \in [Messages -> {"queued", "waiting", "done"}]
      /\ \A m \in Messages : status[m] = "done" => status'[m] = "done"
  BY <1>1 DEF IInv, Types
<1> QED  BY <1>1, <1>2, <1>3, <1>4, <1>5, QuietStep DEF Busy

\* A trap, or a block without gas allowance, ends an execution without a note.
LEMMA AbortSteps ==
  ASSUME IInv, Trap \/ AllowanceExceed
  PROVE  IInv'
<1>1. /\ phase = "execute" /\ phase' \in {"idle", "queue"} /\ bn' = bn /\ sends' = <<>>
      /\ limit' = limit \/ limit' = [limit EXCEPT ![running] = 0]
      /\ status' = status \/ status' = [status EXCEPT ![running] = "done"]
      /\ UNCHANGED <<context, active, stores, ok>>
  BY DEF Trap, AllowanceExceed, Forget
<1>2. ~Busy' /\ phase' \in Phases  BY <1>1 DEF Busy, Phases
<1>3. bn' \in Nat /\ limit' \in [Messages -> Nat]  BY <1>1 DEF IInv, Types
<1>4. /\ status' \in [Messages -> {"queued", "waiting", "done"}]
      /\ \A m \in Messages : status[m] = "done" => status'[m] = "done"
  BY <1>1 DEF IInv, Types
<1> QED  BY <1>1, <1>2, <1>3, <1>4, QuietStep

-----------------------------------------------------------------------------
(* The execution. *)

\* The reserver begins with what is stored.
LEMMA ExecuteStep ==
  ASSUME IInv, NEW m \in Messages, Execute(m)
  PROVE  IInv'
<1>1. /\ phase = "queue" /\ status[m] = "queued" /\ active /\ phase' = "execute" /\ running' = m
      /\ states' = NewReserver /\ nonce' = context[m] /\ left' = limit[m]
      /\ UNCHANGED <<sends, notes, bn, status, context, limit, active>>
      /\ UNCHANGED <<gas_reservation_map, node, spent, tasks, ok>>
  BY DEF Execute, stores
<1>2. /\ DOMAIN states' = DOMAIN gas_reservation_map
      /\ \A id \in DOMAIN states' :
           /\ states'[id].kind = "Exists" /\ states'[id].amount = gas_reservation_map[id].amount
           /\ states'[id].start = gas_reservation_map[id].start
           /\ states'[id].finish = gas_reservation_map[id].finish
  BY <1>1 DEF NewReserver
<1>3. Types'  BY <1>1 DEF IInv, Types, Phases
<1>4. Runs'
  <2>1. context[m] \in Nat  BY DEF IInv, Types
  <2> QED  BY <1>1, <2>1 DEF IInv, Types, Runs, Busy
<1>5. Older'  BY <1>1 DEF IInv, Older
<1>6. Reserver'
  BY <1>1, <1>2 DEF IInv, Types, Reserver, IsExisting
<1>7. Agree'
  <2>1. Made = {} /\ Made' = {}  BY <1>1 DEF Made
  <2> QED  BY <1>1, <2>1 DEF IInv, Agree
<1>8. Notes'  BY <1>1 DEF Notes
<1>9. Sends'
  <2>1. sends' = <<>>  BY <1>1 DEF IInv, Sends, Busy
  <2> QED  BY <1>1, <2>1 DEF Sends, Busy
<1>10. Covered'
  <2>1. Created' = {}  BY <1>2 DEF Created
  <2>2. SetAside(Created)' \in [{} -> Nat]  BY <2>1 DEF SetAside
  <2>3. Sum(SetAside(Created)') = 0  BY <2>2, SumZero
  <2>4. limit[m] \in Nat  BY DEF IInv, Types
  <2> QED  BY <1>1, <2>3, <2>4 DEF Covered
<1>11. Bounded'
  <2>1. Live' = DOMAIN gas_reservation_map  BY <1>2 DEF Live, IsLive
  <2> QED  BY <1>1, <2>1 DEF IInv, Bounded, StoredIsNearLimit
<1> QED  BY <1>3, <1>4, <1>5, <1>6, <1>7, <1>8, <1>9, <1>10, <1>11 DEF IInv

\* A syscall works on the reserver alone.
LEMMA SyscallKeeps ==
  ASSUME IInv, Executing, nonce' \in Nat, nonce <= nonce', ok' = TRUE
  PROVE  /\ Types' /\ Runs' /\ Older' /\ Agree' /\ Notes' /\ phase = "execute"
         /\ UNCHANGED <<bn, phase, running, status, context, limit, active, notes>>
         /\ UNCHANGED <<gas_reservation_map, node, spent, tasks>>
<1>1. /\ phase = "execute"
      /\ UNCHANGED <<bn, phase, running, status, context, limit, active, notes>>
      /\ UNCHANGED <<gas_reservation_map, node, spent, tasks>>
  BY DEF Executing, block, stores
<1>2. Types'  BY <1>1 DEF IInv, Types
<1>3. Runs'
  <2>1. running \in Messages /\ context[running] \in Nat /\ nonce \in Nat /\ context[running] <= nonce
    BY <1>1 DEF IInv, Types, Runs, Busy
  <2>2. context[running] <= nonce'  BY <2>1
  <2> QED  BY <1>1, <2>2 DEF IInv, Runs, Busy
<1>4. Older'  BY <1>1 DEF IInv, Older
<1>5. Agree'
  <2>1. Made = {} /\ Made' = {}  BY <1>1 DEF Made
  <2> QED  BY <1>1, <2>1 DEF IInv, Agree
<1>6. Notes'  BY <1>1 DEF Notes
<1> QED  BY <1>1, <1>2, <1>3, <1>4, <1>5, <1>6

\* reserve_gas: the id is new, what it costs leaves the gas counter, and the limit of the
\* reservations is checked.
LEMMA ReserveGasStep ==
  ASSUME IInv, NEW amount \in Amounts, NEW duration \in Durations, ReserveGas(amount, duration)
  PROVE  IInv'
<1>0. PICK id : id = <<running, nonce>>  OBVIOUS
<1> DEFINE cost == CostForReservation(amount, duration)
           new == [kind |-> "Created", amount |-> amount, duration |-> duration, used |-> FALSE]
<1>1. /\ Executing /\ duration # 0 /\ cost <= left /\ CheckExecutionLimit
      /\ left' = left - cost /\ nonce' = nonce + 1 /\ states' = Put(states, id, new)
      /\ ok' = (ok /\ id \notin DOMAIN states) /\ sends' = sends
  BY <1>0 DEF ReserveGas
<1>2. phase = "execute"  BY <1>1 DEF Executing
<1>3. /\ running \in Messages /\ nonce \in Nat /\ context[running] <= nonce /\ id \in Ids
      /\ context[running] \in Nat /\ status[running] = "queued"
  BY <1>0, <1>2 DEF IInv, Runs, Busy, Types, Ids
<1>4. amount \in Nat /\ duration \in Nat \ {0} /\ cost \in Nat
  <2>1. amount \in Nat /\ duration \in Nat \ {0}  BY <1>1, BoundsAssumption
  <2> QED  BY <2>1, CostIsNat
<1>5. id \notin DOMAIN states /\ id \notin DOMAIN gas_reservation_map
  <2>1. id[1] = running /\ id[2] = nonce  BY <1>0
  <2>2. \A x \in DOMAIN gas_reservation_map : x[1] = running => x[2] < context[running] /\ x[2] \in Nat
    BY <1>2, <1>3 DEF IInv, Older, Types, Ids
  <2>3. \A x \in DOMAIN states : states[x].kind = "Created" => x[2] < nonce /\ x[2] \in Nat
    BY <1>2 DEF IInv, Reserver, IsCreated, Ids
  <2>4. \A x \in DOMAIN states : states[x].kind # "Created" => x \in DOMAIN gas_reservation_map
    BY <1>2 DEF IInv, Reserver, IsExisting, IsRemoved
  <2>5. id \notin DOMAIN gas_reservation_map  BY <1>3, <2>1, <2>2
  <2> QED  BY <1>3, <2>1, <2>3, <2>4, <2>5
<1>6. nonce' \in Nat /\ nonce <= nonce' /\ ok' = TRUE
  <2>1. nonce' \in Nat /\ nonce <= nonce'  BY <1>1, <1>3
  <2>2. ok' = TRUE  BY <1>1, <1>5 DEF IInv, Types
  <2> QED  BY <2>1, <2>2
<1>7. /\ Types' /\ Runs' /\ Older' /\ Agree' /\ Notes'
      /\ UNCHANGED <<bn, phase, running, status, context, limit, active, notes>>
      /\ UNCHANGED <<gas_reservation_map, node, spent, tasks>>
  BY <1>1, <1>6, SyscallKeeps
<1>8. /\ DOMAIN states' = DOMAIN states \cup {id} /\ states'[id] = new
      /\ \A x \in DOMAIN states : states'[x] = states[x]
  BY <1>1, <1>5 DEF Put
<1>9. new.kind = "Created" /\ new.amount = amount /\ new.duration = duration  OBVIOUS
<1> HIDE DEF new, cost
<1>10. Reserver'
  <2>1. DOMAIN states' \subseteq Ids /\ IsFiniteSet(DOMAIN states')
    BY <1>2, <1>3, <1>8, FS_AddElement DEF IInv, Reserver
  <2>2. IsCreated(id)'
    <3>1. id[1] = running /\ id[2] = nonce  BY <1>0
    <3> QED  BY <1>1, <1>3, <1>4, <1>7, <1>8, <1>9, <3>1 DEF IsCreated
  <2>3. ASSUME NEW x \in DOMAIN states
        PROVE  /\ states'[x].kind \in {"Exists", "Created", "Removed"}
               /\ states'[x].kind = "Exists" => IsExisting(x)'
               /\ states'[x].kind = "Created" => IsCreated(x)'
               /\ states'[x].kind = "Removed" => IsRemoved(x)'
    <3>1. /\ states[x].kind \in {"Exists", "Created", "Removed"}
          /\ states[x].kind = "Exists" => IsExisting(x)
          /\ states[x].kind = "Created" => IsCreated(x) /\ x[2] \in Nat
          /\ states[x].kind = "Removed" => IsRemoved(x)
      BY <1>2 DEF IInv, Reserver, Ids
    <3>2. IsExisting(x) => IsExisting(x)'  BY <1>7, <1>8 DEF IsExisting
    <3>3. IsRemoved(x) => IsRemoved(x)'  BY <1>7, <1>8 DEF IsRemoved
    <3>4. IsCreated(x) /\ x[2] \in Nat => IsCreated(x)'
      BY SMTT(90), <1>1, <1>3, <1>7, <1>8 DEF IsCreated
    <3> QED  BY <1>8, <3>1, <3>2, <3>3, <3>4
  <2>4. \A x \in DOMAIN gas_reservation_map :
          x \in DOMAIN states' /\ states'[x].kind \in {"Exists", "Removed"}
    BY <1>2, <1>8 DEF IInv, Reserver
  <2> QED  BY <1>2, <1>7, <1>8, <1>9, <2>1, <2>2, <2>3, <2>4 DEF Reserver
<1>11. Sends'
  <2>1. \A i \in DOMAIN sends :
          IsLive(sends[i].id) => /\ IsLive(sends[i].id)'
                                 /\ states'[sends[i].id] = states[sends[i].id]
    BY <1>1, <1>8 DEF IsLive
  <2> QED  BY <1>1, <1>2, <1>7, <2>1 DEF IInv, Sends, Busy
<1>12. Covered'
  <2>1. Created' = Created \cup {id} /\ id \notin Created
    BY <1>5, <1>8, <1>9 DEF Created
  <2>2. Created \in SUBSET Created  OBVIOUS
  <2>3. SetAside(Created) \in [Created -> Nat] /\ IsFiniteSet(Created) /\ Sum(SetAside(Created)) \in Nat
    BY <1>2, <2>2, SetAsideType
  <2> DEFINE f == SetAside(Created)'
  <2>4. /\ DOMAIN f = Created \cup {id} /\ f[id] = cost
        /\ \A x \in Created : f[x] = SetAside(Created)[x]
        /\ f = [x \in Created \cup {id} |-> f[x]]
    BY <1>8, <1>9, <2>1 DEF SetAside, cost, Created
  <2>5. f \in [Created \cup {id} -> Nat]  BY <1>4, <2>3, <2>4
  <2> HIDE DEF f
  <2>6. IsFiniteSet(Created \cup {id})  BY <2>3, FS_AddElement
  <2>7. Sum(f) = Sum(SetAside(Created)) + f[id]
    <3>1. (Created \cup {id}) \ {id} = Created  BY <2>1
    <3>2. /\ SetAside(Created) \in [(Created \cup {id}) \ {id} -> Nat]
          /\ \A x \in (Created \cup {id}) \ {id} : SetAside(Created)[x] = f[x]
      BY <2>3, <2>4, <3>1
    <3>3. id \in Created \cup {id}  OBVIOUS
    <3> QED  BY ONLY <2>5, <2>6, <3>2, <3>3, SumSplit
  <2>8. left \in Nat /\ left + Sum(SetAside(Created)) = limit[running]
    BY <1>2 DEF IInv, Covered
  <2>9. left' \in Nat /\ left' + Sum(f) = limit[running]
    BY SMTT(90), <1>1, <1>4, <2>3, <2>4, <2>7, <2>8
  <2> QED  BY <1>2, <1>7, <2>9 DEF Covered, f
<1>13. Bounded'
  <2>1. Live' = Live \cup {id}  BY <1>8, <1>9 DEF Live, IsLive
  <2>2. IsFiniteSet(Live) /\ Cardinality(Live) <= MaxReservations
    <3>1. Live \subseteq DOMAIN states /\ Live = {x \in DOMAIN states : IsLive(x)}  BY DEF Live
    <3> QED  BY <1>1, <1>2, <3>1, FS_Subset DEF IInv, Reserver, CheckExecutionLimit
  <2>3. Cardinality(Live \cup {id}) \in Nat /\ Cardinality(Live) \in Nat
        /\ (Cardinality(Live \cup {id}) = Cardinality(Live)
            \/ Cardinality(Live \cup {id}) = Cardinality(Live) + 1)
    BY <2>2, FS_AddElement, FS_CardinalityType
  <2>4. Cardinality(Live') <= MaxReservations + 1
    BY SMTT(90), <2>1, <2>2, <2>3, CostsAssumption
  <2> QED  BY <1>7, <2>4 DEF IInv, Bounded, StoredIsNearLimit
<1> QED  BY <1>7, <1>10, <1>11, <1>12, <1>13 DEF IInv

\* unreserve_gas: what was stored is marked, what this execution made is given back.
LEMMA UnreserveGasStep ==
  ASSUME IInv, NEW id \in DOMAIN states, UnreserveGas(id)
  PROVE  IInv'
<1>1. /\ Executing /\ IsLive(id) /\ states[id].used # TRUE
      /\ nonce' = nonce /\ sends' = sends /\ ok' = ok
  BY DEF UnreserveGas, IsUsable
<1>2. phase = "execute"  BY <1>1 DEF Executing
<1>3. nonce' \in Nat /\ nonce <= nonce' /\ ok' = TRUE
  BY <1>1, <1>2 DEF IInv, Types, Runs, Busy
<1>4. /\ Types' /\ Runs' /\ Older' /\ Agree' /\ Notes'
      /\ UNCHANGED <<bn, phase, running, status, context, limit, active, notes>>
      /\ UNCHANGED <<gas_reservation_map, node, spent, tasks>>
  BY <1>1, <1>3, SyscallKeeps
<1>5. \A i \in DOMAIN sends : sends[i].id # id  BY <1>1, <1>2 DEF IInv, Sends
<1>6. Created \in SUBSET Created /\ Created \ {id} \in SUBSET Created  OBVIOUS
<1>7. left \in Nat /\ left + Sum(SetAside(Created)) = limit[running]
  BY <1>2 DEF IInv, Covered
<1>8. IsFiniteSet(Live) /\ Cardinality(Live) \in Nat /\ Cardinality(Live) <= MaxReservations + 1
  <2>1. Live \subseteq DOMAIN states  BY DEF Live
  <2> QED  BY <1>2, <2>1, FS_Subset, FS_CardinalityType DEF IInv, Reserver, Bounded
<1>9. /\ IsFiniteSet(DOMAIN states) /\ DOMAIN states \subseteq Ids
      /\ \A x \in DOMAIN states :
           /\ states[x].kind \in {"Exists", "Created", "Removed"}
           /\ states[x].kind = "Exists" => IsExisting(x)
           /\ states[x].kind = "Created" => IsCreated(x)
           /\ states[x].kind = "Removed" => IsRemoved(x)
      /\ \A x \in DOMAIN gas_reservation_map :
           x \in DOMAIN states /\ states[x].kind \in {"Exists", "Removed"}
  BY <1>2 DEF IInv, Reserver
<1>10. ASSUME NEW x \in DOMAIN states, states'[x] = states[x]
       PROVE  /\ IsExisting(x) => IsExisting(x)'
              /\ IsCreated(x) => IsCreated(x)'
              /\ IsRemoved(x) => IsRemoved(x)'
              /\ IsLive(x) /\ x \in DOMAIN states' <=> IsLive(x)'
  BY <1>1, <1>4, <1>10 DEF IsExisting, IsCreated, IsRemoved, IsLive
<1>11. CASE states[id].kind = "Exists"
  <2> DEFINE gone == [kind |-> "Removed", expiration |-> states[id].finish]
  <2>1. states' = [states EXCEPT ![id] = gone] /\ left' = left  BY <1>11 DEF UnreserveGas
  <2>2. /\ DOMAIN states' = DOMAIN states /\ states'[id] = gone
        /\ \A x \in DOMAIN states \ {id} : states'[x] = states[x]
    BY <2>1
  <2>3. gone.kind = "Removed" /\ gone.expiration = states[id].finish  OBVIOUS
  <2> HIDE DEF gone
  <2>4. IsRemoved(id)'  BY <1>4, <1>9, <1>11, <2>2, <2>3 DEF IsRemoved, IsExisting
  <2>5. Reserver'
    BY <1>2, <1>4, <1>9, <1>10, <1>11, <2>2, <2>3, <2>4 DEF Reserver
  <2>6. Sends'
    <3>1. \A i \in DOMAIN sends :
            IsLive(sends[i].id) => /\ IsLive(sends[i].id)'
                                   /\ states'[sends[i].id] = states[sends[i].id]
      BY <1>1, <1>5, <2>2 DEF IsLive
    <3> QED  BY <1>1, <1>2, <1>4, <3>1 DEF IInv, Sends, Busy
  <2>7. Covered'
    <3>1. Created' = Created  BY <1>11, <2>2, <2>3 DEF Created
    <3>2. id \notin Created  BY <1>11 DEF Created
    <3>3. SetAside(Created)' = SetAside(Created)
      BY <2>2, <3>1, <3>2 DEF SetAside, Created
    <3> QED  BY <1>2, <1>4, <1>7, <2>1, <3>3 DEF Covered
  <2>8. Bounded'
    <3>1. Live' = Live \ {id}  BY <2>2, <2>3 DEF Live, IsLive
    <3>2. IsFiniteSet(Live \ {id}) /\ Cardinality(Live \ {id}) <= Cardinality(Live)
          /\ Cardinality(Live \ {id}) \in Nat
      BY <1>8, FS_Subset, FS_CardinalityType
    <3>3. Cardinality(Live') <= MaxReservations + 1
      BY <1>8, <3>1, <3>2, CostsAssumption
    <3> QED  BY <1>4, <3>3 DEF IInv, Bounded, StoredIsNearLimit
  <2> QED  BY <1>4, <2>5, <2>6, <2>7, <2>8 DEF IInv
<1>12. CASE states[id].kind # "Exists"
  <2> DEFINE cost == CostForReservation(states[id].amount, states[id].duration)
  <2>1. states' = Drop(states, id) /\ left' = left + cost  BY <1>12 DEF UnreserveGas
  <2>2. /\ DOMAIN states' = DOMAIN states \ {id}
        /\ \A x \in DOMAIN states \ {id} : states'[x] = states[x]
    BY <2>1 DEF Drop
  <2>3. id \in Created /\ id \notin DOMAIN gas_reservation_map
    BY <1>1, <1>9, <1>12 DEF IsLive, Created
  <2>4. Reserver'
    <3>1. IsFiniteSet(DOMAIN states')  BY <1>9, <2>2, FS_Subset
    <3> QED  BY <1>2, <1>4, <1>9, <1>10, <2>2, <2>3, <3>1 DEF Reserver
  <2>5. Sends'
    <3>1. \A i \in DOMAIN sends :
            IsLive(sends[i].id) => /\ IsLive(sends[i].id)'
                                   /\ states'[sends[i].id] = states[sends[i].id]
      BY <1>1, <1>5, <2>2 DEF IsLive
    <3> QED  BY <1>1, <1>2, <1>4, <3>1 DEF IInv, Sends, Busy
  <2>6. Covered'
    <3>1. Created' = Created \ {id}  BY <2>2 DEF Created
    <3>2. SetAside(Created)' = SetAside(Created \ {id})
      BY <2>2, <3>1 DEF SetAside, Created
    <3>3. Sum(SetAside(Created)) = Sum(SetAside(Created \ {id})) + cost
      BY <1>2, <1>6, <2>3, SetAsideLess
    <3>4. Sum(SetAside(Created \ {id})) \in Nat  BY <1>2, <1>6, SetAsideType
    <3>5. cost \in Nat  BY <1>9, <2>3, CostIsNat DEF Created, IsCreated
    <3> HIDE DEF cost
    <3>6. left' \in Nat /\ left' + Sum(SetAside(Created \ {id})) = limit[running]
      BY SMTT(90), <1>7, <2>1, <3>3, <3>4, <3>5
    <3> QED  BY <1>2, <1>4, <3>2, <3>6 DEF Covered
  <2>7. Bounded'
    <3>1. Live' = Live \ {id}  BY <2>2 DEF Live, IsLive
    <3>2. IsFiniteSet(Live \ {id}) /\ Cardinality(Live \ {id}) <= Cardinality(Live)
          /\ Cardinality(Live \ {id}) \in Nat
      BY <1>8, FS_Subset, FS_CardinalityType
    <3>3. Cardinality(Live') <= MaxReservations + 1
      BY <1>8, <3>1, <3>2, CostsAssumption
    <3> QED  BY <1>4, <3>3 DEF IInv, Bounded, StoredIsNearLimit
  <2> QED  BY <1>4, <2>4, <2>5, <2>6, <2>7 DEF IInv
<1> QED  BY <1>11, <1>12

\* reservation_send: the reservation is marked, and no other message will use it.
LEMMA ReservationSendStep ==
  ASSUME IInv, NEW id \in DOMAIN states, NEW delay \in {0} \cup Durations, NEW toUser \in BOOLEAN,
         ReservationSend(id, delay, toUser)
  PROVE  IInv'
<1> DEFINE new == [id |-> id, delay |-> delay, toUser |-> toUser]
<1>1. /\ Executing /\ IsLive(id) /\ states[id].used # TRUE /\ Suffices(states[id].amount, delay)
      /\ states' = [states EXCEPT ![id].used = TRUE] /\ sends' = Append(sends, new)
      /\ nonce' = nonce /\ left' = left /\ ok' = ok
  BY DEF ReservationSend, IsUsable, Suffices
<1>2. phase = "execute"  BY <1>1 DEF Executing
<1>3. nonce' \in Nat /\ nonce <= nonce' /\ ok' = TRUE
  BY <1>1, <1>2 DEF IInv, Types, Runs, Busy
<1>4. /\ Types' /\ Runs' /\ Older' /\ Agree' /\ Notes'
      /\ UNCHANGED <<bn, phase, running, status, context, limit, active, notes>>
      /\ UNCHANGED <<gas_reservation_map, node, spent, tasks>>
  BY <1>1, <1>3, SyscallKeeps
<1>5. /\ DOMAIN states' = DOMAIN states /\ states'[id] = [states[id] EXCEPT !.used = TRUE]
      /\ \A x \in DOMAIN states \ {id} : states'[x] = states[x]
  BY <1>1
<1>6. /\ IsFiniteSet(DOMAIN states) /\ DOMAIN states \subseteq Ids
      /\ \A x \in DOMAIN states :
           /\ states[x].kind \in {"Exists", "Created", "Removed"}
           /\ states[x].kind = "Exists" => IsExisting(x)
           /\ states[x].kind = "Created" => IsCreated(x)
           /\ states[x].kind = "Removed" => IsRemoved(x)
      /\ \A x \in DOMAIN gas_reservation_map :
           x \in DOMAIN states /\ states[x].kind \in {"Exists", "Removed"}
  BY <1>2 DEF IInv, Reserver
<1>7. /\ states'[id].kind = states[id].kind /\ states'[id].amount = states[id].amount
      /\ states'[id].start = states[id].start /\ states'[id].finish = states[id].finish
      /\ states'[id].duration = states[id].duration /\ states'[id].used = TRUE
  BY <1>5
<1>8. ASSUME NEW x \in DOMAIN states
      PROVE  /\ states'[x].kind = states[x].kind
             /\ IsLive(x) <=> IsLive(x)'
             /\ IsLive(x) => states'[x].amount = states[x].amount
             /\ states[x].kind = "Exists" => IsExisting(x)'
             /\ states[x].kind = "Created" => IsCreated(x)' /\ states'[x].duration = states[x].duration
             /\ states[x].kind = "Removed" => IsRemoved(x)'
  <2>1. states'[x].kind = states[x].kind  BY <1>5, <1>7
  <2>2. IsLive(x) <=> IsLive(x)'  BY <1>5, <2>1 DEF IsLive
  <2>3. CASE x = id
    BY <1>1, <1>4, <1>6, <1>7, <2>1, <2>2, <2>3 DEF IsLive, IsExisting, IsCreated, IsRemoved
  <2>4. CASE x # id
    BY <1>1, <1>4, <1>5, <1>6, <2>1, <2>2, <2>4 DEF IsExisting, IsCreated, IsRemoved
  <2> QED  BY <2>3, <2>4
<1>9. Reserver'  BY <1>2, <1>4, <1>5, <1>6, <1>8 DEF Reserver
<1>10. Sends'
  <2>1. sends \in Seq([id : Ids, delay : Nat, toUser : BOOLEAN])
    BY <1>2 DEF IInv, Sends, Busy
  <2>2. new \in [id : Ids, delay : Nat, toUser : BOOLEAN] /\ new.id = id /\ new.delay = delay
    <3>1. delay \in Nat /\ id \in Ids  BY <1>6, BoundsAssumption
    <3> QED  BY <3>1
  <2> HIDE DEF new
  <2>3. /\ sends' \in Seq([id : Ids, delay : Nat, toUser : BOOLEAN])
        /\ Len(sends) \in Nat /\ DOMAIN sends = 1..Len(sends)
        /\ DOMAIN sends' = 1..(Len(sends) + 1) /\ sends'[Len(sends) + 1] = new
        /\ \A i \in DOMAIN sends : sends'[i] = sends[i]
    BY SMTT(90), <1>1, <2>1, <2>2
  <2>4. DOMAIN sends' = DOMAIN sends \cup {Len(sends) + 1} /\ Len(sends) + 1 \notin DOMAIN sends
    BY SMTT(90), <2>3
  <2>5. \A i \in DOMAIN sends : sends[i].id # id
    BY <1>1, <1>2 DEF IInv, Sends
  <2>6. \A i, j \in DOMAIN sends : sends[i].id = sends[j].id => i = j
    BY <1>2 DEF IInv, Sends, Busy
  <2>7. \A i, j \in DOMAIN sends' : sends'[i].id = sends'[j].id => i = j
    BY <2>2, <2>3, <2>4, <2>5, <2>6
  <2>8. ASSUME NEW i \in DOMAIN sends'
        PROVE  /\ IsLive(sends[i].id)' /\ states'[sends'[i].id].used = TRUE
               /\ Suffices(states[sends[i].id].amount, sends[i].delay)'
    <3>1. CASE i \in DOMAIN sends
      <4>1. /\ sends'[i] = sends[i] /\ IsLive(sends[i].id) /\ states[sends[i].id].used = TRUE
            /\ Suffices(states[sends[i].id].amount, sends[i].delay)
        BY <1>2, <2>3, <3>1 DEF IInv, Sends
      <4>2. sends[i].id \in DOMAIN states /\ sends[i].id # id  BY <2>5, <3>1, <4>1 DEF IsLive
      <4> QED  BY <1>5, <1>8, <4>1, <4>2 DEF IsLive, Suffices
    <3>2. CASE i = Len(sends) + 1
      <4>1. sends'[i].id = id /\ sends'[i].delay = delay  BY <2>2, <2>3, <3>2
      <4>2. IsLive(id)'  BY <1>1, <1>8
      <4> QED  BY <1>1, <1>7, <4>1, <4>2 DEF IsLive, Suffices
    <3> QED  BY <2>4, <3>1, <3>2
  <2> QED  BY <1>2, <1>4, <2>3, <2>7, <2>8 DEF Sends, Busy
<1>11. Covered'
  <2>1. Created' = Created  BY <1>5, <1>8 DEF Created
  <2>2. \A x \in Created : /\ states'[x].amount = states[x].amount
                           /\ states'[x].duration = states[x].duration
    BY <1>8 DEF Created, IsLive
  <2>3. SetAside(Created)' = SetAside(Created)  BY <2>1, <2>2 DEF SetAside
  <2> QED  BY <1>1, <1>2, <1>4, <2>3 DEF IInv, Covered
<1>12. Bounded'
  <2>1. Live' = Live  BY <1>5, <1>8 DEF Live
  <2> QED  BY <1>4, <2>1 DEF IInv, Bounded, StoredIsNearLimit
<1> QED  BY <1>4, <1>9, <1>10, <1>11, <1>12 DEF IInv

-----------------------------------------------------------------------------
(* The journal. *)

\* An execution ends well: every reservation it made or gave back has a note to come.
LEMMA FinishStep ==
  ASSUME IInv, NEW result, Finish(result)
  PROVE  IInv'
<1>1. /\ phase = "execute" /\ phase' = "journal"
      /\ notes' = {id \in DOMAIN states : states[id].kind \in {"Created", "Removed"}}
      /\ UNCHANGED <<bn, running, status, context, limit, active, states, nonce, left, sends, ok>>
      /\ UNCHANGED <<gas_reservation_map, node, spent, tasks>>
  BY DEF Finish, stores
<1>2. Types' /\ Runs' /\ Older'  BY <1>1 DEF IInv, Types, Phases, Runs, Busy, Older
<1>3. Reserver'  BY <1>1 DEF IInv, Reserver, IsExisting, IsCreated, IsRemoved
<1>4. Agree'
  <2>1. Made = {} /\ Made' = {}  BY <1>1 DEF Made
  <2> QED  BY <1>1, <2>1 DEF IInv, Agree
<1>5. Notes'  BY <1>1 DEF Notes
<1>6. Sends'  BY <1>1 DEF IInv, Sends, Busy, IsLive, Suffices
<1>7. Covered'
  <2>1. (Created \cap notes)' = Created  BY <1>1 DEF Created
  <2>2. SetAside(Created \cap notes)' = SetAside(Created)  BY <1>1, <2>1 DEF SetAside
  <2>3. Created \in SUBSET Created  OBVIOUS
  <2>4. Sum(SetAside(Created)) \in Nat  BY <1>1, <2>3, SetAsideType
  <2>5. left \in Nat /\ left + Sum(SetAside(Created)) = limit[running]
    BY <1>1 DEF IInv, Covered
  <2>6. Sum(SetAside(Created)) <= limit[running]  BY SMTT(90), <2>4, <2>5
  <2> QED  BY <1>1, <2>2, <2>6 DEF Covered
<1>8. Bounded'  BY <1>1 DEF IInv, Bounded, Live, IsLive, StoredIsNearLimit
<1> QED  BY <1>2, <1>3, <1>4, <1>5, <1>6, <1>7, <1>8 DEF IInv

\* The reserver while the journal is handled, spelt out.
LEMMA ReserverFacts ==
  ASSUME IInv, phase = "journal"
  PROVE  /\ DOMAIN states \subseteq Ids /\ IsFiniteSet(DOMAIN states)
         /\ \A x \in DOMAIN states :
              /\ states[x].kind \in {"Exists", "Created", "Removed"}
              /\ states[x].kind = "Exists" => IsExisting(x)
              /\ states[x].kind = "Created" => IsCreated(x) /\ x \notin DOMAIN gas_reservation_map
              /\ states[x].kind = "Removed" /\ x \in notes => IsRemoved(x)
              /\ states[x].kind = "Removed" /\ x \notin notes => x \notin DOMAIN gas_reservation_map
         /\ \A x \in DOMAIN gas_reservation_map :
              x \in DOMAIN states /\ states[x].kind \in {"Exists", "Removed"}
BY DEF IInv, Reserver

\* journal, reserve_gas: the node and the task are new, and the gas of the message, from
\* which Ext has taken the cost, covers both the amount and the rent.
LEMMA ReserveNoteStep ==
  ASSUME IInv, NEW id \in notes, ReserveNote(id)
  PROVE  IInv'
<1> DEFINE amount == states[id].amount
           wanted == HoldDuration(bn, states[id].duration)
           lock == LockAmount(bn, wanted, ReservationCost)
           new == [value |-> amount, lock |-> lock]
<1>1. /\ phase = "journal" /\ states[id].kind = "Created"
      /\ notes' = notes \ {id} /\ node' = Put(node, id, new)
      /\ limit' = [limit EXCEPT ![running] = @ - (amount + lock)]
      /\ tasks' = tasks \cup {Task(wanted, id)}
      /\ ok' = (/\ ok /\ wanted > bn /\ amount + lock <= limit[running]
                /\ id \notin DOMAIN node \cup spent /\ Task(wanted, id) \notin tasks)
      /\ UNCHANGED <<bn, phase, running, status, context, active, gas_reservation_map>>
      /\ UNCHANGED <<spent, states, nonce, left, sends>>
  BY DEF ReserveNote, block
<1>2. id \in DOMAIN states /\ id \in Ids /\ id \in Created /\ IsCreated(id)
      /\ id \notin DOMAIN gas_reservation_map
  BY <1>1, ReserverFacts DEF IInv, Notes, Created
<1>3. /\ running \in Messages /\ context[running] \in Nat /\ limit[running] \in Nat /\ bn \in Nat
      /\ status[running] = "queued" /\ active /\ limit \in [Messages -> Nat]
  BY <1>1 DEF IInv, Runs, Busy, Types
<1>4. /\ amount \in Nat /\ wanted \in Nat /\ wanted > bn /\ lock \in Nat
      /\ amount + lock = CostForReservation(amount, states[id].duration)
  <2>1. amount \in Nat /\ states[id].duration \in Nat \ {0}  BY <1>2 DEF IsCreated
  <2>2. wanted \in Nat /\ wanted > bn  BY <1>3, <2>1 DEF HoldDuration
  <2>3. lock = RentFor(states[id].duration, ReservationCost) /\ lock \in Nat
    <3>1. states[id].duration \in Nat /\ ReservationCost \in Nat  BY <2>1, CostsAssumption
    <3>2. bn \in Nat  BY <1>3
    <3>3. /\ LockAmount(bn, HoldDuration(bn, states[id].duration), ReservationCost)
               = RentFor(states[id].duration, ReservationCost)
          /\ RentFor(states[id].duration, ReservationCost) \in Nat
      BY ONLY <3>1, <3>2, DelayRent
    <3> QED  BY <3>3
  <2> HIDE DEF lock
  <2> QED  BY <2>1, <2>2, <2>3 DEF CostForReservation
<1>5. id \notin DOMAIN node /\ id \notin spent
  <2>1. id \notin Made  BY DEF Made
  <2>2. id \notin spent
    <3>1. id[1] = running /\ context[running] <= id[2] /\ id[2] \in Nat
      BY <1>2 DEF IsCreated, Ids
    <3>2. id \in spent => id[2] < context[running]  BY <1>1, <1>3, <3>1 DEF IInv, Older
    <3> QED  BY SMTT(90), <1>3, <3>1, <3>2
  <2> QED  BY <1>2, <2>1, <2>2 DEF IInv, Agree
<1> HIDE DEF amount, wanted, lock
<1>6. Task(wanted, id) \in Tasks /\ Task(wanted, id).id = id /\ Task(wanted, id).at = wanted
  BY <1>2, <1>4, TaskIs
<1>7. \A t \in tasks : t.id # id  BY <1>5 DEF IInv, Agree
<1>8. /\ amount + lock <= limit[running]
      /\ Sum(SetAside((Created \cap notes) \ {id})) <= limit[running] - (amount + lock)
      /\ limit[running] - (amount + lock) \in Nat
  <2>1. Created \cap notes \in SUBSET Created /\ (Created \cap notes) \ {id} \in SUBSET Created
        /\ id \in Created \cap notes
    BY <1>2
  <2>2. Sum(SetAside(Created \cap notes)) = Sum(SetAside((Created \cap notes) \ {id})) + (amount + lock)
    BY <1>1, <1>4, <2>1, SetAsideLess DEF amount
  <2>3. Sum(SetAside((Created \cap notes) \ {id})) \in Nat  BY <1>1, <2>1, SetAsideType
  <2>4. Sum(SetAside(Created \cap notes)) <= limit[running]  BY <1>1 DEF IInv, Covered
  <2> QED  BY SMTT(90), <1>3, <1>4, <2>2, <2>3, <2>4
<1>9. ok' = TRUE
  <2>1. Task(wanted, id) \notin tasks  BY <1>6, <1>7
  <2> QED  BY <1>1, <1>4, <1>5, <1>8, <2>1 DEF IInv, Types
<1>10. /\ limit' \in [Messages -> Nat] /\ limit'[running] = limit[running] - (amount + lock)
  BY <1>1, <1>3, <1>8
<1>11. /\ DOMAIN node' = DOMAIN node \cup {id} /\ node'[id] = new
       /\ \A x \in DOMAIN node : node'[x] = node[x]
  BY <1>1, <1>5 DEF Put
<1>12. new \in Nodes /\ new.value = amount  BY <1>4 DEF Nodes
<1> HIDE DEF new
<1>13. Types'  BY <1>1, <1>6, <1>9, <1>10, <1>11, <1>12 DEF IInv, Types
<1>14. Runs' /\ Older'  BY <1>1 DEF IInv, Runs, Busy, Older
<1>15. Reserver'
  <2>1. \A x \in DOMAIN states : /\ IsExisting(x) => IsExisting(x)'
                                 /\ IsCreated(x) => IsCreated(x)'
                                 /\ IsRemoved(x) => IsRemoved(x)'
    BY <1>1 DEF IsExisting, IsCreated, IsRemoved
  <2> QED  BY <1>1, <2>1, ReserverFacts DEF Reserver
<1>16. Agree'
  <2>1. Made' = Made \cup {id} /\ id \notin Made  BY <1>1, <1>2 DEF Made
  <2>2. DOMAIN node' = DOMAIN gas_reservation_map' \cup Made'  BY <1>1, <1>11, <2>1 DEF IInv, Agree
  <2>3. \A t \in tasks' : t.id \in DOMAIN node'  BY <1>1, <1>6, <1>11 DEF IInv, Agree
  <2>4. \A x \in DOMAIN gas_reservation_map' :
          /\ node'[x].value = gas_reservation_map'[x].amount
          /\ Task(gas_reservation_map'[x].finish, x) \in tasks'
          /\ \A t \in tasks' : t.id = x => t.at = gas_reservation_map'[x].finish
    BY <1>1, <1>2, <1>6, <1>11 DEF IInv, Agree
  <2>5. \A x \in Made' :
          /\ node'[x].value = states'[x].amount
          /\ Task(HoldDuration(bn', states'[x].duration), x) \in tasks'
          /\ \A t \in tasks' : t.id = x => t.at = HoldDuration(bn', states'[x].duration)
    <3>1. \A x \in Made : x # id /\ x \in DOMAIN node  BY <2>1 DEF IInv, Agree
    <3>2. ASSUME NEW x \in Made
          PROVE  /\ node'[x].value = states'[x].amount
                 /\ Task(HoldDuration(bn', states'[x].duration), x) \in tasks'
                 /\ \A t \in tasks' : t.id = x => t.at = HoldDuration(bn', states'[x].duration)
      BY <1>1, <1>6, <1>11, <3>1 DEF IInv, Agree
    <3>3. /\ node'[id].value = states'[id].amount
          /\ HoldDuration(bn', states'[id].duration) = wanted
      BY <1>1, <1>11, <1>12 DEF amount, wanted
    <3>4. \A t \in tasks' : t.id = id => t.at = wanted  BY <1>1, <1>6, <1>7
    <3>5. Task(wanted, id) \in tasks'  BY <1>1
    <3> QED  BY <2>1, <3>2, <3>3, <3>4, <3>5
  <2> QED  BY <2>2, <2>3, <2>4, <2>5 DEF Agree
<1>17. Notes'  BY <1>1 DEF IInv, Notes
<1>18. Sends'  BY <1>1 DEF IInv, Sends, Busy, IsLive, Suffices
<1>19. Covered'
  <2>1. (Created \cap notes)' = (Created \cap notes) \ {id}  BY <1>1 DEF Created
  <2>2. SetAside(Created \cap notes)' = SetAside((Created \cap notes) \ {id})
    BY <1>1, <2>1 DEF SetAside
  <2> QED  BY <1>1, <1>8, <1>10, <2>2 DEF Covered
<1>20. Bounded'  BY <1>1 DEF IInv, Bounded, Live, IsLive, StoredIsNearLimit
<1> QED  BY <1>13, <1>14, <1>15, <1>16, <1>17, <1>18, <1>19, <1>20 DEF IInv

\* A reservation leaves the map, the nodes and the tasks together.
LEMMA Removal ==
  ASSUME IInv, NEW id \in DOMAIN gas_reservation_map, NEW at, at = gas_reservation_map[id].finish,
         RemoveGasReservation(id, at), bn' = bn, states' = states, notes' \subseteq notes,
         (phase = "journal" /\ phase' = "journal") \/ (phase # "journal" /\ phase' # "journal"),
         phase = "journal" => notes' = notes \ {id} /\ id \notin Created
  PROVE  /\ DOMAIN gas_reservation_map' = DOMAIN gas_reservation_map \ {id}
         /\ \A x \in DOMAIN gas_reservation_map \ {id} :
              gas_reservation_map'[x] = gas_reservation_map[x]
         /\ IsFiniteSet(DOMAIN gas_reservation_map')
         /\ \A x \in DOMAIN node' : node'[x] \in Nodes
         /\ tasks' \subseteq Tasks /\ Agree' /\ StoredIsNearLimit'
<1>1. /\ DOMAIN gas_reservation_map' = DOMAIN gas_reservation_map \ {id}
      /\ \A x \in DOMAIN gas_reservation_map \ {id} :
           gas_reservation_map'[x] = gas_reservation_map[x]
      /\ DOMAIN node' = DOMAIN node \ {id}
      /\ \A x \in DOMAIN node \ {id} : node'[x] = node[x]
      /\ tasks' = tasks \ {Task(at, id)}
  BY DEF RemoveGasReservation, Drop
<1>2. Made' = Made /\ id \notin Made
  BY DEF Made, Created
<1>3. tasks \subseteq Tasks /\ \A t \in tasks : t.id = id => t = Task(at, id)
  <2>1. tasks \subseteq Tasks  BY DEF IInv, Types
  <2>2. \A t \in tasks : t.id = id => t.at = at  BY DEF IInv, Agree
  <2> QED  BY <2>1, <2>2, TaskIs
<1>4. \A t \in tasks' : t.id # id /\ t \in tasks  BY <1>1, <1>3
<1>5. \A x, t : x # id => Task(t, x) # Task(at, id)  BY TaskIs
<1>6. Agree'
  <2>1. DOMAIN node' = DOMAIN gas_reservation_map' \cup Made'  BY <1>1, <1>2 DEF IInv, Agree
  <2>2. \A t \in tasks' : t.id \in DOMAIN node'  BY <1>1, <1>4 DEF IInv, Agree
  <2>3. ASSUME NEW x \in DOMAIN gas_reservation_map'
        PROVE  /\ node'[x].value = gas_reservation_map'[x].amount
               /\ Task(gas_reservation_map'[x].finish, x) \in tasks'
               /\ \A t \in tasks' : t.id = x => t.at = gas_reservation_map'[x].finish
    <3>1. /\ x \in DOMAIN gas_reservation_map /\ x # id /\ x \in DOMAIN node
          /\ gas_reservation_map'[x] = gas_reservation_map[x] /\ node'[x] = node[x]
      BY <1>1 DEF IInv, Agree
    <3> QED  BY <1>1, <1>4, <1>5, <3>1 DEF IInv, Agree
  <2>4. ASSUME NEW x \in Made
        PROVE  /\ node'[x].value = states'[x].amount
               /\ Task(HoldDuration(bn', states'[x].duration), x) \in tasks'
               /\ \A t \in tasks' : t.id = x => t.at = HoldDuration(bn', states'[x].duration)
    <3>1. x # id /\ x \in DOMAIN node /\ node'[x] = node[x]  BY <1>1, <1>2 DEF IInv, Agree
    <3> QED  BY <1>1, <1>4, <1>5, <3>1 DEF IInv, Agree
  <2> QED  BY <1>2, <2>1, <2>2, <2>3, <2>4 DEF Agree
<1>7. IsFiniteSet(DOMAIN gas_reservation_map') /\ StoredIsNearLimit'
  <2> DEFINE M == DOMAIN gas_reservation_map
  <2>1. IsFiniteSet(M) /\ Cardinality(M) <= MaxReservations + 1
    BY DEF IInv, Types, Bounded, StoredIsNearLimit
  <2>2. IsFiniteSet(M \ {id}) /\ Cardinality(M \ {id}) <= Cardinality(M)
    BY <2>1, FS_Subset
  <2>3. Cardinality(M) \in Nat /\ Cardinality(M \ {id}) \in Nat  BY <2>1, <2>2, FS_CardinalityType
  <2> HIDE DEF M
  <2>4. Cardinality(M \ {id}) <= MaxReservations + 1  BY SMTT(90), <2>1, <2>2, <2>3, CostsAssumption
  <2> QED  BY <1>1, <2>2, <2>4 DEF StoredIsNearLimit, M
<1>8. (\A x \in DOMAIN node' : node'[x] \in Nodes) /\ tasks' \subseteq Tasks
  BY <1>1, <1>3 DEF IInv, Types
<1> QED  BY <1>1, <1>6, <1>7, <1>8

\* journal, unreserve_gas: what was removed is found in all three stores.
LEMMA UnreserveNoteStep ==
  ASSUME IInv, NEW id \in notes, UnreserveNote(id)
  PROVE  IInv'
<1>1. /\ phase = "journal" /\ states[id].kind = "Removed" /\ notes' = notes \ {id}
      /\ RemoveGasReservation(id, states[id].expiration) /\ ok' = (ok /\ IsReserved(id))
      /\ UNCHANGED <<bn, phase, running, status, context, limit, active>>
      /\ UNCHANGED <<spent, states, nonce, left, sends>>
  BY DEF UnreserveNote, block
<1>2. id \in DOMAIN states /\ IsRemoved(id) /\ id \notin Created
  BY <1>1, ReserverFacts DEF IInv, Notes, Created
<1>3. id \in DOMAIN gas_reservation_map /\ states[id].expiration = gas_reservation_map[id].finish
  BY <1>2 DEF IsRemoved
<1>4. /\ DOMAIN gas_reservation_map' = DOMAIN gas_reservation_map \ {id}
      /\ \A x \in DOMAIN gas_reservation_map \ {id} :
           gas_reservation_map'[x] = gas_reservation_map[x]
      /\ IsFiniteSet(DOMAIN gas_reservation_map')
      /\ \A x \in DOMAIN node' : node'[x] \in Nodes
      /\ tasks' \subseteq Tasks /\ Agree' /\ StoredIsNearLimit'
  BY <1>1, <1>2, <1>3, Removal
<1>5. ok' = TRUE
  <2>1. active /\ id \in DOMAIN node  BY <1>1, <1>3 DEF IInv, Runs, Busy, Agree
  <2> QED  BY <1>1, <1>3, <2>1 DEF IInv, Types, IsReserved
<1>6. Types'  BY <1>1, <1>4, <1>5 DEF IInv, Types
<1>7. Runs' /\ Older'  BY <1>1, <1>4 DEF IInv, Runs, Busy, Older
<1>8. Reserver'
  <2>1. \A x \in DOMAIN states \ {id} : /\ IsExisting(x) => IsExisting(x)'
                                        /\ IsRemoved(x) => IsRemoved(x)'
    BY <1>1, <1>4 DEF IsExisting, IsRemoved
  <2>2. \A x \in DOMAIN states : IsCreated(x) => IsCreated(x)'  BY <1>1 DEF IsCreated
  <2> QED  BY <1>1, <1>4, <2>1, <2>2, ReserverFacts DEF Reserver
<1>9. Notes'  BY <1>1 DEF IInv, Notes
<1>10. Sends'  BY <1>1 DEF IInv, Sends, Busy, IsLive, Suffices
<1>11. Covered'
  <2>1. (Created \cap notes)' = Created \cap notes  BY <1>1, <1>2 DEF Created
  <2>2. SetAside(Created \cap notes)' = SetAside(Created \cap notes)
    BY <1>1, <2>1 DEF SetAside
  <2> QED  BY <1>1, <2>2 DEF IInv, Covered
<1>12. Bounded'  BY <1>1, <1>4 DEF IInv, Bounded, Live, IsLive
<1> QED  BY <1>4, <1>6, <1>7, <1>8, <1>9, <1>10, <1>11, <1>12 DEF IInv


\* journal, update_gas_reservation: with every note handled the map of the reserver is
\* the one the nodes and the tasks are for.
LEMMA UpdateGasReservationStep ==
  ASSUME IInv, UpdateGasReservation
  PROVE  IInv'
<1>1. /\ phase = "journal" /\ notes = {} /\ phase' = "send" /\ gas_reservation_map' = IntoMap
      /\ ok' = (ok /\ active)
      /\ UNCHANGED <<bn, running, status, context, limit, active>>
      /\ UNCHANGED <<node, spent, tasks, states, nonce, left, sends, notes>>
  BY DEF UpdateGasReservation, ext
<1>2. /\ DOMAIN states \subseteq Ids /\ IsFiniteSet(DOMAIN states)
      /\ \A id \in DOMAIN states :
           /\ states[id].kind \in {"Exists", "Created", "Removed"}
           /\ states[id].kind = "Exists" => IsExisting(id)
           /\ states[id].kind = "Created" => IsCreated(id)
           /\ states[id].kind = "Removed" => id \notin DOMAIN gas_reservation_map
      /\ \A id \in DOMAIN gas_reservation_map :
           id \in DOMAIN states /\ states[id].kind \in {"Exists", "Removed"}
  BY <1>1 DEF IInv, Reserver
<1>3. DOMAIN gas_reservation_map' = Live /\ Live \subseteq DOMAIN states
  BY <1>1, <1>2 DEF IntoMap, Live, IsLive
<1>4. Made = Created /\ Made' = {}
  BY <1>1 DEF Made, Created
<1>5. Live = DOMAIN gas_reservation_map \cup Created
  <2>1. \A id \in Live : id \in DOMAIN gas_reservation_map \/ id \in Created
    BY <1>2 DEF Live, IsLive, IsExisting, Created
  <2>2. \A id \in DOMAIN gas_reservation_map : id \in Live  BY <1>2 DEF Live, IsLive
  <2>3. \A id \in Created : id \in Live  BY DEF Created, Live, IsLive
  <2> QED  BY <2>1, <2>2, <2>3
<1>6. bn \in Nat /\ active  BY <1>1 DEF IInv, Types, Runs, Busy
<1>7. ASSUME NEW id \in DOMAIN gas_reservation_map
      PROVE  id \notin Created /\ gas_reservation_map'[id] = gas_reservation_map[id]
  <2>1. id \in DOMAIN states /\ states[id].kind = "Exists" /\ IsExisting(id)  BY <1>2
  <2>2. id \in Live  BY <1>5
  <2>3. gas_reservation_map'[id] = [amount |-> states[id].amount, start |-> states[id].start,
                                    finish |-> states[id].finish]
    BY <1>1, <1>3, <2>1, <2>2 DEF IntoMap, Live, IsLive
  <2>4. gas_reservation_map[id] \in Slots  BY DEF IInv, Types
  <2> QED  BY <2>1, <2>3, <2>4 DEF IsExisting, Slots, Created
<1>8. ASSUME NEW id \in Created
      PROVE  /\ id \notin DOMAIN gas_reservation_map /\ id \in DOMAIN states /\ IsCreated(id)
             /\ gas_reservation_map'[id] \in Slots
             /\ gas_reservation_map'[id].amount = states[id].amount
             /\ gas_reservation_map'[id].finish = HoldDuration(bn, states[id].duration)
  <2>1. id \in DOMAIN states /\ states[id].kind = "Created"  BY DEF Created
  <2>2. IsCreated(id) /\ id \notin DOMAIN gas_reservation_map  BY <1>2, <2>1
  <2>3. gas_reservation_map'[id] = [amount |-> states[id].amount, start |-> bn,
                                    finish |-> HoldDuration(bn, states[id].duration)]
    BY <1>1, <1>5, <2>1 DEF IntoMap, Live, IsLive
  <2>4. HoldDuration(bn, states[id].duration) \in Nat
    BY SMTT(90), <1>6, <2>2 DEF IsCreated, HoldDuration
  <2>5. gas_reservation_map'[id] \in Slots  BY SMTT(90), <1>6, <2>2, <2>3, <2>4 DEF IsCreated, Slots
  <2>6. /\ gas_reservation_map'[id].amount = states[id].amount
        /\ gas_reservation_map'[id].finish = HoldDuration(bn, states[id].duration)
    BY <2>3
  <2> QED  BY <2>1, <2>2, <2>5, <2>6
<1>9. Types'
  <2>1. DOMAIN gas_reservation_map' \subseteq Ids /\ IsFiniteSet(DOMAIN gas_reservation_map')
    BY <1>2, <1>3, FS_Subset
  <2>2. \A id \in DOMAIN gas_reservation_map : gas_reservation_map'[id] \in Slots
    BY <1>7 DEF IInv, Types
  <2>3. \A id \in Created : gas_reservation_map'[id] \in Slots
    BY <1>8
  <2>4. \A id \in DOMAIN gas_reservation_map' : gas_reservation_map'[id] \in Slots
    BY <1>3, <1>5, <2>2, <2>3
  <2>5. phase' \in Phases /\ ok' = TRUE  BY <1>1, <1>6 DEF IInv, Types, Phases
  <2> QED  BY <1>1, <2>1, <2>4, <2>5 DEF IInv, Types
<1>10. Runs'
  BY <1>1, <1>6 DEF IInv, Runs, Busy
<1>11. Older'
  <2>1. running \in Messages /\ status[running] = "queued" /\ nonce \in Nat
        /\ context[running] \in Nat /\ context[running] <= nonce
    BY <1>1 DEF IInv, Runs, Busy, Types
  <2>2. ASSUME NEW id \in DOMAIN gas_reservation_map \cup spent, status[id[1]] # "done"
        PROVE  id[2] < (IF id[1] = running THEN nonce ELSE context[id[1]])
    <3>1. id[2] < context[id[1]]  BY <1>1, <2>2 DEF IInv, Older
    <3>2. id \in Messages \X Nat  BY DEF IInv, Types, Ids
    <3>3. id[2] \in Nat  BY <3>2
    <3> QED  BY SMTT(90), <2>1, <3>1, <3>3
  <2>3. \A id \in Created : id[2] < (IF id[1] = running THEN nonce ELSE context[id[1]])
    BY <1>8 DEF IsCreated
  <2> QED  BY <1>1, <1>3, <1>5, <2>2, <2>3 DEF Older
<1>12. Reserver' /\ Notes' /\ Covered'
  BY <1>1 DEF Reserver, Notes, Covered
<1>13. Agree'
  <2>1. DOMAIN node' = DOMAIN gas_reservation_map' \cup Made'
    BY <1>1, <1>3, <1>4, <1>5 DEF IInv, Agree
  <2>2. \A id \in DOMAIN gas_reservation_map :
          /\ node'[id].value = gas_reservation_map'[id].amount
          /\ Task(gas_reservation_map'[id].finish, id) \in tasks'
          /\ \A t \in tasks' : t.id = id => t.at = gas_reservation_map'[id].finish
    <3>1. \A id \in DOMAIN gas_reservation_map :
            /\ node[id].value = gas_reservation_map[id].amount
            /\ Task(gas_reservation_map[id].finish, id) \in tasks
            /\ \A t \in tasks : t.id = id => t.at = gas_reservation_map[id].finish
      BY DEF IInv, Agree
    <3>2. node' = node /\ tasks' = tasks  BY <1>1
    <3> QED  BY ONLY <1>7, <3>1, <3>2
  <2>3. \A id \in Created :
          /\ node'[id].value = gas_reservation_map'[id].amount
          /\ Task(gas_reservation_map'[id].finish, id) \in tasks'
          /\ \A t \in tasks' : t.id = id => t.at = gas_reservation_map'[id].finish
    BY <1>1, <1>4, <1>8 DEF IInv, Agree
  <2>4. \A t \in tasks' : t.id \in DOMAIN node'  BY <1>1 DEF IInv, Agree
  <2> QED  BY <1>3, <1>4, <1>5, <2>1, <2>2, <2>3, <2>4 DEF Agree
<1>14. Sends'
  <2>1. sends \in Seq([id : Ids, delay : Nat, toUser : BOOLEAN])
        /\ \A i, j \in DOMAIN sends : sends[i].id = sends[j].id => i = j
    BY <1>1 DEF IInv, Sends, Busy
  <2>2. \A i \in DOMAIN sends :
          IsLive(sends[i].id) /\ Suffices(states[sends[i].id].amount, sends[i].delay)
    BY <1>1 DEF IInv, Sends
  <2>3. \A id \in Live : gas_reservation_map'[id].amount = states[id].amount
    <3>1. \A id \in DOMAIN gas_reservation_map : states[id].amount = gas_reservation_map[id].amount
      BY <1>2 DEF IsExisting
    <3> QED  BY <1>5, <1>7, <1>8, <3>1
  <2>4. \A i \in DOMAIN sends :
          /\ sends[i].id \in DOMAIN gas_reservation_map'
          /\ Suffices(gas_reservation_map'[sends[i].id].amount, sends[i].delay)
    <3>1. \A i \in DOMAIN sends : sends[i].id \in Live  BY <2>2 DEF Live, IsLive
    <3> QED  BY <1>3, <2>2, <2>3, <3>1
  <2> QED  BY <1>1, <2>1, <2>4 DEF Sends, Busy, Suffices
<1>15. Bounded'
  BY <1>1, <1>3 DEF IInv, Bounded, StoredIsNearLimit
<1> QED  BY <1>9, <1>10, <1>11, <1>12, <1>13, <1>14, <1>15 DEF IInv


\* journal, send_dispatch: a reservation is consumed by the one message sent from it and
\* pays for its delay.
LEMMA SendNoteStep ==
  ASSUME IInv, SendNote
  PROVE  IInv'
<1>1. PICK send, id : send = Head(sends) /\ id = send.id
  OBVIOUS
<1>2. phase = "send" /\ sends # <<>> /\ sends' = Tail(sends)
      /\ UNCHANGED <<bn, phase, running, status, context, limit, active>>
      /\ UNCHANGED <<states, nonce, left, notes>>
  BY DEF SendNote, block
<1>3. /\ sends \in Seq([id : Ids, delay : Nat, toUser : BOOLEAN])
      /\ \A i, j \in DOMAIN sends : sends[i].id = sends[j].id => i = j
      /\ \A i \in DOMAIN sends :
           /\ sends[i].id \in DOMAIN gas_reservation_map
           /\ Suffices(gas_reservation_map[sends[i].id].amount, sends[i].delay)
  BY <1>2 DEF IInv, Sends, Busy
<1>4. /\ 1 \in DOMAIN sends /\ send = sends[1]
      /\ send \in [id : Ids, delay : Nat, toUser : BOOLEAN]
      /\ Tail(sends) \in Seq([id : Ids, delay : Nat, toUser : BOOLEAN])
      /\ \A i \in DOMAIN Tail(sends) :
           i \in Nat \ {0} /\ i + 1 \in DOMAIN sends /\ Tail(sends)[i] = sends[i + 1]
  <2>1. PICK S : S = [id : Ids, delay : Nat, toUser : BOOLEAN]  OBVIOUS
  <2>2. sends \in Seq(S) /\ sends # <<>> /\ send = Head(sends)  BY <1>1, <1>2, <1>3, <2>1
  <2>3. /\ 1 \in DOMAIN sends /\ send = sends[1] /\ send \in S /\ Tail(sends) \in Seq(S)
        /\ \A i \in DOMAIN Tail(sends) :
             i \in Nat \ {0} /\ i + 1 \in DOMAIN sends /\ Tail(sends)[i] = sends[i + 1]
    BY ONLY SMTT(90), <2>2
  <2> QED  BY <2>1, <2>3
<1>5. id \in DOMAIN gas_reservation_map /\ id \in DOMAIN node /\ IsReserved(id) /\ id \in Ids
  <2>1. id \in DOMAIN gas_reservation_map  BY <1>1, <1>3, <1>4
  <2>2. id \in DOMAIN node /\ active /\ id \in Ids  BY <1>2, <2>1 DEF IInv, Agree, Runs, Busy, Types
  <2> QED  BY <2>1, <2>2 DEF IsReserved
<1> DEFINE rent == LockAmount(bn, HoldDuration(bn, send.delay), StashCost)
           forDelay == IF send.delay = 0 THEN 0 ELSE rent
           cut == IF SaturatingSub(node[id].value, forDelay) >= MailboxThreshold
                  THEN forDelay + MailboxThreshold ELSE forDelay
<1>6. /\ RemoveGasReservation(id, gas_reservation_map[id].finish)
      /\ \/ send.toUser /\ spent' = spent /\ ok' = (ok /\ cut <= node[id].value)
         \/ spent' = spent \cup {id} /\ ok' = (ok /\ forDelay <= GasLeft(id))
  BY <1>1, <1>5 DEF SendNote
<1>7. ok' = TRUE
  <2>1. /\ bn \in Nat /\ send.delay \in Nat /\ node[id].value \in Nat /\ node[id].lock \in Nat
        /\ StashCost \in Nat /\ MailboxThreshold \in Nat
    <3>1. node[id] \in Nodes  BY <1>5 DEF IInv, Types
    <3> QED  BY <1>4, <3>1, CostsAssumption DEF IInv, Types, Nodes
  <2>2. rent = RentFor(send.delay, StashCost) /\ rent \in Nat
    <3>1. bn \in Nat /\ send.delay \in Nat /\ StashCost \in Nat  BY <2>1
    <3>2. /\ LockAmount(bn, HoldDuration(bn, send.delay), StashCost) = RentFor(send.delay, StashCost)
          /\ RentFor(send.delay, StashCost) \in Nat
      BY ONLY <3>1, DelayRent
    <3> QED  BY <3>2
  <2>3. send.delay # 0 => node[id].value >= rent + MailboxThreshold
    <3>1. Suffices(gas_reservation_map[id].amount, send.delay)  BY <1>1, <1>3, <1>4
    <3>2. node[id].value = gas_reservation_map[id].amount  BY <1>5 DEF IInv, Agree
    <3> QED  BY <2>2, <3>1, <3>2 DEF Suffices
  <2> HIDE DEF rent
  <2>4. forDelay <= node[id].value /\ forDelay \in Nat  BY SMTT(90), <2>1, <2>2, <2>3
  <2>5. cut <= node[id].value
    BY SMTT(90), <2>1, <2>2, <2>3 DEF SaturatingSub
  <2>6. forDelay <= GasLeft(id)
    <3> DEFINE charge == ChargeFor(bn, gas_reservation_map[id], ReservationCost, node[id].lock)
               due == DueFor(bn, gas_reservation_map[id], ReservationCost)
    <3>1. due \in Nat
      <4>1. gas_reservation_map[id] \in Slots  BY <1>5 DEF IInv, Types
      <4>2. gas_reservation_map[id].start \in Nat /\ gas_reservation_map[id].finish \in Nat
        BY <4>1 DEF Slots
      <4>3. Least(bn, gas_reservation_map[id].finish + ReserveFor) \in Nat
        BY SMTT(90), <2>1, <4>2, ReserveForAssumption DEF Least
      <4>4. SaturatingSub(Least(bn, gas_reservation_map[id].finish + ReserveFor),
                          gas_reservation_map[id].start) \in Nat
        BY SMTT(90), <4>2, <4>3 DEF SaturatingSub
      <4> QED  BY SMTT(90), <4>4, CostsAssumption DEF DueFor
    <3>2. charge = Least(node[id].lock, due)  BY DEF ChargeFor
    <3> HIDE DEF charge, due
    <3>3. charge \in Nat /\ charge <= node[id].lock  BY SMTT(90), <2>1, <3>1, <3>2 DEF Least
    <3>4. GasLeft(id) = node[id].value + node[id].lock - charge  BY DEF GasLeft, charge
    <3> HIDE DEF forDelay
    <3> QED  BY SMTT(90), <2>1, <2>4, <3>3, <3>4
  <2> HIDE DEF cut, forDelay
  <2> QED  BY <1>6, <2>5, <2>6 DEF IInv, Types
<1>8. /\ DOMAIN gas_reservation_map' = DOMAIN gas_reservation_map \ {id}
      /\ \A x \in DOMAIN gas_reservation_map \ {id} :
           gas_reservation_map'[x] = gas_reservation_map[x]
      /\ IsFiniteSet(DOMAIN gas_reservation_map')
      /\ \A x \in DOMAIN node' : node'[x] \in Nodes
      /\ tasks' \subseteq Tasks /\ Agree' /\ StoredIsNearLimit'
  <2>1. phase # "journal" /\ phase' # "journal" /\ bn' = bn /\ states' = states /\ notes' \subseteq notes
    BY <1>2
  <2> QED  BY <1>5, <1>6, <2>1, Removal
<1>9. spent' \subseteq spent \cup {id}  BY <1>6
<1>10. Types'  BY <1>2, <1>5, <1>7, <1>8, <1>9 DEF IInv, Types
<1>11. Runs'  BY <1>2, <1>8 DEF IInv, Runs, Busy
<1>12. Older'
  <2>1. DOMAIN gas_reservation_map' \cup spent' \subseteq DOMAIN gas_reservation_map \cup spent
    BY <1>5, <1>8, <1>9
  <2> QED  BY <1>2, <2>1 DEF IInv, Older
<1>13. Reserver' /\ Notes' /\ Covered'  BY <1>2 DEF Reserver, Notes, Covered
<1>14. Sends'
  <2>1. \A i, j \in DOMAIN Tail(sends) : Tail(sends)[i].id = Tail(sends)[j].id => i = j
    <3>1. ASSUME NEW i \in DOMAIN Tail(sends), NEW j \in DOMAIN Tail(sends),
                 Tail(sends)[i].id = Tail(sends)[j].id
          PROVE  i = j
      <4>1. i + 1 = j + 1  BY <1>3, <1>4, <3>1
      <4> QED  BY SMTT(90), <1>4, <4>1
    <3> QED  BY <3>1
  <2>2. ASSUME NEW i \in DOMAIN Tail(sends)
        PROVE  /\ Tail(sends)[i].id \in DOMAIN gas_reservation_map'
               /\ Suffices(gas_reservation_map'[Tail(sends)[i].id].amount, Tail(sends)[i].delay)
    <3>1. i + 1 # 1  BY SMTT(90), <1>4
    <3>2. sends[i + 1].id # id  BY <1>1, <1>3, <1>4, <3>1
    <3> QED  BY <1>3, <1>4, <1>8, <3>2
  <2> QED  BY <1>2, <1>4, <2>1, <2>2 DEF Sends, Busy, Suffices
<1>15. Bounded'  BY <1>2, <1>8 DEF Bounded
<1> QED  BY <1>8, <1>10, <1>11, <1>12, <1>13, <1>14, <1>15 DEF IInv


\* After the last send the execution is over, and the context has the nonces used.
LEMMA AfterSends ==
  ASSUME IInv, phase = "send", phase' = "queue", sends' = <<>>,
         limit' \in [Messages -> Nat], context' \in [Messages -> Nat],
         status' \in [Messages -> {"queued", "waiting", "done"}], Older',
         UNCHANGED <<bn, active, stores, ok>>
  PROVE  IInv'
<1> USE DEF stores
<1>1. Types'  BY DEF IInv, Types, Phases
<1>2. Runs'  BY DEF IInv, Runs, Busy
<1>3. Reserver' /\ Notes' /\ Covered'  BY DEF Reserver, Notes, Covered
<1>4. Agree'
  <2>1. Made = {} /\ Made' = {}  BY DEF Made
  <2> QED  BY <2>1 DEF IInv, Agree
<1>5. Sends'  BY DEF Sends, Busy
<1>6. Bounded'  BY DEF IInv, Bounded, StoredIsNearLimit
<1> QED  BY <1>1, <1>2, <1>3, <1>4, <1>5, <1>6 DEF IInv

\* journal, wait_dispatch.
LEMMA WaitDispatchStep ==
  ASSUME IInv, WaitDispatch
  PROVE  IInv'
<1>1. /\ phase = "send" /\ phase' = "queue" /\ sends' = <<>>
      /\ status' = [status EXCEPT ![running] = "waiting"]
      /\ context' = [context EXCEPT ![running] = nonce]
      /\ UNCHANGED <<bn, limit, active, stores, ok>>
  BY DEF WaitDispatch, Forget
<1>2. running \in Messages /\ nonce \in Nat /\ status[running] = "queued"
  BY <1>1 DEF IInv, Runs, Busy
<1>3. /\ limit' \in [Messages -> Nat] /\ context' \in [Messages -> Nat]
      /\ status' \in [Messages -> {"queued", "waiting", "done"}]
  BY <1>1, <1>2 DEF IInv, Types
<1>4. Older'
  <2>1. gas_reservation_map' = gas_reservation_map /\ spent' = spent  BY <1>1 DEF stores
  <2>2. ASSUME NEW id \in DOMAIN gas_reservation_map \cup spent, status'[id[1]] # "done"
        PROVE  id[2] < context'[id[1]]
    <3>1. id[1] \in Messages  BY DEF IInv, Types, Ids
    <3>2. status[id[1]] # "done"  BY <1>1, <1>2, <2>2, <3>1 DEF IInv, Types
    <3>3. id[2] < (IF id[1] = running THEN nonce ELSE context[id[1]])
      BY <1>1, <3>2 DEF IInv, Older
    <3>4. context'[id[1]] = (IF id[1] = running THEN nonce ELSE context[id[1]])
      BY <1>1, <3>1 DEF IInv, Types
    <3> QED  BY <3>3, <3>4
  <2> QED  BY <1>1, <2>1, <2>2 DEF Older
<1> QED  BY <1>1, <1>3, <1>4, AfterSends

\* journal, message_consumed.
LEMMA MessageConsumedStep ==
  ASSUME IInv, MessageConsumed
  PROVE  IInv'
<1>1. /\ phase = "send" /\ phase' = "queue" /\ sends' = <<>>
      /\ status' = [status EXCEPT ![running] = "done"]
      /\ limit' = [limit EXCEPT ![running] = 0]
      /\ UNCHANGED <<bn, context, active, stores, ok>>
  BY DEF MessageConsumed, Consumed, Forget
<1>2. /\ limit' \in [Messages -> Nat] /\ context' \in [Messages -> Nat]
      /\ status' \in [Messages -> {"queued", "waiting", "done"}]
  BY <1>1 DEF IInv, Types
<1>3. Older'
  <2>1. gas_reservation_map' = gas_reservation_map /\ spent' = spent  BY <1>1 DEF stores
  <2>2. ASSUME NEW id \in DOMAIN gas_reservation_map \cup spent, status'[id[1]] # "done"
        PROVE  id[2] < context'[id[1]]
    <3>1. id[1] \in Messages  BY DEF IInv, Types, Ids
    <3>2. status[id[1]] # "done" /\ id[1] # running  BY <1>1, <2>2, <3>1 DEF IInv, Types
    <3> QED  BY <1>1, <3>2 DEF IInv, Older
  <2> QED  BY <1>1, <2>1, <2>2 DEF Older
<1> QED  BY <1>1, <1>2, <1>3, AfterSends

\* journal, exit_dispatch: nothing of the map is left behind.
LEMMA ExitDispatchStep ==
  ASSUME IInv, ExitDispatch
  PROVE  IInv'
<1>1. /\ phase = "send" /\ phase' = "queue" /\ sends' = <<>> /\ active' = FALSE
      /\ status' = [status EXCEPT ![running] = "done"]
      /\ limit' = [limit EXCEPT ![running] = 0]
      /\ gas_reservation_map' = Empty
      /\ node' = [id \in DOMAIN node \ DOMAIN gas_reservation_map |-> node[id]]
      /\ tasks' = tasks \ {Task(gas_reservation_map[id].finish, id) : id \in DOMAIN gas_reservation_map}
      /\ ok' = (ok /\ DOMAIN gas_reservation_map \subseteq DOMAIN node)
      /\ UNCHANGED <<bn, context, spent>>
  BY DEF ExitDispatch, Consumed, Forget
<1>2. DOMAIN node = DOMAIN gas_reservation_map
  BY <1>1 DEF IInv, Agree, Made
<1>3. DOMAIN gas_reservation_map' = {} /\ DOMAIN node' = {}
  BY <1>1, <1>2 DEF Empty
<1>4. tasks' = {}
  <2>1. ASSUME NEW t \in tasks
        PROVE  \E id \in DOMAIN gas_reservation_map : t = Task(gas_reservation_map[id].finish, id)
    <3>1. t.id \in DOMAIN gas_reservation_map /\ t.at = gas_reservation_map[t.id].finish
      BY <1>2 DEF IInv, Agree
    <3>2. t = Task(t.at, t.id)  BY TaskIs DEF IInv, Types
    <3> QED  BY <3>1, <3>2
  <2> QED  BY <1>1, <2>1
<1>5. /\ limit' \in [Messages -> Nat] /\ context' \in [Messages -> Nat]
      /\ status' \in [Messages -> {"queued", "waiting", "done"}] /\ ok' = TRUE
  BY <1>1, <1>2 DEF IInv, Types
<1>6. Types'
  <2>1. IsFiniteSet({})  BY FS_EmptySet
  <2> QED  BY <1>1, <1>3, <1>4, <1>5, <2>1 DEF IInv, Types, Phases
<1>7. Runs'  BY <1>1, <1>3 DEF Runs, Busy
<1>8. Older'
  <2>1. ASSUME NEW id \in spent, status'[id[1]] # "done"
        PROVE  id[2] < context'[id[1]]
    <3>1. id[1] \in Messages  BY DEF IInv, Types, Ids
    <3>2. status[id[1]] # "done" /\ id[1] # running  BY <1>1, <2>1, <3>1 DEF IInv, Types
    <3> QED  BY <1>1, <3>2 DEF IInv, Older
  <2> QED  BY <1>1, <1>3, <2>1 DEF Older
<1>9. Reserver' /\ Notes' /\ Covered'  BY <1>1 DEF Reserver, Notes, Covered
<1>10. Agree'  BY <1>1, <1>3, <1>4 DEF Agree, Made
<1>11. Sends'  BY <1>1 DEF Sends, Busy
<1>12. Bounded'
  <2>1. Cardinality({}) = 0  BY FS_EmptySet
  <2>2. Cardinality({}) <= MaxReservations + 1  BY SMTT(90), <2>1, CostsAssumption
  <2> QED  BY <1>1, <1>3, <2>2 DEF Bounded, StoredIsNearLimit
<1> QED  BY <1>6, <1>7, <1>8, <1>9, <1>10, <1>11, <1>12 DEF IInv


\* The task that ends a reservation finds it.
LEMMA TaskStep ==
  ASSUME IInv, NEW task \in tasks, RemoveGasReservationTask(task)
  PROVE  IInv'
<1>1. PICK id, at : id = task.id /\ at = task.at
  OBVIOUS
<1>2. /\ phase = "tasks" /\ RemoveGasReservation(id, at) /\ ok' = (ok /\ IsReserved(id))
      /\ UNCHANGED <<bn, phase, running, status, context, limit, active>>
      /\ UNCHANGED <<spent, states, nonce, left, sends, notes>>
  BY <1>1 DEF RemoveGasReservationTask, block, ext
<1>3. id \in DOMAIN gas_reservation_map /\ id \in DOMAIN node /\ at = gas_reservation_map[id].finish
  BY <1>1, <1>2 DEF IInv, Agree, Made
<1>4. ok' = TRUE
  <2>1. active  BY <1>3 DEF IInv, Runs, Types
  <2> QED  BY <1>2, <1>3, <2>1 DEF IInv, Types, IsReserved
<1>5. /\ DOMAIN gas_reservation_map' = DOMAIN gas_reservation_map \ {id}
      /\ IsFiniteSet(DOMAIN gas_reservation_map')
      /\ \A x \in DOMAIN gas_reservation_map \ {id} :
           gas_reservation_map'[x] = gas_reservation_map[x]
      /\ \A x \in DOMAIN node' : node'[x] \in Nodes
      /\ tasks' \subseteq Tasks /\ Agree' /\ StoredIsNearLimit'
  <2>1. phase # "journal" /\ phase' # "journal" /\ bn' = bn /\ states' = states /\ notes' \subseteq notes
    BY <1>2
  <2> QED  BY <1>2, <1>3, <2>1, Removal
<1>6. Types'  BY <1>2, <1>4, <1>5 DEF IInv, Types
<1>7. Runs'  BY <1>2, <1>5 DEF IInv, Runs, Busy
<1>8. Older'  BY <1>2, <1>5 DEF IInv, Older
<1>9. Reserver' /\ Notes' /\ Covered'  BY <1>2 DEF Reserver, Notes, Covered
<1>10. Sends'  BY <1>2 DEF IInv, Sends, Busy
<1>11. Bounded'  BY <1>2, <1>5 DEF Bounded
<1> QED  BY <1>5, <1>6, <1>7, <1>8, <1>9, <1>10, <1>11 DEF IInv

-----------------------------------------------------------------------------
(* The invariant. *)

\* The chain begins with nothing reserved.
LEMMA InitIInv == Init => IInv
<1> SUFFICES ASSUME Init PROVE IInv  OBVIOUS
<1> USE DEF Init
<1>1. DOMAIN gas_reservation_map = {} /\ DOMAIN node = {} /\ tasks = {} /\ spent = {}
  BY DEF Empty
<1>2. IsFiniteSet({}) /\ Cardinality({}) = 0  BY FS_EmptySet
<1>3. Types
  <2>1. status \in [Messages -> {"queued", "waiting", "done"}]  OBVIOUS
  <2>2. context \in [Messages -> Nat] /\ limit \in [Messages -> Nat]  BY BoundsAssumption
  <2>3. bn \in Nat /\ phase \in Phases /\ active \in BOOLEAN /\ ok = TRUE  BY DEF Phases
  <2> QED  BY <1>1, <1>2, <2>1, <2>2, <2>3 DEF Types
<1>4. Runs /\ Older  BY <1>1 DEF Runs, Older, Busy
<1>5. Reserver /\ Notes /\ Covered /\ Sends  BY DEF Reserver, Notes, Covered, Sends, Busy
<1>6. Agree  BY <1>1 DEF Agree, Made
<1>7. Bounded
  <2>1. Cardinality({}) <= MaxReservations + 1  BY SMTT(90), <1>2, CostsAssumption
  <2> QED  BY <1>1, <2>1 DEF Bounded, StoredIsNearLimit
<1> QED  BY <1>3, <1>4, <1>5, <1>6, <1>7 DEF IInv

\* A step that changes nothing.
LEMMA StutterStep ==
  ASSUME IInv, UNCHANGED vars
  PROVE  IInv'
<1> USE DEF vars, block, stores, ext
<1>1. Types' /\ Runs' /\ Older'
  <2>1. Types'  BY DEF IInv, Types
  <2>2. Runs' /\ Older'  BY DEF IInv, Runs, Older, Busy
  <2> QED  BY <2>1, <2>2
<1>2. Reserver'
  <2>1. Reserver  BY DEF IInv
  <2>2. UNCHANGED <<phase, states, gas_reservation_map, notes, running, context, nonce>>  OBVIOUS
  <2> QED  BY <2>1, <2>2 DEF Reserver, IsExisting, IsCreated, IsRemoved
<1>3. Agree' /\ Notes'
  <2>1. Agree /\ Notes  BY DEF IInv
  <2>2. Agree'  BY <2>1 DEF Agree, Made
  <2>3. Notes'  BY <2>1 DEF Notes
  <2> QED  BY <2>2, <2>3
<1>4. Sends'  BY DEF IInv, Sends, Busy, IsLive, Suffices
<1>5. Covered'  BY DEF IInv, Covered, SetAside, Created
<1>6. Bounded'  BY DEF IInv, Bounded, StoredIsNearLimit, Live, IsLive
<1> QED  BY <1>1, <1>2, <1>3, <1>4, <1>5, <1>6 DEF IInv

\* Every step of the chain keeps the invariant.
LEMMA NextKeeps == IInv /\ [Next]_vars => IInv'
<1> SUFFICES ASSUME IInv, [Next]_vars PROVE IInv'  OBVIOUS
<1>1. CASE NextBlock \/ TasksStop \/ QueueStop \/ \E m \in Messages : Wake(m)
  BY <1>1, BlockSteps
<1>2. CASE \E task \in tasks : RemoveGasReservationTask(task)  BY <1>2, TaskStep
<1>3. CASE \E m \in Messages : Execute(m)  BY <1>3, ExecuteStep
<1>4. CASE \E amount \in Amounts, duration \in Durations : ReserveGas(amount, duration)
  BY <1>4, ReserveGasStep
<1>5. CASE \E id \in DOMAIN states : UnreserveGas(id)  BY <1>5, UnreserveGasStep
<1>6. CASE \E id \in DOMAIN states, delay \in {0} \cup Durations, toUser \in BOOLEAN :
             ReservationSend(id, delay, toUser)
  BY <1>6, ReservationSendStep
<1>7. CASE Trap \/ AllowanceExceed  BY <1>7, AbortSteps
<1>8. CASE \E result \in {"Wait", "Success", "Exit"} : Finish(result)  BY <1>8, FinishStep
<1>9. CASE \E id \in notes : ReserveNote(id)  BY <1>9, ReserveNoteStep
<1>10. CASE \E id \in notes : UnreserveNote(id)  BY <1>10, UnreserveNoteStep
<1>11. CASE UpdateGasReservation  BY <1>11, UpdateGasReservationStep
<1>12. CASE SendNote  BY <1>12, SendNoteStep
<1>13. CASE WaitDispatch \/ MessageConsumed \/ ExitDispatch
  BY <1>13, WaitDispatchStep, MessageConsumedStep, ExitDispatchStep
<1>14. CASE \E id \in spent : MessageHandled(id)  BY <1>14, MessageHandledStep
<1>15. CASE Over \/ UNCHANGED vars  BY <1>15, StutterStep DEF Over
<1> QED
  BY <1>1, <1>2, <1>3, <1>4, <1>5, <1>6, <1>7, <1>8, <1>9, <1>10, <1>11, <1>12, <1>13, <1>14,
     <1>15 DEF Next

\* The inductive invariant of the reservations of a program holds in every reachable state.
THEOREM Invariant == Spec => []IInv
BY InitIInv, NextKeeps, PTL DEF Spec

\* What the handlers of the journal and of the tasks (journal.rs reserve_gas,
\* unreserve_gas, send_dispatch; manager/mod.rs remove_gas_reservation_impl) mark as
\* unreachable is never reached, for any costs, amounts and interleaving of messages.
THEOREM NeverUnreachable == Spec => []NoUnreachable
<1>1. IInv => NoUnreachable  BY DEF IInv, Types, NoUnreachable
<1> QED  BY <1>1, Invariant, PTL

\* Map, gas nodes and tasks of the reservations agree between executions.
THEOREM StoresStayTogether == Spec => []StoresAgree
<1>1. IInv => StoresAgree
  <2> SUFFICES ASSUME IInv, phase \notin {"journal", "send"}
               PROVE  /\ DOMAIN node = DOMAIN gas_reservation_map
                      /\ tasks = {Task(gas_reservation_map[id].finish, id) :
                                     id \in DOMAIN gas_reservation_map}
                      /\ \A id \in DOMAIN node : node[id].value = gas_reservation_map[id].amount
    BY DEF StoresAgree
  <2>1. DOMAIN node = DOMAIN gas_reservation_map  BY DEF IInv, Agree, Made
  <2>2. ASSUME NEW t \in tasks
        PROVE  \E id \in DOMAIN gas_reservation_map : t = Task(gas_reservation_map[id].finish, id)
    <3>1. t.id \in DOMAIN gas_reservation_map /\ t.at = gas_reservation_map[t.id].finish
      BY <2>1 DEF IInv, Agree
    <3>2. t = Task(t.at, t.id)  BY TaskIs DEF IInv, Types
    <3> QED  BY <3>1, <3>2
  <2>3. \A id \in DOMAIN gas_reservation_map : Task(gas_reservation_map[id].finish, id) \in tasks
    BY DEF IInv, Agree
  <2>4. tasks = {Task(gas_reservation_map[id].finish, id) : id \in DOMAIN gas_reservation_map}
    BY <2>2, <2>3
  <2> QED  BY <2>1, <2>4 DEF IInv, Agree
<1> QED  BY <1>1, Invariant, PTL

\* The gas counter of Ext and the reserver together account for the gas of the message.
THEOREM GasStaysSetAside == Spec => []GasIsSetAside
<1>1. IInv => GasIsSetAside  BY DEF IInv, Covered, GasIsSetAside
<1> QED  BY <1>1, Invariant, PTL

\* GasReserver::check_execution_limit, which compares before the new reservation is counted,
\* keeps what a program stores to one more than max_reservations.
THEOREM StoredStaysBounded == Spec => []StoredIsNearLimit
<1>1. IInv => StoredIsNearLimit  BY DEF IInv, Bounded
<1> QED  BY <1>1, Invariant, PTL

-----------------------------------------------------------------------------
(* The bank. *)

\* The inductive invariant.
Inv == TypeOK /\ Solvent /\ ScheduleIsSummed /\ ~fault

\* What a step must show: the invariant, and that the surplus is kept.
Kept == Inv' /\ bankFree' - Owed' = bankFree - Owed

\* Adding v to one entry adds v to the sum.
LEMMA PlusSum ==
  ASSUME NEW f \in [Accounts -> Nat], NEW a \in Accounts, NEW v \in Nat
  PROVE  /\ Plus(f, a, v) \in [Accounts -> Nat]
         /\ Sum(f) \in Nat /\ Sum(Plus(f, a, v)) = Sum(f) + v
<1> DEFINE g == Plus(f, a, v)
<1>1. g \in [Accounts -> Nat] /\ g[a] = f[a] + v
  BY DEF Plus
<1>2. \A x \in Accounts \ {a} : g[x] = f[x]
  BY DEF Plus
<1> HIDE DEF g
<1>3. Sum(f) \in Nat /\ Sum(g) \in Nat
  BY <1>1, AccountsAssumption, SumType
<1>4. Sum(g) + f[a] = Sum(f) + g[a]
  BY <1>1, <1>2, AccountsAssumption, SumChange
<1>5. Sum(g) = Sum(f) + v
  BY <1>1, <1>3, <1>4
<1> QED  BY <1>1, <1>3, <1>5 DEF g

\* Taking v out of one entry takes v out of the sum.
LEMMA MinusSum ==
  ASSUME NEW f \in [Accounts -> Nat], NEW a \in Accounts, NEW v \in Nat, v <= f[a]
  PROVE  /\ Minus(f, a, v) \in [Accounts -> Nat]
         /\ Sum(Minus(f, a, v)) \in Nat /\ Sum(Minus(f, a, v)) + v = Sum(f)
<1> DEFINE g == Minus(f, a, v)
<1>1. g \in [Accounts -> Nat] /\ g[a] = f[a] - v /\ f[a] \in Nat
  BY DEF Minus
<1>2. \A x \in Accounts \ {a} : g[x] = f[x]
  BY DEF Minus
<1> HIDE DEF g
<1>3. Sum(f) \in Nat /\ Sum(g) \in Nat
  BY <1>1, AccountsAssumption, SumType
<1>4. Sum(g) + f[a] = Sum(f) + g[a]
  BY <1>1, <1>2, AccountsAssumption, SumChange
<1>5. Sum(g) + v = Sum(f)
  BY <1>1, <1>3, <1>4
<1> QED  BY <1>1, <1>3, <1>5 DEF g

\* The invariant in numbers.
LEMMA InvNumbers ==
  ASSUME Inv
  PROVE  /\ Sum(gas) \in Nat /\ Sum(value) \in Nat /\ Sum(pending) \in Nat
         /\ unused \in Nat /\ bankFree \in Nat /\ pendingTotal \in Nat
         /\ expected \in Nat /\ drained \in Nat /\ ED \in Nat /\ ED > 0
         /\ bankFree >= ED + (Sum(gas) + Sum(value) + Sum(pending) + unused)
         /\ bankPhase = "block" => pendingTotal = Sum(pending)
<1>1. Sum(gas) \in Nat /\ Sum(value) \in Nat /\ Sum(pending) \in Nat
  BY AccountsAssumption, SumType DEF Inv, TypeOK
<1> QED  BY <1>1, AmountsAssumption DEF Inv, TypeOK, Solvent, Owed, ScheduleIsSummed

\* A deposit succeeds in full.
LEMMA DepositNumbers ==
  ASSUME Inv, NEW a \in Accounts, NEW v \in Nat, NEW keepAlive, Deposit(a, v, keepAlive)
  PROVE  /\ free' \in [Accounts -> Nat] /\ bankFree' = bankFree + v
         /\ unused' = unused /\ ~fault'
<1>1. free[a] \in Nat /\ v <= free[a] /\ LeftOf(a, v) \in Nat
  BY AmountsAssumption DEF Inv, TypeOK, Deposit, CanPay, LeftOf
<1>2. free' \in [Accounts -> Nat]
  BY <1>1 DEF Inv, TypeOK, Deposit
<1>3. ~(bankFree + v < ED)
  BY InvNumbers
<1>4. ~fault'
  BY <1>3 DEF Deposit, Inv
<1> QED  BY <1>2, <1>4 DEF Deposit

\* A withdrawal the bank can afford moves v to the account or to unused.
LEMMA WithdrawNumbers ==
  ASSUME Inv, NEW a \in Accounts, NEW v \in Nat, Withdraw(a, v),
         v + unused + pendingTotal <= bankFree, bankFree >= ED + v
  PROVE  /\ free' \in [Accounts -> Nat] /\ bankFree' \in Nat /\ unused' \in Nat
         /\ bankFree' + unused + v = bankFree + unused' /\ ~fault'
<1>1. BankCanTransfer(v) /\ ~(bankFree - v < ED)
  BY InvNumbers DEF BankCanTransfer
<1>2. CASE ~CanDeposit(a, v)
  <2>1. unused' = unused + v /\ free' = free /\ bankFree' = bankFree /\ fault' = fault
    BY <1>1, <1>2 DEF Withdraw
  <2> QED  BY <2>1, InvNumbers DEF Inv, TypeOK
<1>3. CASE CanDeposit(a, v)
  <2>1. /\ bankFree' = bankFree - v /\ free' = Plus(free, a, v)
        /\ unused' = unused /\ fault' = fault
    BY <1>1, <1>3 DEF Withdraw
  <2>2. free' \in [Accounts -> Nat]
    BY <2>1, PlusSum DEF Inv, TypeOK
  <2> QED  BY <2>1, <2>2, InvNumbers DEF Inv
<1> QED  BY <1>2, <1>3

\* deposit_gas and deposit_value.
LEMMA DepositStep ==
  ASSUME Inv, NEW a \in Accounts, NEW v \in Nat, NEW keepAlive, Deposit(a, v, keepAlive),
         UNCHANGED <<scheduled, hook>>,
         \/ gas' = Plus(gas, a, v) /\ UNCHANGED value
         \/ value' = Plus(value, a, v) /\ UNCHANGED gas
  PROVE  Kept
<1>1. /\ free' \in [Accounts -> Nat] /\ bankFree' = bankFree + v
      /\ unused' = unused /\ ~fault'
  BY DepositNumbers
<1>2. /\ gas' \in [Accounts -> Nat] /\ value' \in [Accounts -> Nat]
      /\ Sum(gas') \in Nat /\ Sum(value') \in Nat
      /\ Sum(gas') + Sum(value') = Sum(gas) + Sum(value) + v
  <2>1. gas \in [Accounts -> Nat] /\ value \in [Accounts -> Nat]
    BY DEF Inv, TypeOK
  <2>2. CASE gas' = Plus(gas, a, v) /\ UNCHANGED value
    <3>1. /\ Plus(gas, a, v) \in [Accounts -> Nat]
          /\ Sum(Plus(gas, a, v)) = Sum(gas) + v
      BY <2>1, PlusSum
    <3>2. Sum(gas') = Sum(gas) + v /\ Sum(value') = Sum(value)
      BY <2>2, <3>1
    <3> QED  BY <2>1, <2>2, <3>1, <3>2, InvNumbers
  <2>3. CASE value' = Plus(value, a, v) /\ UNCHANGED gas
    <3>1. /\ Plus(value, a, v) \in [Accounts -> Nat]
          /\ Sum(Plus(value, a, v)) = Sum(value) + v
      BY <2>1, PlusSum
    <3>2. Sum(gas') = Sum(gas) /\ Sum(value') = Sum(value) + v
      BY <2>3, <3>1
    <3> QED  BY <2>1, <2>3, <3>1, <3>2, InvNumbers
  <2> QED  BY <2>2, <2>3
<1>3. TypeOK'
  <2>1. bankFree' \in Nat /\ unused' \in Nat
    BY <1>1, InvNumbers
  <2>2. pending' = pending /\ pendingTotal' = pendingTotal /\ bankPhase' = bankPhase
        /\ expected' = expected /\ drained' = drained
    BY DEF scheduled, hook
  <2>3. fault' \in BOOLEAN
    BY DEF Deposit
  <2> QED  BY <1>1, <1>2, <2>1, <2>2, <2>3 DEF Inv, TypeOK
<1>4. Solvent' /\ bankFree' - Owed' = bankFree - Owed
  BY <1>1, <1>2, InvNumbers DEF Solvent, Owed, scheduled
<1>5. ScheduleIsSummed'
  BY DEF Inv, ScheduleIsSummed, scheduled, hook
<1> QED  BY <1>1, <1>3, <1>4, <1>5 DEF Kept, Inv

\* A transfer to the address of the bank.
LEMMA DonateStep ==
  ASSUME Inv, NEW a \in Accounts, NEW v \in Nat, NEW keepAlive, Deposit(a, v, keepAlive),
         UNCHANGED <<books, scheduled, hook>>
  PROVE  Inv'
<1>1. /\ free' \in [Accounts -> Nat] /\ bankFree' = bankFree + v
      /\ unused' = unused /\ ~fault'
  BY DepositNumbers
<1>2. bankFree' \in Nat /\ fault' \in BOOLEAN
  BY <1>1, InvNumbers DEF Deposit
<1>3. TypeOK'
  BY <1>1, <1>2 DEF Inv, TypeOK, books, scheduled, hook
<1>4. Solvent'
  BY <1>1, InvNumbers DEF Solvent, Owed, books, scheduled
<1>5. ScheduleIsSummed'
  BY DEF Inv, ScheduleIsSummed, scheduled, hook
<1> QED  BY <1>1, <1>3, <1>4, <1>5 DEF Inv

\* A withdrawal from the books, of gas or of value.
LEMMA WithdrawStep ==
  ASSUME Inv, NEW a \in Accounts, NEW to \in Accounts, NEW v \in Nat, bankPhase = "block",
         UNCHANGED <<scheduled, hook>>,
         \/ /\ v <= gas[a] /\ UNCHANGED value
            /\ IF ~BankCanTransfer(v) THEN fault' = TRUE /\ UNCHANGED <<balances, gas>>
               ELSE gas' = Minus(gas, a, v) /\ Withdraw(to, v)
         \/ /\ v <= value[a] /\ UNCHANGED gas
            /\ IF ~BankCanTransfer(v) THEN fault' = TRUE /\ UNCHANGED <<balances, value>>
               ELSE value' = Minus(value, a, v) /\ Withdraw(to, v)
  PROVE  Kept
<1>1. gas \in [Accounts -> Nat] /\ value \in [Accounts -> Nat]
  BY DEF Inv, TypeOK
<1>2. gas[a] <= Sum(gas) /\ value[a] <= Sum(value) /\ gas[a] \in Nat /\ value[a] \in Nat
  BY <1>1, AccountsAssumption, SumBound
<1>3. v <= Sum(gas) + Sum(value)
  BY <1>2, InvNumbers
<1>4. v + unused + pendingTotal <= bankFree /\ bankFree >= ED + v
  BY <1>3, InvNumbers
<1>5. BankCanTransfer(v)
  BY <1>4 DEF BankCanTransfer
<1>6. /\ gas' \in [Accounts -> Nat] /\ value' \in [Accounts -> Nat]
      /\ Sum(gas') \in Nat /\ Sum(value') \in Nat /\ Withdraw(to, v)
      /\ Sum(gas') + Sum(value') + v = Sum(gas) + Sum(value)
  <2>1. CASE v <= gas[a] /\ UNCHANGED value /\ gas' = Minus(gas, a, v) /\ Withdraw(to, v)
    <3>1. /\ Minus(gas, a, v) \in [Accounts -> Nat] /\ Sum(Minus(gas, a, v)) \in Nat
          /\ Sum(Minus(gas, a, v)) + v = Sum(gas)
      BY <1>1, <2>1, MinusSum
    <3>2. Sum(gas') \in Nat /\ Sum(gas') + v = Sum(gas) /\ Sum(value') = Sum(value)
      BY <2>1, <3>1
    <3> QED  BY <1>1, <2>1, <3>1, <3>2, InvNumbers
  <2>2. CASE v <= value[a] /\ UNCHANGED gas /\ value' = Minus(value, a, v) /\ Withdraw(to, v)
    <3>1. /\ Minus(value, a, v) \in [Accounts -> Nat] /\ Sum(Minus(value, a, v)) \in Nat
          /\ Sum(Minus(value, a, v)) + v = Sum(value)
      BY <1>1, <2>2, MinusSum
    <3>2. Sum(value') \in Nat /\ Sum(value') + v = Sum(value) /\ Sum(gas') = Sum(gas)
      BY <2>2, <3>1
    <3> QED  BY <1>1, <2>2, <3>1, <3>2, InvNumbers
  <2> QED  BY <1>5, <2>1, <2>2
<1>7. /\ free' \in [Accounts -> Nat] /\ bankFree' \in Nat /\ unused' \in Nat
      /\ bankFree' + unused + v = bankFree + unused' /\ ~fault'
  BY <1>4, <1>6, WithdrawNumbers
<1>8. fault' \in BOOLEAN
  BY <1>6 DEF Withdraw, balances, Inv, TypeOK
<1>9. TypeOK'
  BY <1>6, <1>7, <1>8 DEF Inv, TypeOK, scheduled, hook
<1>10. Solvent' /\ bankFree' - Owed' = bankFree - Owed
  BY <1>6, <1>7, InvNumbers DEF Solvent, Owed, scheduled
<1>11. ScheduleIsSummed'
  BY DEF Inv, ScheduleIsSummed, scheduled, hook
<1> QED  BY <1>7, <1>9, <1>10, <1>11 DEF Kept, Inv

\* spend_gas: from the gas of the payer to the schedule.
LEMMA SpendStep ==
  ASSUME Inv, NEW a \in Accounts, NEW to \in Accounts, NEW amount \in Nat, NEW share \in Nat,
         SpendGas(to, a, amount, share)
  PROVE  Kept
<1> DEFINE v == Multiplier * amount
<1>1. v \in Nat
  BY AmountsAssumption
<1>2. /\ bankPhase = "block" /\ v <= gas[a] /\ share <= v
      /\ IF ~BankCanTransfer(v)
         THEN fault' = TRUE /\ UNCHANGED <<gas, scheduled>>
         ELSE /\ gas' = Minus(gas, a, v)
              /\ pending' = Plus(Plus(pending, Treasury, share), to, v - share)
              /\ pendingTotal' = pendingTotal + v
              /\ UNCHANGED fault
      /\ UNCHANGED <<balances, value, hook>>
  BY DEF SpendGas
<1> HIDE DEF v
<1>3. gas \in [Accounts -> Nat] /\ pending \in [Accounts -> Nat]
  BY DEF Inv, TypeOK
<1>4. gas[a] <= Sum(gas) /\ gas[a] \in Nat
  BY <1>3, AccountsAssumption, SumBound
<1>5. BankCanTransfer(v)
  BY <1>1, <1>2, <1>4, InvNumbers DEF BankCanTransfer
<1>6. /\ Minus(gas, a, v) \in [Accounts -> Nat] /\ Sum(Minus(gas, a, v)) \in Nat
      /\ Sum(Minus(gas, a, v)) + v = Sum(gas)
  BY <1>1, <1>2, <1>3, MinusSum
<1> DEFINE p == Plus(pending, Treasury, share)
<1>7. p \in [Accounts -> Nat] /\ Sum(p) = Sum(pending) + share
  BY <1>3, AccountsAssumption, PlusSum
<1> HIDE DEF p
<1>8. v - share \in Nat
  BY <1>1, <1>2
<1>9. Plus(p, to, v - share) \in [Accounts -> Nat] /\ Sum(Plus(p, to, v - share)) = Sum(p) + (v - share)
  BY <1>7, <1>8, PlusSum
<1>10. pending' = Plus(p, to, v - share) /\ gas' = Minus(gas, a, v) /\ pendingTotal' = pendingTotal + v
       /\ fault' = fault
  BY <1>2, <1>5 DEF p
<1>11. Sum(pending') = Sum(pending) + v
  <2>1. Sum(pending') = Sum(p) + (v - share)
    BY <1>9, <1>10
  <2> QED  BY <2>1, <1>1, <1>7, InvNumbers
<1>12. gas' \in [Accounts -> Nat] /\ pending' \in [Accounts -> Nat] /\ Sum(gas') \in Nat
       /\ Sum(gas') + v = Sum(gas)
  BY <1>6, <1>9, <1>10
<1>13. TypeOK'
  <2>1. TypeOK /\ UNCHANGED <<balances, value, hook>>  BY <1>2 DEF Inv
  <2>2. pendingTotal' \in Nat  BY <1>1, <1>10, <2>1 DEF TypeOK
  <2> QED  BY ONLY <1>10, <1>12, <2>1, <2>2 DEF TypeOK, balances, hook
<1>14. Solvent' /\ bankFree' - Owed' = bankFree - Owed
  BY <1>1, <1>2, <1>11, <1>12, InvNumbers DEF Solvent, Owed, balances
<1>15. ScheduleIsSummed'
  BY <1>2, <1>10, <1>11, InvNumbers DEF ScheduleIsSummed, hook
<1> QED  BY <1>10, <1>13, <1>14, <1>15 DEF Kept, Inv

\* transfer_locked_value: the sum of the values stays.
LEMMA LockedStep ==
  ASSUME Inv, NEW a \in Accounts, NEW to \in Accounts, NEW v \in Nat,
         TransferLockedValue(a, to, v)
  PROVE  Kept
<1>1. value \in [Accounts -> Nat] /\ v <= value[a]
  BY DEF Inv, TypeOK, TransferLockedValue
<1>2. value[a] <= Sum(value) /\ value[a] \in Nat
  BY <1>1, AccountsAssumption, SumBound
<1>3. BankCanTransfer(v)
  BY <1>1, <1>2, InvNumbers DEF BankCanTransfer, TransferLockedValue
<1> DEFINE m == Minus(value, a, v)
<1>4. m \in [Accounts -> Nat] /\ Sum(m) \in Nat /\ Sum(m) + v = Sum(value)
  BY <1>1, MinusSum
<1>5. value' = Plus(m, to, v) /\ fault' = fault /\ UNCHANGED <<balances, gas, scheduled, hook>>
  BY <1>3 DEF TransferLockedValue
<1> HIDE DEF m
<1>6. Plus(m, to, v) \in [Accounts -> Nat] /\ Sum(Plus(m, to, v)) = Sum(m) + v
  BY <1>4, PlusSum
<1>7. value' \in [Accounts -> Nat] /\ Sum(value') = Sum(value)
  BY <1>4, <1>5, <1>6
<1>8. TypeOK'
  BY <1>5, <1>7 DEF Inv, TypeOK, balances, scheduled, hook
<1>9. Owed' = Owed /\ bankFree' = bankFree
  BY <1>5, <1>7 DEF Owed, balances, scheduled
<1>10. Owed \in Nat
  BY InvNumbers DEF Owed
<1>11. Solvent' /\ bankFree' - Owed' = bankFree - Owed
  BY <1>9, <1>10, InvNumbers DEF Solvent, Inv
<1>12. ScheduleIsSummed'
  BY <1>5 DEF Inv, ScheduleIsSummed, scheduled, hook
<1> QED  BY <1>5, <1>8, <1>11, <1>12 DEF Kept, Inv

\* on_finalize takes the total.
LEMMA TakeStep ==
  ASSUME Inv, FinalizeTake
  PROVE  Kept
<1>1. TypeOK'
  BY DEF Inv, TypeOK, FinalizeTake, balances, books
<1>2. Owed' = Owed /\ bankFree' = bankFree /\ Owed \in Nat
  BY InvNumbers DEF Owed, FinalizeTake, balances, books
<1>3. Solvent' /\ bankFree' - Owed' = bankFree - Owed
  BY <1>2, InvNumbers DEF Solvent, Inv
<1>4. ScheduleIsSummed'
  <2>1. /\ bankPhase = "block" /\ bankPhase' = "finalize" /\ pendingTotal' = 0 /\ drained' = 0
        /\ expected' = pendingTotal /\ pending' = pending
    BY DEF FinalizeTake
  <2>2. expected' = drained' + Sum(pending')
    BY <2>1, InvNumbers
  <2> QED  BY <2>1, <2>2 DEF ScheduleIsSummed
<1>5. ~fault'
  BY DEF FinalizeTake, Inv
<1> QED  BY <1>1, <1>3, <1>4, <1>5 DEF Kept, Inv

\* on_finalize pays one entry of the schedule.
LEMMA PayStep ==
  ASSUME Inv, NEW a \in Accounts, FinalizeTransfer(a)
  PROVE  Kept
<1> DEFINE v == pending[a]
<1>1. pending \in [Accounts -> Nat] /\ v \in Nat
  BY DEF Inv, TypeOK
<1>2. v <= Sum(pending)
  BY <1>1, AccountsAssumption, SumBound
<1>3. /\ bankPhase = "finalize" /\ drained' = drained + v /\ Withdraw(a, v)
      /\ pending' = [pending EXCEPT ![a] = 0]
      /\ UNCHANGED <<books, pendingTotal, bankPhase, expected>>
  BY DEF FinalizeTransfer
<1>4. pending' = Minus(pending, a, v)
  <2>1. pending[a] - v = 0
    BY <1>1
  <2> QED  BY <1>3, <2>1 DEF Minus
<1>5. pendingTotal = 0 /\ expected = drained + Sum(pending)
  BY <1>3 DEF Inv, ScheduleIsSummed
<1>6. v <= pending[a]
  BY <1>1
<1> HIDE DEF v
<1>7. pending' \in [Accounts -> Nat] /\ Sum(pending') \in Nat /\ Sum(pending') + v = Sum(pending)
  <2>1. /\ Minus(pending, a, v) \in [Accounts -> Nat] /\ Sum(Minus(pending, a, v)) \in Nat
        /\ Sum(Minus(pending, a, v)) + v = Sum(pending)
    BY <1>1, <1>6, MinusSum
  <2> QED  BY <1>4, <2>1
<1>8. v + unused + pendingTotal <= bankFree /\ bankFree >= ED + v
  BY <1>1, <1>2, <1>5, InvNumbers
<1>9. /\ free' \in [Accounts -> Nat] /\ bankFree' \in Nat /\ unused' \in Nat
      /\ bankFree' + unused + v = bankFree + unused' /\ ~fault'
  BY <1>1, <1>3, <1>8, WithdrawNumbers
<1>10. fault' \in BOOLEAN
  BY <1>3 DEF Withdraw, balances, Inv, TypeOK
<1>11. TypeOK'
  BY <1>1, <1>3, <1>7, <1>9, <1>10 DEF Inv, TypeOK, books
<1>12. Solvent' /\ bankFree' - Owed' = bankFree - Owed
  BY <1>1, <1>3, <1>7, <1>9, InvNumbers DEF Solvent, Owed, books
<1>13. ScheduleIsSummed'
  <2>1. expected' = drained' + Sum(pending')
    BY <1>1, <1>3, <1>5, <1>7, InvNumbers
  <2> QED  BY <2>1, <1>3, <1>5 DEF ScheduleIsSummed
<1> QED  BY <1>9, <1>11, <1>12, <1>13 DEF Kept, Inv

\* The last check of on_finalize succeeds.
LEMMA EndStep ==
  ASSUME Inv, FinalizeEnd
  PROVE  Kept
<1>1. /\ bankPhase = "finalize" /\ bankPhase' = "block" /\ pending' = pending /\ pendingTotal' = pendingTotal
      /\ \A a \in Accounts : pending[a] = 0
  BY DEF FinalizeEnd, scheduled
<1>2. pendingTotal = 0 /\ expected = drained + Sum(pending) /\ pending \in [Accounts -> Nat]
  BY <1>1 DEF Inv, TypeOK, ScheduleIsSummed
<1>3. Sum(pending) = 0
  BY <1>1, <1>2, SumZero
<1>4. ~fault'
  <2>1. drained = expected /\ pendingTotal = 0
    BY <1>2, <1>3, InvNumbers
  <2> QED  BY <2>1, Zenon DEF FinalizeEnd, Inv
<1>5. fault' \in BOOLEAN
  BY DEF FinalizeEnd
<1>6. TypeOK'
  BY <1>5 DEF Inv, TypeOK, FinalizeEnd, balances, books, scheduled
<1>7. Owed' = Owed /\ bankFree' = bankFree /\ Owed \in Nat
  BY InvNumbers DEF Owed, FinalizeEnd, balances, books, scheduled
<1>8. Solvent' /\ bankFree' - Owed' = bankFree - Owed
  BY <1>7, InvNumbers DEF Solvent, Inv
<1>9. ScheduleIsSummed'
  BY <1>1, <1>2, <1>3 DEF ScheduleIsSummed
<1> QED  BY <1>4, <1>6, <1>8, <1>9 DEF Kept, Inv

\* Genesis gives the bank its existential deposit and empty books.
LEMMA InitInv ==
  ASSUME BankInit
  PROVE  Inv
<1>1. TypeOK
  <2>1. 0..Issuance \subseteq Nat
    BY AmountsAssumption
  <2>2. free \in [Accounts -> Nat]
    BY <2>1 DEF BankInit
  <2>3. fault \in BOOLEAN
    BY DEF BankInit
  <2> QED  BY <2>2, <2>3, AmountsAssumption DEF BankInit, TypeOK
<1>2. Sum(gas) = 0 /\ Sum(value) = 0 /\ Sum(pending) = 0
  <2>1. \A a \in Accounts : gas[a] = 0 /\ value[a] = 0 /\ pending[a] = 0
    BY DEF BankInit
  <2> QED  BY <1>1, <2>1, SumZero DEF TypeOK
<1>3. Owed = 0
  BY <1>2 DEF BankInit, Owed
<1>4. Solvent
  BY <1>3, AmountsAssumption DEF BankInit, Solvent
<1>5. ScheduleIsSummed
  BY <1>2 DEF BankInit, ScheduleIsSummed
<1> QED  BY <1>1, <1>4, <1>5 DEF BankInit, Inv

\* A step of something else.
LEMMA BankStutterStep ==
  ASSUME Inv, UNCHANGED bankVars
  PROVE  Kept
<1>1. Owed' = Owed /\ bankFree' = bankFree /\ Owed \in Nat
  BY InvNumbers DEF Owed, bankVars, balances, books, scheduled
<1>2. TypeOK'
  BY DEF Inv, TypeOK, bankVars, balances, books, scheduled, hook
<1>3. Solvent' /\ bankFree' - Owed' = bankFree - Owed
  BY <1>1, InvNumbers DEF Solvent, Inv
<1>4. ScheduleIsSummed'
  BY DEF Inv, ScheduleIsSummed, bankVars, scheduled, hook
<1>5. ~fault'
  BY DEF Inv, bankVars
<1> QED  BY <1>2, <1>3, <1>4, <1>5 DEF Kept, Inv

\* One step per call of the pallet.
LEMMA NextKept ==
  ASSUME Inv, BankNext
  PROVE  Inv' /\ (Kept \/ \E a \in Accounts, v \in Payments : Donate(a, v))
<1>1. Payments \subseteq Nat /\ \A amount \in Nat : Multiplier * amount \in Nat
  BY AmountsAssumption DEF Payments
<1>2. ASSUME NEW a \in Accounts, NEW amount \in Payments, NEW keepAlive \in BOOLEAN,
             DepositGas(a, amount, keepAlive)
      PROVE  Kept
  <2> DEFINE v == Multiplier * amount
  <2>1. v \in Nat
    BY <1>1
  <2>2. /\ Deposit(a, v, keepAlive) /\ UNCHANGED <<scheduled, hook>>
        /\ gas' = Plus(gas, a, v) /\ UNCHANGED value
    BY <1>2 DEF DepositGas
  <2> HIDE DEF v
  <2> QED  BY <2>1, <2>2, DepositStep
<1>3. ASSUME NEW a \in Accounts, NEW v \in Payments, NEW keepAlive \in BOOLEAN,
             DepositValue(a, v, keepAlive)
      PROVE  Kept
  <2>1. v \in Nat
    BY <1>1
  <2>2. /\ Deposit(a, v, keepAlive) /\ UNCHANGED <<scheduled, hook>>
        /\ value' = Plus(value, a, v) /\ UNCHANGED gas
    BY <1>3 DEF DepositValue
  <2> QED  BY <2>1, <2>2, DepositStep
<1>4. ASSUME NEW a \in Accounts, NEW amount \in Payments, WithdrawGas(a, amount)
      PROVE  Kept
  <2> DEFINE v == Multiplier * amount
  <2>1. v \in Nat
    BY <1>1
  <2>2. /\ bankPhase = "block" /\ v <= gas[a] /\ UNCHANGED <<scheduled, hook>> /\ UNCHANGED value
        /\ IF ~BankCanTransfer(v) THEN fault' = TRUE /\ UNCHANGED <<balances, gas>>
           ELSE gas' = Minus(gas, a, v) /\ Withdraw(a, v)
    BY <1>4 DEF WithdrawGas
  <2> HIDE DEF v
  <2> QED  BY <2>1, <2>2, WithdrawStep
<1>5. ASSUME NEW a \in Accounts, NEW v \in Payments, NEW to \in Accounts, TransferValue(a, to, v)
      PROVE  Kept
  <2>1. v \in Nat
    BY <1>1
  <2>2. /\ bankPhase = "block" /\ v <= value[a] /\ UNCHANGED <<scheduled, hook>> /\ UNCHANGED gas
        /\ IF ~BankCanTransfer(v) THEN fault' = TRUE /\ UNCHANGED <<balances, value>>
           ELSE value' = Minus(value, a, v) /\ Withdraw(to, v)
    BY <1>5 DEF TransferValue
  <2> QED  BY <2>1, <2>2, WithdrawStep
<1>6. ASSUME NEW a \in Accounts, NEW v \in Payments, NEW to \in Accounts,
             NEW share \in 0..(Multiplier * MaxAmount), SpendGas(to, a, v, share)
      PROVE  Kept
  <2>1. v \in Nat /\ share \in Nat
    BY <1>1, AmountsAssumption
  <2> QED  BY <1>6, <2>1, SpendStep
<1>7. ASSUME NEW a \in Accounts, NEW v \in Payments, NEW to \in Accounts,
             TransferLockedValue(a, to, v)
      PROVE  Kept
  BY <1>1, <1>7, LockedStep
<1>8. ASSUME NEW a \in Accounts, NEW v \in Payments, Donate(a, v)
      PROVE  Inv'
  <2> DEFINE keepAlive == FALSE
  <2>1. Deposit(a, v, keepAlive) /\ UNCHANGED <<books, scheduled, hook>> /\ v \in Nat
    BY <1>1, <1>8 DEF Donate
  <2> HIDE DEF keepAlive
  <2> QED  BY <2>1, DonateStep
<1>9. Kept \/ \E a \in Accounts, v \in Payments : Donate(a, v)
  BY <1>2, <1>3, <1>4, <1>5, <1>6, <1>7, TakeStep, PayStep, EndStep DEF BankNext
<1> QED  BY <1>8, <1>9 DEF Kept

\* The inductive invariant holds throughout.
THEOREM Invariance == BankSpec => []Inv
<1>1. BankInit => Inv
  BY InitInv
<1>2. Inv /\ [BankNext]_bankVars => Inv'
  BY NextKept, BankStutterStep DEF Kept
<1> QED  BY <1>1, <1>2, PTL DEF BankSpec

\* The bank's account always covers its debts and its existential deposit, for
\* any number of accounts and any amounts.
THEOREM BankIsSolvent == BankSpec => []Solvent
<1>1. Inv => Solvent
  BY DEF Inv
<1> QED  BY <1>1, Invariance, PTL

\* No unreachable! or "must be unreachable" error of the pallet is ever reached.
THEOREM NothingUnreachable == BankSpec => []NoFault
<1>1. Inv => NoFault
  BY DEF Inv, NoFault
<1> QED  BY <1>1, Invariance, PTL

\* OnFinalizeValue always is what OnFinalizeTransfers sums to.
THEOREM ScheduleIsExact == BankSpec => []ScheduleIsSummed
<1>1. Inv => ScheduleIsSummed
  BY DEF Inv
<1> QED  BY <1>1, Invariance, PTL

\* Every call of the pallet moves money and books together.
THEOREM SurplusStays == BankSpec => SurplusKept
<1>1. Inv /\ [BankNext]_bankVars
      => [\/ bankFree' - Owed' = bankFree - Owed
          \/ \E a \in Accounts, v \in Payments : Donate(a, v)]_bankVars
  BY NextKept DEF Kept
<1> QED  BY <1>1, Invariance, PTL DEF BankSpec, SurplusKept

=============================================================================
