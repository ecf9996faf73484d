---------------------------- MODULE MessageQueue ----------------------------
(***************************************************************************)
(* The message queue of pallet-gear-messenger: a list of dispatches linked *)
(* through storage (DequeueImpl), the block's counter of dequeued messages *)
(* and the switch that stops the processing of the queue, together with    *)
(* the loop of process_queue that drives them.                             *)
(*                                                                         *)
(* A dispatch is stored under its own id, so it is represented by that id. *)
(* Every caller turns an error of the queue into a panic, which undoes the *)
(* call: an error leaves the storage alone and is kept in queueFault.      *)
(***************************************************************************)
EXTENDS Storage, Naturals, Sequences, FiniteSets

CONSTANTS Ids, MaxDequeued \* bound: messages taken in one block

ASSUME IdsAssumption == IsFiniteSet(Ids) /\ None \notin Ids

VARIABLES head, tail, \* None if not set
          next,       \* Dispatches: message id -> the next one, or None
          current,    \* the dispatch process_queue has in hand, or None
          dequeued,   \* counter Dequeued
          allowed,    \* toggler QueueProcessing
          handled,    \* history: dispatches handled in this block
          queueFault  \* the error some operation returned, or None

list == <<head, tail, next>>
vars == <<list, current, dequeued, allowed, handled, queueFault>>

Fails(error) == queueFault' = error /\ UNCHANGED list

-----------------------------------------------------------------------------
\* DequeueImpl

\* Mutant: the old tail is not linked to the new one.
PushBackUnlinked(k) ==
    IF tail # None
    THEN tail' = k /\ next' = Put(next, k, None) /\ UNCHANGED <<head, queueFault>>
    ELSE head' = k /\ tail' = k /\ next' = Put(next, k, None) /\ UNCHANGED queueFault

PushBack(k) ==
    IF k \in DOMAIN next THEN Fails("duplicate_key")
    ELSE IF tail # None THEN
        IF tail \notin DOMAIN next THEN Fails("element_not_found")
        ELSE IF next[tail] # None THEN Fails("tail_has_next_key")
        ELSE /\ tail' = k /\ next' = Put(Put(next, tail, k), k, None)
             /\ UNCHANGED <<head, queueFault>>
    ELSE IF head # None THEN Fails("head_should_not_be_set")
    ELSE head' = k /\ tail' = k /\ next' = Put(next, k, None) /\ UNCHANGED queueFault

PushFront(k) ==
    IF k \in DOMAIN next THEN Fails("duplicate_key")
    ELSE IF head # None
    THEN head' = k /\ next' = Put(next, k, head) /\ UNCHANGED <<tail, queueFault>>
    ELSE IF tail # None THEN Fails("tail_should_not_be_set")
    ELSE head' = k /\ tail' = k /\ next' = Put(next, k, None) /\ UNCHANGED queueFault

\* The head goes; with the last element the tail goes too.
PopFront ==
    IF head \notin DOMAIN next THEN Fails("element_not_found")
    ELSE IF next[head] = None /\ tail = None THEN Fails("tail_should_be_set")
    ELSE /\ head' = next[head] /\ next' = Drop(next, head)
         /\ tail' = (IF next[head] = None THEN None ELSE tail)
         /\ UNCHANGED queueFault

-----------------------------------------------------------------------------
Init ==
    /\ head = None /\ tail = None /\ next = [m \in {} |-> None]
    /\ current = None /\ dequeued = 0 /\ allowed = TRUE /\ handled = 0
    /\ queueFault = None

\* The messenger's on_initialize.
StartBlock ==
    /\ current = None
    /\ dequeued' = 0 /\ allowed' = TRUE /\ handled' = 0
    /\ UNCHANGED <<list, current, queueFault>>

\* queue, by an extrinsic, a task or a journal note. Ids are hashes over nonces,
\* and a woken or delayed message is in no queue: its id is not there.
Queue(m) ==
    /\ m \notin DOMAIN next /\ m # current
    /\ PushBack(m)
    /\ UNCHANGED <<current, dequeued, allowed, handled>>

\* One turn of process_queue takes the first dispatch.
Dequeue ==
    /\ allowed /\ current = None /\ dequeued < MaxDequeued
    /\ IF head # None
       THEN PopFront /\ current' = head /\ dequeued' = dequeued + 1
       ELSE /\ tail # None /\ queueFault' = "tail_should_not_be_set"
            /\ UNCHANGED <<list, current, dequeued>>
    /\ UNCHANGED <<allowed, handled>>

\* Mutant: a dispatch whose execution was stopped goes to the end of the queue.
RequeueLast ==
    /\ current # None
    /\ PushBack(current)
    /\ dequeued' = dequeued - 1 /\ allowed' = FALSE /\ current' = None
    /\ UNCHANGED handled

\* requeue for JournalNote::StopProcessing: saturating decrease, then deny.
Requeue ==
    /\ current # None
    /\ PushFront(current)
    /\ dequeued' = (IF dequeued = 0 THEN 0 ELSE dequeued - 1)
    /\ allowed' = FALSE /\ current' = None
    /\ UNCHANGED handled

\* The journal of the dispatch is done.
Handle ==
    /\ current # None /\ current' = None /\ handled' = handled + 1
    /\ UNCHANGED <<list, dequeued, allowed, queueFault>>

Clear ==
    /\ current = None
    /\ head' = None /\ tail' = None /\ next' = [m \in {} |-> None]
    /\ UNCHANGED <<current, dequeued, allowed, handled, queueFault>>

Next ==
    \/ StartBlock
    \/ \E m \in Ids : Queue(m)
    \/ Dequeue \/ Requeue \/ Handle \/ Clear

Spec == Init /\ [][Next]_vars

-----------------------------------------------------------------------------
\* The list, as DequeueIter walks it.

\* The sequences as long as a list can be, collected so that TLC lists them once.
Listings == {s : s \in UNION {[1..n -> Ids] : n \in 0..Cardinality(Ids)}}

\* The links h, t and n make up the list s.
Links(h, t, n, s) ==
    /\ \A i, j \in 1..Len(s) : s[i] = s[j] => i = j
    /\ DOMAIN n = {s[i] : i \in 1..Len(s)}
    /\ h = (IF Len(s) = 0 THEN None ELSE s[1])
    /\ t = (IF Len(s) = 0 THEN None ELSE s[Len(s)])
    /\ \A i \in 1..Len(s) : n[s[i]] = (IF i = Len(s) THEN None ELSE s[i + 1])

ListOf(h, t, n) == CHOOSE s \in Listings : Links(h, t, n, s)

Listing == ListOf(head, tail, next)

Waiting == IF current = None THEN Listing ELSE <<current>> \o Listing

Promise == INSTANCE ArrivalOrder WITH waiting <- Waiting

-----------------------------------------------------------------------------
\* Every variable keeps to its type: the links are ids or not set.
ListTypes ==
    /\ head \in Ids \cup {None} /\ tail \in Ids \cup {None}
    /\ DOMAIN next \subseteq Ids
    /\ \A m \in DOMAIN next : next[m] \in Ids \cup {None}
    /\ current \in Ids \cup {None}
    /\ dequeued \in Nat /\ handled \in Nat /\ allowed \in BOOLEAN

\* The storage always is one chain from head to tail that holds every stored
\* dispatch once: no dispatch is lost behind a broken link, none is in a cycle.
IsChain == \E s \in Listings : Links(head, tail, next, s)

\* No operation of the queue fails: none of the callers' unreachable! is hit.
NoError == queueFault = None

\* The total that MessagesDispatched reports is the number of dispatches handled
\* in the block; the decrease for a requeue never saturates.
DequeuedCounts == dequeued = handled + (IF current = None THEN 0 ELSE 1)

\* Dispatches are handled once each, in arrival order, whatever is requeued.
HandledInOrder == Promise!Spec
=============================================================================
