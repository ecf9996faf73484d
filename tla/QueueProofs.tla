----------------------------- MODULE QueueProofs -----------------------------
(***************************************************************************)
(* Proofs about the two queues of the runtime, and about the locks of gstd *)
(* that messages of a program queue for.                                   *)
(*                                                                         *)
(* EthBridge, the queue of messages to Ethereum, for any capacity, any     *)
(* number of blocks, messages and senders: its root is never stale, its    *)
(* resets drop what is final, the queue of an old authority set is cleared,*)
(* and nonces identify queues.                                             *)
(*                                                                         *)
(* GstdRwLock: the invariant is inductive as it is checked: the count of   *)
(* the readers tells a writer that there is none, and the record of the    *)
(* writer tells a reader the same of writers.                              *)
(*                                                                         *)
(* GstdMutex: the invariant is inductive once the owner and the tasks have *)
(* their types.  The only code that takes the lock from a message that     *)
(* holds a guard is Oust, which marks the message exceeded.                *)
(*                                                                         *)
(* MessageQueue: the linked storage of the dispatches keeps the promise of *)
(* arrival order, for every set of messages and any number of them in the  *)
(* queue.                                                                  *)
(***************************************************************************)
EXTENDS MessageQueue, EthBridge, GstdRwLock, GstdMutex, TLAPS, NaturalsInduction, FiniteSetTheorems

\* First-order leaves first, then arithmetic and records.
USE ZenonT(5), SMTT(90)

-----------------------------------------------------------------------------
(* The queue of pallet-gear-eth-bridge. *)

\* Finality and sessions never run ahead of the block.
Clock ==
  /\ finalized <= block
  /\ setSince <= lastSession
  /\ lastSession <= block
  /\ phase = "session" => lastSession < block

\* Before the first change of the authorities nothing was queued.
Fresh ==
  ~initialized => /\ queue = <<>> /\ overflowedSince = None
                  /\ clearTimer = None /\ ~queueChanged /\ queueId = 0

\* A message of this block is in the queue only after the hooks of its
\* start, and the block then knows that the queue was changed.
Dated ==
  \A i \in DOMAIN queue :
    /\ queue[i].block <= block
    /\ phase \in {"session", "init"} => queue[i].block < block
    /\ phase = "calls" /\ queue[i].block = block => queueChanged

\* An overflow is recorded for the block of the last message, except for
\* what governance has pushed since this block began.
Overflow ==
  overflowedSince # None =>
    /\ Len(queue) >= QueueCapacity
    /\ \A i \in DOMAIN queue :
         \/ queue[i].block <= overflowedSince
         \/ /\ phase = "calls" /\ queue[i].block = block
            /\ queue[i].source \in Governance

\* The timer runs from the change of the authorities to the second
\* on_initialize after it.
Timer ==
  clearTimer # None =>
    /\ initialized
    /\ \/ clearTimer = 2 /\ phase = "init" /\ block = setSince
       \/ clearTimer = 1 /\ phase \in {"calls", "done"} /\ block = setSince
       \/ clearTimer = 1 /\ phase \in {"session", "init"} /\ block = setSince + 1

\* Ids of the old set are in the queue only while the timer runs; the
\* change that initializes the bridge starts none.
Old ==
  /\ clearTimer = None =>
       \A i \in DOMAIN queue :
         \/ queue[i].block > setSince
         \/ queueId = 0 /\ queue[i].block = setSince
  /\ initialized /\ block = setSince /\ clearTimer = None =>
       /\ queueId = 0
       /\ phase \in {"init", "calls"} => overflowedSince = None

\* Nonces grow from queue to queue.
Numbered ==
  /\ \A i \in DOMAIN queue : queue[i].nonce < nonce
  /\ \A q \in DOMAIN queuesInfo : queuesInfo[q] # Empty =>
       /\ queuesInfo[q].latest_nonce_used < nonce
       /\ q < queueId =>
            \A i \in DOMAIN queue : queuesInfo[q].latest_nonce_used < queue[i].nonce

\* The inductive invariant of the bridge.
BridgeInv ==
  /\ BridgeTypes /\ Clock /\ Fresh /\ Dated /\ Overflow /\ Timer /\ Old /\ Numbered
  /\ RootIsQueue /\ NoncesIdentifyQueue

-----------------------------------------------------------------------------

\* The initial state satisfies the invariant.
LEMMA BridgeInitInv == BridgeInit => BridgeInv
<1> SUFFICES ASSUME BridgeInit PROVE BridgeInv
  OBVIOUS
<1> USE BridgeAssumption DEF BridgeInit
<1>1. BridgeTypes
  <2>1. queue \in Seq(Message) /\ purse \in [Sources -> Nat]
    BY SMTT(90)
  <2>2. DOMAIN queuesInfo = {}
    OBVIOUS
  <2> QED  BY <2>1, <2>2 DEF BridgeTypes
<1>2. Clock /\ Fresh /\ Dated /\ Overflow /\ Timer /\ Old /\ RootIsQueue
  BY SMTT(90) DEF Clock, Fresh, Dated, Overflow, Timer, Old, RootIsQueue
<1>3. Numbered /\ NoncesIdentifyQueue
  BY SMTT(90) DEF Numbered, NoncesIdentifyQueue
<1> QED  BY <1>1, <1>2, <1>3 DEF BridgeInv

\* The fields of a queued message.
LEMMA QueueTypes ==
  ASSUME BridgeTypes
  PROVE  /\ Len(queue) \in Nat /\ DOMAIN queue = 1 .. Len(queue)
         /\ \A i \in DOMAIN queue : /\ queue[i].block \in Nat
                                    /\ queue[i].nonce \in Nat
                                    /\ queue[i].source \in Sources
<1>1. queue \in Seq(Message)
  BY DEF BridgeTypes
<1>2. Len(queue) \in Nat /\ DOMAIN queue = 1 .. Len(queue)
  BY SMTT(90), <1>1
<1>3. \A i \in 1 .. Len(queue) : queue[i] \in Message
  BY SMTT(90), <1>1
<1> QED  BY <1>2, <1>3 DEF Message

\* A new block, a finalized block and a block without a change of session
\* leave the queue and the timer alone.
LEMMA ChainSteps ==
  ASSUME BridgeInv, BeginBlock \/ Finalize \/ SameSession
  PROVE  BridgeInv'
<1> USE BridgeAssumption DEF BridgeInv
<1>0. /\ \/ block' = block + 1 /\ phase = "done" /\ phase' = "session"
         \/ block' = block /\ phase' = phase
         \/ block' = block /\ phase = "session" /\ phase' = "init"
      /\ finalized' \in Nat /\ finalized' <= block'
      /\ UNCHANGED <<setSince, lastSession, initialized, paused, queue, root,
           queueId, queuesInfo, overflowedSince, clearTimer, nonce,
           queueChanged, fee, purse>>
  BY SMTT(90) DEF BeginBlock, Finalize, SameSession, queueVs, BridgeTypes, Clock
<1>1. BridgeTypes'
  BY SMTT(90), <1>0 DEF BridgeTypes
<1>2. Clock'
  BY SMTT(90), <1>0 DEF BridgeTypes, Clock
<1>3. Fresh' /\ RootIsQueue'
  BY <1>0 DEF Fresh, RootIsQueue
<1>4. Dated'
  <2>1. \A i \in DOMAIN queue : queue[i].block \in Nat
    BY QueueTypes
  <2> QED  BY SMTT(90), <1>0, <2>1 DEF BridgeTypes, Dated
<1>5. Overflow'
  BY <1>0 DEF BridgeTypes, Overflow, Message
<1>6. Timer'
  BY <1>0 DEF BridgeTypes, Timer
<1>7. Old'
  BY SMTT(90), <1>0 DEF BridgeTypes, Clock, Fresh, Timer, Old
<1>8. Numbered' /\ NoncesIdentifyQueue'
  BY <1>0 DEF Numbered, NoncesIdentifyQueue
<1> QED  BY <1>1, <1>2, <1>3, <1>4, <1>5, <1>6, <1>7, <1>8

\* A change of the authorities initializes the bridge, whose queue is empty,
\* or starts the timer, under which messages of the old set are allowed.
LEMMA NewSessionStep ==
  ASSUME BridgeInv, NEW changed \in BOOLEAN, OnNewSession(changed)
  PROVE  BridgeInv'
<1> USE BridgeAssumption DEF OnNewSession, BridgeInv
<1>1. BridgeTypes' /\ Clock' /\ Fresh' /\ RootIsQueue'
  BY SMTT(90) DEF BridgeTypes, Clock, Fresh, RootIsQueue, ScheduledClear
<1>2. Dated' /\ Overflow'
  BY DEF BridgeTypes, Dated, Overflow
<1>3. Timer'
  BY DEF BridgeTypes, Clock, Timer, ScheduledClear
<1>4. Old'
  BY SMTT(90) DEF BridgeTypes, Clock, Fresh, Timer, Old, ScheduledClear
<1>5. Numbered' /\ NoncesIdentifyQueue'
  BY DEF Numbered, NoncesIdentifyQueue
<1> QED  BY <1>1, <1>2, <1>3, <1>4, <1>5

\* A reset leaves an empty queue with a new id, for which nothing has been
\* published.
LEMMA ResetFacts ==
  ASSUME BridgeInv, reset_queue, UNCHANGED nonce
  PROVE  /\ queue' = <<>> /\ root' = <<>> /\ queueId' \in Nat
         /\ DOMAIN queuesInfo' \subseteq 0 .. queueId'
         /\ \A q \in DOMAIN queuesInfo' : queuesInfo'[q] # Empty =>
              q \in DOMAIN queuesInfo /\ queuesInfo'[q] = queuesInfo[q]
         /\ Numbered' /\ NoncesIdentifyQueue'
<1> USE DEF BridgeInv, reset_queue, Put
<1>1. queue' = <<>> /\ root' = <<>> /\ queueId' \in Nat
  BY SMTT(90) DEF BridgeTypes
<1>2. DOMAIN queuesInfo' = DOMAIN queuesInfo \cup {queueId + 1}
  OBVIOUS
<1>3. DOMAIN queuesInfo' \subseteq 0 .. queueId'
  BY SMTT(90), <1>2 DEF BridgeTypes
<1>4. ASSUME NEW q \in DOMAIN queuesInfo', queuesInfo'[q] # Empty
      PROVE  q \in DOMAIN queuesInfo /\ queuesInfo'[q] = queuesInfo[q]
  BY <1>2, <1>4 DEF BridgeTypes
<1>5. Numbered'
  BY SMTT(90), <1>1, <1>4 DEF Numbered, Empty
<1>6. NoncesIdentifyQueue'
  BY SMTT(90), <1>4 DEF NoncesIdentifyQueue, Empty
<1> QED  BY <1>1, <1>3, <1>4, <1>5, <1>6

\* on_initialize counts the timer down, or clears the queue at its end.
LEMMA OnInitializeStep ==
  ASSUME BridgeInv, OnInitialize
  PROVE  BridgeInv'
<1> USE BridgeAssumption DEF BridgeInv, OnInitialize
<1>1. CASE clearTimer # None /\ clearTimer <= 1
  <2>1. reset_queue /\ clearTimer' = None /\ initialized
    BY <1>1 DEF clear_bridge, BridgeTypes, Timer
  <2>2. /\ queue' = <<>> /\ root' = <<>> /\ queueId' \in Nat
        /\ DOMAIN queuesInfo' \subseteq 0 .. queueId'
        /\ \A q \in DOMAIN queuesInfo' : queuesInfo'[q] # Empty =>
             q \in DOMAIN queuesInfo /\ queuesInfo'[q] = queuesInfo[q]
        /\ Numbered' /\ NoncesIdentifyQueue'
    BY <2>1, ResetFacts
  <2>3. overflowedSince' = None
    BY <2>1 DEF reset_queue
  <2>4. block = setSince + 1
    BY SMTT(90), <1>1 DEF Timer, BridgeTypes
  <2>5. BridgeTypes'
    BY SMTT(90), <2>1, <2>2, <2>3 DEF BridgeTypes, Empty
  <2>6. Clock' /\ Fresh' /\ Dated' /\ Overflow' /\ Timer' /\ RootIsQueue'
    BY SMTT(90), <2>1, <2>2, <2>3 DEF Clock, Fresh, Dated, Overflow, Timer, RootIsQueue
  <2>7. Old'
    BY SMTT(90), <2>1, <2>2, <2>4 DEF Old, BridgeTypes
  <2> QED  BY <2>2, <2>5, <2>6, <2>7
<1>2. CASE ~(clearTimer # None /\ clearTimer <= 1)
  <2>1. /\ UNCHANGED queueVs
        /\ clearTimer = None => clearTimer' = None
        /\ clearTimer # None => clearTimer' = clearTimer - 1 /\ clearTimer > 1
    BY SMTT(90), <1>2 DEF BridgeTypes
  <2>2. BridgeTypes' /\ Clock' /\ Fresh' /\ RootIsQueue'
    BY SMTT(90), <2>1 DEF BridgeTypes, Clock, Fresh, RootIsQueue, queueVs
  <2>3. Dated' /\ Overflow'
    BY SMTT(90), <2>1 DEF BridgeTypes, Dated, Overflow, queueVs, Message
  <2>4. Timer'
    BY SMTT(90), <2>1 DEF BridgeTypes, Timer
  <2>5. Old'
    BY SMTT(90), <2>1 DEF BridgeTypes, Timer, Old, queueVs
  <2>6. Numbered' /\ NoncesIdentifyQueue'
    BY <2>1 DEF Numbered, NoncesIdentifyQueue, queueVs
  <2> QED  BY <2>2, <2>3, <2>4, <2>5, <2>6
<1> QED  BY <1>1, <1>2

\* Pausing, unpausing and the fee do not touch the queue.
LEMMA GovernanceSteps ==
  ASSUME BridgeInv, Pause \/ Unpause \/ \E f \in Fees : SetFee(f)
  PROVE  BridgeInv'
<1> USE BridgeAssumption DEF chain, queueVs, BridgeInv, Pause, Unpause, SetFee
<1>1. BridgeTypes'
  BY DEF BridgeTypes
<1>2. Clock' /\ Fresh' /\ RootIsQueue' /\ Timer'
  BY SMTT(90) DEF Clock, Fresh, RootIsQueue, Timer
<1>3. Dated' /\ Overflow' /\ Old'
  BY SMTT(90) DEF Dated, Overflow, Old
<1>4. Numbered' /\ NoncesIdentifyQueue'
  BY DEF Numbered, NoncesIdentifyQueue
<1> QED  BY <1>1, <1>2, <1>3, <1>4

\* A message is appended with the next nonce and the current block; a user's
\* message finds room, so no overflow is on record then.
LEMMA QueueMessageStep ==
  ASSUME BridgeInv, NEW s \in Sources, phase = "calls", queue_message(s),
         purse' \in [Sources -> Nat],
         UNCHANGED <<chain, initialized, paused, clearTimer, fee>>
  PROVE  BridgeInv'
<1> USE BridgeAssumption DEF BridgeInv
<1> DEFINE m == [nonce |-> nonce, block |-> block, source |-> s]
<1>0. /\ queue' = Append(queue, m) /\ nonce' = nonce + 1 /\ queueChanged'
      /\ initialized /\ queueChanged' \in BOOLEAN
      /\ s \in Governance \/ Len(queue) < QueueCapacity
      /\ UNCHANGED <<root, queueId, queuesInfo, overflowedSince>>
      /\ UNCHANGED <<block, phase, finalized, setSince, lastSession>>
      /\ UNCHANGED <<initialized, paused, clearTimer, fee>>
  BY DEF queue_message, Admitted, chain
<1>1. /\ block \in Nat /\ nonce \in Nat /\ setSince \in Nat /\ m \in Message
      /\ m.nonce = nonce /\ m.block = block /\ m.source = s
      /\ QueueCapacity \in Nat /\ queue \in Seq(Message)
  BY DEF BridgeTypes, Message
<1>2. /\ Len(queue) \in Nat /\ DOMAIN queue = 1 .. Len(queue)
      /\ \A i \in DOMAIN queue : /\ queue[i].block \in Nat
                                 /\ queue[i].nonce \in Nat
  BY QueueTypes
<1> HIDE DEF m
<1>3. /\ queue' \in Seq(Message) /\ Len(queue') = Len(queue) + 1
      /\ DOMAIN queue' = 1 .. Len(queue) + 1
      /\ \A i \in DOMAIN queue : queue'[i] = queue[i]
      /\ queue'[Len(queue) + 1] = m
  <2>1. queue' = Append(queue, m) /\ queue \in Seq(Message) /\ m \in Message  BY <1>0, <1>1
  <2> QED  BY ONLY SMTT(90), <1>2, <2>1
<1>4. \A i \in DOMAIN queue' : \/ i \in DOMAIN queue /\ queue'[i] = queue[i]
                             \/ queue'[i] = m
  BY ONLY SMTT(90), <1>2, <1>3
<1>5. BridgeTypes'
  BY SMTT(90), <1>0, <1>3 DEF BridgeTypes
<1>6. Clock' /\ Fresh' /\ RootIsQueue' /\ Timer'
  BY SMTT(90), <1>0 DEF Clock, Fresh, RootIsQueue, Timer
<1>7. Dated'
  BY SMTT(90), <1>0, <1>1, <1>4 DEF Dated
<1>8. Overflow'
  <2> SUFFICES ASSUME overflowedSince' # None
               PROVE  /\ Len(queue') >= QueueCapacity
                      /\ \A i \in DOMAIN queue' :
                           \/ queue'[i].block <= overflowedSince'
                           \/ /\ phase' = "calls" /\ queue'[i].block = block'
                              /\ queue'[i].source \in Governance
    BY DEF Overflow
  <2>1. Len(queue) >= QueueCapacity /\ s \in Governance
    BY SMTT(90), <1>0, <1>1, <1>2 DEF Overflow
  <2>2. Len(queue') >= QueueCapacity
    BY SMTT(90), <1>1, <1>2, <1>3, <2>1
  <2> QED  BY <1>0, <1>1, <1>4, <2>1, <2>2 DEF Overflow
<1>9. Old'
  <2>1. clearTimer = None => \/ block > setSince
                             \/ queueId = 0 /\ block = setSince
    <3>1. block > setSince \/ block = setSince
      BY SMTT(90) DEF Clock, BridgeTypes
    <3>2. initialized = TRUE
      BY <1>0 DEF BridgeTypes
    <3>3. block = setSince /\ clearTimer = None => queueId = 0
      BY <3>2 DEF Old
    <3> QED  BY <3>1, <3>3
  <2> QED  BY <1>0, <1>1, <1>4, <2>1 DEF Old
<1>10. Numbered'
  <2>1. \A i \in DOMAIN queue' : queue'[i].nonce < nonce'
    BY SMTT(90), <1>0, <1>1, <1>2, <1>4 DEF Numbered
  <2>2. ASSUME NEW q \in DOMAIN queuesInfo', queuesInfo'[q] # Empty
        PROVE  /\ queuesInfo'[q].latest_nonce_used < nonce'
               /\ q < queueId' => \A i \in DOMAIN queue' :
                    queuesInfo'[q].latest_nonce_used < queue'[i].nonce
    <3>1. /\ q \in DOMAIN queuesInfo /\ queuesInfo[q] # Empty
          /\ queuesInfo'[q] = queuesInfo[q]
      BY <1>0, <2>2 DEF Empty
    <3>2. queuesInfo[q].latest_nonce_used \in Int
      BY <3>1 DEF BridgeTypes
    <3> QED  BY SMTT(90), <1>0, <1>1, <1>4, <3>1, <3>2 DEF Numbered
  <2> QED  BY <2>1, <2>2 DEF Numbered, Empty
<1>11. NoncesIdentifyQueue'
  BY <1>0 DEF NoncesIdentifyQueue, Empty
<1> QED  BY <1>5, <1>6, <1>7, <1>8, <1>9, <1>10, <1>11

\* Both ways to send a message charge the sender no more than it has.
LEMMA SendSteps ==
  ASSUME BridgeInv, NEW s \in Sources, NEW v \in 0 .. Funds,
         SendEthMessage(s) \/ HandleMessage(s, v)
  PROVE  BridgeInv'
<1> USE BridgeAssumption DEF BridgeInv
<1>1. purse \in [Sources -> Nat] /\ fee \in Nat
  BY DEF BridgeTypes
<1>2. CASE SendEthMessage(s)
  <2>1. Charge(s) \in Nat /\ purse[s] >= Charge(s)
    BY <1>1, <1>2 DEF SendEthMessage, Charge
  <2>2. purse' \in [Sources -> Nat]
    BY SMTT(90), <1>1, <1>2, <2>1 DEF SendEthMessage
  <2> QED  BY <1>2, <2>2, QueueMessageStep DEF SendEthMessage
<1>3. CASE HandleMessage(s, v)
  <2> DEFINE refund == IF s \in Governance THEN v ELSE v - fee
  <2>1. v \in Nat /\ purse[s] \in Nat /\ v <= purse[s] /\ refund \in Nat
    BY SMTT(90), <1>1, <1>3 DEF HandleMessage
  <2>2. purse' = [purse EXCEPT ![s] = purse[s] - v + refund]
    BY <1>1, <1>3 DEF HandleMessage
  <2> HIDE DEF refund
  <2>3. purse' \in [Sources -> Nat]
    BY SMTT(90), <1>1, <2>1, <2>2
  <2> QED  BY <1>3, <2>3, QueueMessageStep DEF HandleMessage
<1> QED  BY <1>2, <1>3

\* A reset by proof empties the queue of an initialized bridge.
LEMMA ResetStep ==
  ASSUME BridgeInv, NEW n \in 1 .. MaxBlock, ResetOverflowedQueue(n)
  PROVE  BridgeInv'
<1> USE BridgeAssumption DEF BridgeInv
<1>0. /\ reset_queue /\ overflowedSince # None /\ overflowedSince' = None
      /\ phase = "calls" /\ n > setSince /\ n <= finalized /\ n \in Nat
      /\ UNCHANGED <<block, phase, finalized, setSince, lastSession>>
      /\ UNCHANGED <<initialized, paused, clearTimer, nonce, queueChanged, fee, purse>>
  BY SMTT(90) DEF ResetOverflowedQueue, IsProof, reset_queue, chain
<1>1. /\ queue' = <<>> /\ root' = <<>> /\ queueId' \in Nat
      /\ DOMAIN queuesInfo' \subseteq 0 .. queueId'
      /\ \A q \in DOMAIN queuesInfo' : queuesInfo'[q] # Empty =>
           q \in DOMAIN queuesInfo /\ queuesInfo'[q] = queuesInfo[q]
      /\ Numbered' /\ NoncesIdentifyQueue'
  BY <1>0, ResetFacts
<1>2. initialized
  BY <1>0 DEF Fresh
<1>3. BridgeTypes'
  BY SMTT(90), <1>0, <1>1 DEF BridgeTypes, Empty
<1>4. Clock' /\ Fresh' /\ Dated' /\ Overflow' /\ Timer' /\ RootIsQueue'
  BY SMTT(90), <1>0, <1>1, <1>2 DEF Clock, Fresh, Dated, Overflow, Timer, RootIsQueue
<1>5. Old'
  BY SMTT(90), <1>0, <1>1 DEF Old, Clock, BridgeTypes
<1> QED  BY <1>1, <1>3, <1>4, <1>5

\* At the end of a block the queue, if changed, is published under its id,
\* and a full one is recorded as overflowed in this block.
LEMMA OnFinalizeStep ==
  ASSUME BridgeInv, OnFinalize
  PROVE  BridgeInv'
<1> USE BridgeAssumption DEF BridgeInv
<1>0. /\ phase = "calls" /\ phase' = "done" /\ queueChanged' = FALSE
      /\ UNCHANGED <<queue, queueId, block, finalized, setSince, lastSession,
                     initialized, paused, clearTimer, nonce, fee, purse>>
  BY DEF OnFinalize, update_queue_merkle_root_if_changed, queueVs
<1>1. /\ Len(queue) \in Nat /\ DOMAIN queue = 1 .. Len(queue)
      /\ \A i \in DOMAIN queue : /\ queue[i].block \in Nat
                                 /\ queue[i].nonce \in Nat
      /\ block \in Nat /\ nonce \in Nat
  BY QueueTypes DEF BridgeTypes
<1>2. CASE queueChanged /\ queue # <<>>
  <2> DEFINE info == [highest_root |-> queue, latest_nonce_used |-> nonce - 1]
  <2>1. /\ overflowedSince' = Overflowed /\ root' = queue
        /\ queuesInfo' = Put(queuesInfo, queueId, info)
    BY <1>2 DEF OnFinalize, update_queue_merkle_root_if_changed, LatestNonceUsed
  <2>2. info.highest_root = queue /\ info.latest_nonce_used = nonce - 1
    OBVIOUS
  <2> HIDE DEF info
  <2>3. /\ DOMAIN queuesInfo' = DOMAIN queuesInfo \cup {queueId}
        /\ queuesInfo'[queueId] = info
        /\ \A q \in DOMAIN queuesInfo \ {queueId} : queuesInfo'[q] = queuesInfo[q]
    BY <2>1 DEF Put
  <2>4. BridgeTypes'
    <3>1. overflowedSince' \in Nat \cup {None}
      BY <2>1 DEF Overflowed, BridgeTypes
    <3>2. queue \in Seq(Message) /\ nonce - 1 \in Int
      BY SMTT(90), <1>1 DEF BridgeTypes
    <3>3. \A q \in DOMAIN queuesInfo' : queuesInfo'[q] # Empty =>
            /\ queuesInfo'[q].highest_root \in Seq(Message)
            /\ queuesInfo'[q].latest_nonce_used \in Int
      BY <2>2, <2>3, <3>2 DEF BridgeTypes, Empty
    <3>4. DOMAIN queuesInfo' \subseteq 0 .. queueId'
      <4>1. DOMAIN queuesInfo \subseteq 0 .. queueId /\ queueId \in Nat  BY DEF BridgeTypes
      <4>2. queueId' = queueId  BY <1>0
      <4> QED  BY ONLY SMTT(90), <2>3, <4>1, <4>2
    <3> QED  BY <1>0, <3>1, <3>3, <3>4 DEF BridgeTypes, Empty
  <2>5. Clock' /\ Fresh' /\ Dated' /\ RootIsQueue'
    BY <1>0, <1>2, <2>1 DEF Clock, Fresh, Dated, RootIsQueue
  <2>6. Timer' /\ Old'
    BY <1>0, <1>2 DEF Timer, Old, BridgeTypes
  <2>7. Overflow'
    BY <1>0, <1>1, <2>1 DEF Overflow, Overflowed, Dated, BridgeTypes
  <2>8. Numbered'
    <3>1. queueId \in Nat /\ Numbered  BY DEF BridgeTypes
    <3> QED  BY ONLY SMTT(90), <1>0, <1>1, <2>2, <2>3, <3>1 DEF Numbered, Empty
  <2>9. NoncesIdentifyQueue'
    <3> SUFFICES ASSUME NEW q \in DOMAIN queuesInfo', queuesInfo'[q] # Empty,
                        NEW i \in DOMAIN queuesInfo'[q].highest_root
                 PROVE  LET n == queuesInfo'[q].highest_root[i].nonce IN
                        /\ n <= queuesInfo'[q].latest_nonce_used
                        /\ \A r \in DOMAIN queuesInfo' :
                             r < q /\ queuesInfo'[r] # Empty =>
                               queuesInfo'[r].latest_nonce_used < n
      BY DEF NoncesIdentifyQueue, Empty
    <3>1. \A r \in DOMAIN queuesInfo' : r \in Nat /\ r <= queueId
      <4>1. DOMAIN queuesInfo' = DOMAIN queuesInfo \cup {queueId}  BY <2>3
      <4>2. queueId \in Nat /\ DOMAIN queuesInfo \subseteq 0 .. queueId  BY DEF BridgeTypes
      <4> QED  BY ONLY SMTT(90), <4>1, <4>2
    <3>2. \A r \in DOMAIN queuesInfo' : r < q =>
            r \in DOMAIN queuesInfo \ {queueId} /\ queuesInfo'[r] = queuesInfo[r]
      BY SMTT(90), <2>3, <3>1 DEF BridgeTypes
    <3>3. CASE q = queueId
      <4>1. queuesInfo'[q].highest_root = queue
            /\ queuesInfo'[q].latest_nonce_used = nonce - 1
        BY <2>2, <2>3, <3>3
      <4>2. queue[i].nonce <= nonce - 1
        BY SMTT(90), <1>1, <4>1 DEF Numbered
      <4> QED  BY <3>2, <3>3, <4>1, <4>2 DEF Numbered, Empty
    <3>4. CASE q # queueId
      <4>1. q \in DOMAIN queuesInfo /\ queuesInfo'[q] = queuesInfo[q]
        BY <2>3, <3>4
      <4> QED  BY <3>2, <4>1 DEF NoncesIdentifyQueue, Empty
    <3> QED  BY <3>3, <3>4
  <2> QED  BY <2>4, <2>5, <2>6, <2>7, <2>8, <2>9
<1>3. CASE ~(queueChanged /\ queue # <<>>)
  <2>1. UNCHANGED <<root, queuesInfo, overflowedSince>>
    BY <1>3 DEF OnFinalize, update_queue_merkle_root_if_changed, queueVs
  <2>2. BridgeTypes' /\ Clock' /\ Fresh'
    BY <1>0, <2>1 DEF BridgeTypes, Clock, Fresh
  <2>3. Dated' /\ Overflow'
    BY SMTT(90), <1>0, <1>3, <1>1, <2>1 DEF Dated, Overflow, BridgeTypes
  <2>4. Timer' /\ Old'
    BY <1>0, <2>1 DEF Timer, Old, BridgeTypes
  <2>5. RootIsQueue'
    BY <1>0, <1>3, <2>1 DEF RootIsQueue, Fresh
  <2>6. Numbered' /\ NoncesIdentifyQueue'
    BY <1>0, <2>1 DEF Numbered, NoncesIdentifyQueue
  <2> QED  BY <2>2, <2>3, <2>4, <2>5, <2>6
<1> QED  BY <1>2, <1>3

-----------------------------------------------------------------------------

\* Every step keeps the invariant.
LEMMA BridgeNextInv == BridgeInv /\ [BridgeNext]_bridgeVars => BridgeInv'
<1> SUFFICES ASSUME BridgeInv, [BridgeNext]_bridgeVars PROVE BridgeInv'
  OBVIOUS
<1>1. CASE BeginBlock \/ Finalize \/ SameSession
  BY <1>1, ChainSteps
<1>2. CASE \E changed \in BOOLEAN : OnNewSession(changed)
  BY <1>2, NewSessionStep
<1>3. CASE OnInitialize
  BY <1>3, OnInitializeStep
<1>4. CASE Pause \/ Unpause \/ \E f \in Fees : SetFee(f)
  BY <1>4, GovernanceSteps
<1>5. CASE \E s \in Sources : SendEthMessage(s)
  <2>1. 0 \in 0 .. Funds
    BY SMTT(90), BridgeAssumption
  <2> QED  BY <1>5, <2>1, SendSteps
<1>6. CASE \E s \in Sources : \E v \in 0 .. Funds : HandleMessage(s, v)
  BY <1>6, SendSteps
<1>7. CASE \E n \in 1 .. MaxBlock : ResetOverflowedQueue(n)
  BY <1>7, ResetStep
<1>8. CASE OnFinalize
  BY <1>8, OnFinalizeStep
<1>9. CASE UNCHANGED bridgeVars
  <2> USE <1>9 DEF bridgeVars, chain, queueVs, BridgeInv
  <2>1. BridgeTypes' /\ Clock' /\ Fresh' /\ Timer' /\ RootIsQueue'
    BY DEF BridgeTypes, Clock, Fresh, Timer, RootIsQueue
  <2>2. Dated' /\ Overflow' /\ Old'
    BY DEF Dated, Overflow, Old
  <2>3. Numbered' /\ NoncesIdentifyQueue'
    BY DEF Numbered, NoncesIdentifyQueue
  <2> QED  BY <2>1, <2>2, <2>3
<1> QED  BY <1>1, <1>2, <1>3, <1>4, <1>5, <1>6, <1>7, <1>8, <1>9 DEF BridgeNext, Over

\* The invariant holds in every state.
LEMMA BridgeInvariance == BridgeSpec => []BridgeInv
<1>1. BridgeInit => BridgeInv  BY BridgeInitInv
<1>2. BridgeInv /\ [BridgeNext]_bridgeVars => BridgeInv'  BY BridgeNextInv
<1> QED  BY <1>1, <1>2, PTL DEF BridgeSpec

\* The stored root is that of the queue between blocks, and zero for an
\* empty queue at any time (on_new_session, reset_queue,
\* update_queue_merkle_root_if_changed).
THEOREM RootSafety == BridgeSpec => []RootIsQueue
<1>1. BridgeSpec => []BridgeInv  BY BridgeInvariance
<1> QED  BY <1>1, PTL DEF BridgeInv

\* The infos of the queues tell to which of them a published message belongs
\* (QueuesInfo).
THEOREM NonceSafety == BridgeSpec => []NoncesIdentifyQueue
<1>1. BridgeSpec => []BridgeInv  BY BridgeInvariance
<1> QED  BY <1>1, PTL DEF BridgeInv

\* From the second block of a new authority set on, the queue has no message
\* of the old one (ClearTimer).
THEOREM ClearSafety == BridgeSpec => []OldSetIsCleared
<1>1. BridgeInv => OldSetIsCleared
  <2> SUFFICES ASSUME BridgeInv, block > setSince, phase \in {"calls", "done"}
               PROVE  \A i \in DOMAIN queue :
                        \/ queue[i].block > setSince
                        \/ queueId = 0 /\ queue[i].block = setSince
    BY DEF OldSetIsCleared
  <2>1. clearTimer = None
    BY SMTT(90) DEF BridgeInv, Timer, BridgeTypes
  <2> QED  BY <2>1 DEF BridgeInv, Old
<1>2. BridgeSpec => []BridgeInv  BY BridgeInvariance
<1> QED  BY <1>1, <1>2, PTL

\* A reset by proof drops no message that is not final, but for what
\* governance pushed in the same block (reset_overflowed_queue).
THEOREM ResetSafety == BridgeSpec => ResetIsProved
<1> DEFINE Proved == phase = "calls" /\ queueId' # queueId =>
              \A i \in DOMAIN queue :
                \/ queue[i].block <= finalized
                \/ queue[i].source \in Governance /\ queue[i].block = block
<1>1. BridgeInv /\ [BridgeNext]_bridgeVars => [Proved]_bridgeVars
  <2> SUFFICES ASSUME BridgeInv, BridgeNext, phase = "calls", queueId' # queueId,
                      NEW i \in DOMAIN queue
               PROVE  \/ queue[i].block <= finalized
                      \/ queue[i].source \in Governance /\ queue[i].block = block
    OBVIOUS
  <2>1. PICK n \in 1 .. MaxBlock : ResetOverflowedQueue(n)
    BY DEF BridgeNext, BeginBlock, Finalize, SameSession, OnNewSession, OnInitialize,
       Pause, Unpause, SetFee, SendEthMessage, HandleMessage, queue_message, OnFinalize,
       update_queue_merkle_root_if_changed, Over, bridgeVars, queueVs
  <2>2. /\ overflowedSince # None /\ n >= overflowedSince
        /\ n <= finalized /\ n \in Nat
    BY SMTT(90), <2>1, BridgeAssumption DEF ResetOverflowedQueue, IsProof
  <2>3. queue[i].block \in Nat /\ overflowedSince \in Nat /\ finalized \in Nat
    BY <2>2, QueueTypes DEF BridgeInv, BridgeTypes
  <2> QED  BY SMTT(90), <2>2, <2>3 DEF BridgeInv, Overflow
<1>2. BridgeSpec => []BridgeInv  BY BridgeInvariance
<1> QED  BY <1>1, <1>2, PTL DEF BridgeSpec, ResetIsProved

-----------------------------------------------------------------------------
(* The locks of gstd. *)

\* The inductive invariant of the RwLock.
RwInv == RwTypes /\ WriterIsAlone /\ ReadersAreCounted

\* The readers are finitely many.
LEMMA ReadersFinite ==
  IsFiniteSet(Readers) /\ Cardinality(Readers) \in Nat
<1>1. Readers \subseteq Messages  BY DEF Readers
<1> QED  BY <1>1, MessagesAssumption, FS_Subset, FS_CardinalityType

\* A step that leaves the tasks and the fields of the lock alone keeps the writer alone
\* and the readers counted.
LEMMA SameGuards ==
  ASSUME WriterIsAlone, ReadersAreCounted,
         task \in [Messages -> Guards \cup {"none", "to read", "to write"}],
         task' \in [Messages -> Guards \cup {"none", "to read", "to write"}],
         UNCHANGED <<locked, readers>>,
         \A m \in Messages : task[m] \in Guards \/ task'[m] \in Guards => task'[m] = task[m]
  PROVE  WriterIsAlone' /\ ReadersAreCounted'
<1>1. Readers' = Readers  BY DEF Readers, Guards
<1>2. \A m \in Messages : task'[m] = "write" => task[m] = "write"  BY DEF Guards
<1> QED  BY <1>1, <1>2 DEF WriterIsAlone, ReadersAreCounted

\* Waking messages and moving one keeps the places in their type.
LEMMA MovedType ==
  ASSUME RwTypes, NEW m \in Messages, NEW woken,
         NEW where \in {"new", "queue", "wait", "signal", "gone"}
  PROVE  Moved(m, where, woken) \in [Messages -> {"new", "queue", "wait", "signal", "gone"}]
BY DEF RwTypes, Moved

\* The type of the counter and of the queue, on their own.
LEMMA FieldTypes ==
  ASSUME RwTypes
  PROVE  /\ readers \in Nat /\ readers <= ReadersLimit /\ ReadersLimit \in Nat
         /\ access \in Seq(Messages)
<1>1. readers \in 0..ReadersLimit /\ access \in Seq(Messages)  BY Zenon DEF RwTypes
<1>2. ReadersLimit \in Nat  BY LimitAssumption
<1> QED  BY <1>1, <1>2

\* Taking the next message from the access queue leaves a queue.
LEMMA DequeuedType ==
  ASSUME RwTypes
  PROVE  Dequeued \in Seq(Messages)
<1>1. access \in Seq(Messages)  BY FieldTypes
<1>2. CASE access = <<>>  BY <1>2 DEF Dequeued
<1>3. CASE access # <<>>
  <2>1. Tail(access) \in Seq(Messages)  BY <1>1, <1>3
  <2> QED  BY <1>3, <2>1 DEF Dequeued
<1> QED  BY <1>2, <1>3

\* A trap changes neither the guards nor the lock.
LEMMA TrapKeeps ==
  ASSUME RwInv, NEW m \in Messages, RwTrap(m)
  PROVE  RwInv'
<1>1. RwTypes'  BY DEF RwInv, RwTypes, RwTrap, memory
<1>2. WriterIsAlone' /\ ReadersAreCounted'
  BY SameGuards DEF RwInv, RwTypes, RwTrap, memory
<1> QED  BY <1>1, <1>2 DEF RwInv

\* RwLockReadFuture and RwLockWriteFuture hand out a guard only if it conflicts with none.
LEMMA TakeKeeps ==
  ASSUME RwInv, NEW m \in Messages, NEW kind \in Guards, Take(m, kind)
  PROVE  RwInv'
<1> USE DEF RwInv
<1>1. task[m] \notin Guards  BY DEF Take, Wants, Guards
<1>2. \A x \in Messages : task[x] # "write"
  BY MessagesAssumption DEF Take, Can, CanRead, CanWrite, WriterIsAlone
<1>3. CASE kind = "read"
  <2>1. task' = [task EXCEPT ![m] = "read"] /\ locked' = locked /\ readers' = readers + 1
    BY <1>3 DEF Take
  <2>2. readers + 1 <= ReadersLimit  BY <1>3 DEF Take, Can, CanRead
  <2>3. RwTypes'
    <3>1. readers' \in 0..ReadersLimit  BY <2>1, <2>2, FieldTypes
    <3>2. place' \in [Messages -> {"new", "queue", "wait", "signal", "gone"}]
      BY DEF Take, RwTypes
    <3>3. late' \subseteq Messages /\ UNCHANGED <<replied, access>>  BY DEF Take, RwTypes
    <3>4. task' \in [Messages -> Guards \cup {"none", "to read", "to write"}]
      BY <2>1 DEF RwTypes, Guards
    <3> QED  BY <2>1, <3>1, <3>2, <3>3, <3>4, Zenon DEF RwTypes
  <2>4. Readers' = Readers \cup {m}  BY <2>1 DEF RwTypes, Readers
  <2>5. m \notin Readers  BY <1>1 DEF Readers, Guards
  <2>6. Cardinality(Readers') = Cardinality(Readers) + 1
    BY <2>4, <2>5, ReadersFinite, FS_AddElement
  <2>7. \A x \in Messages : task'[x] # "write"  BY <1>2, <2>1 DEF RwTypes
  <2> QED  BY <2>1, <2>3, <2>6, <2>7 DEF WriterIsAlone, ReadersAreCounted
<1>4. CASE kind = "write"
  <2>1. task' = [task EXCEPT ![m] = "write"] /\ locked' = m /\ readers' = readers
    BY <1>4 DEF Take
  <2>2. RwTypes'  BY <1>4, <2>1 DEF RwTypes, Take, Guards
  <2>3. readers = 0  BY <1>4 DEF Take, Can, CanWrite
  <2>4. Readers = {}  BY <2>3, ReadersFinite, FS_EmptySet DEF ReadersAreCounted
  <2>5. Readers' = Readers  BY <1>1, <2>1 DEF RwTypes, Readers, Guards
  <2>6. \A x \in Messages : task'[x] = "write" => x = m  BY <1>2, <2>1 DEF RwTypes
  <2> QED  BY <2>1, <2>2, <2>4, <2>5, <2>6 DEF WriterIsAlone, ReadersAreCounted
<1> QED  BY <1>3, <1>4 DEF Guards

\* Taking the lock and dropping it in one execution leaves the guards as they are.
LEMMA TakeAndDropKeeps ==
  ASSUME RwInv, NEW m \in Messages, NEW kind \in Guards, TakeAndDrop(m, kind)
  PROVE  RwInv'
<1> USE DEF RwInv
<1>1. task[m] \notin Guards  BY DEF TakeAndDrop, Wants, Guards
<1>2. task' = [task EXCEPT ![m] = "none"] /\ UNCHANGED <<locked, readers, replied>>
  BY DEF TakeAndDrop
<1>3. /\ place' \in [Messages -> {"new", "queue", "wait", "signal", "gone"}]
      /\ access' \in Seq(Messages)
  <2>1. CASE kind = "read" /\ readers > 0
    <3>1. place' = [place EXCEPT ![m] = "gone"] /\ access' = access
      BY <2>1 DEF TakeAndDrop
    <3> QED  BY <3>1, FieldTypes DEF RwTypes
  <2>2. CASE ~(kind = "read" /\ readers > 0)
    BY <2>2, MovedType, DequeuedType DEF TakeAndDrop
  <2> QED  BY <2>1, <2>2
<1>4. late' \subseteq Messages  BY DEF TakeAndDrop, RwTypes
<1>5. RwTypes'  BY <1>2, <1>3, <1>4 DEF RwTypes
<1>6. WriterIsAlone' /\ ReadersAreCounted'
  BY <1>1, <1>2, <1>5, SameGuards DEF RwTypes, Guards
<1> QED  BY <1>5, <1>6

\* AccessQueue::enqueue adds a message to a queue of messages.
LEMMA AppendType ==
  ASSUME NEW S, NEW s \in Seq(S), NEW m \in S
  PROVE  Append(s, m) \in Seq(S)
OBVIOUS

\* Asking for the lock changes no guard.
LEMMA QueueKeeps ==
  ASSUME RwInv, NEW m \in Messages, NEW kind \in Guards, QueueForAccess(m, kind)
  PROVE  RwInv'
<1> USE DEF RwInv
<1>1. task[m] \notin Guards  BY DEF QueueForAccess, Wants, Guards
<1>2. PICK ask \in {"to read", "to write"} :
         task' = [task EXCEPT ![m] = ask] /\ UNCHANGED <<locked, readers, replied, late>>
  BY DEF QueueForAccess
<1>3. place' \in [Messages -> {"new", "queue", "wait", "signal", "gone"}]
  BY DEF QueueForAccess, RwTypes
<1>4. access' \in Seq(Messages)
  <2>1. access' = access \/ access' = Append(access, m)  BY Zenon DEF QueueForAccess
  <2>2. access \in Seq(Messages)  BY FieldTypes
  <2>3. Append(access, m) \in Seq(Messages)  BY <2>2, AppendType
  <2> QED  BY <2>1, <2>2, <2>3
<1>5. RwTypes'  BY <1>2, <1>3, <1>4 DEF RwTypes
<1>6. WriterIsAlone' /\ ReadersAreCounted'
  BY <1>1, <1>2, <1>5, SameGuards DEF RwTypes, Guards
<1> QED  BY <1>5, <1>6

\* The drop of a read guard takes one reader off, and forgets no writer: there is none.
LEMMA DropReadKeeps ==
  ASSUME RwInv, NEW m \in Messages, DropRead(m)
  PROVE  RwInv'
<1> USE DEF RwInv
<1>1. m \in Readers  BY DEF DropRead, Readers
<1>2. \A x \in Messages : task[x] # "write"  BY <1>1 DEF WriterIsAlone
<1>3. task' = [task EXCEPT ![m] = "none"]  BY DEF DropRead
<1>4. Readers' = Readers \ {m}  BY <1>3 DEF RwTypes, Readers
<1>5. Cardinality(Readers') = Cardinality(Readers) - 1
  BY <1>1, <1>4, ReadersFinite, FS_RemoveElement
<1>6. readers # 0  BY <1>1, ReadersFinite, FS_EmptySet DEF ReadersAreCounted
<1>7. readers' = readers - 1  BY <1>6 DEF DropRead
<1>8. \A x \in Messages : task'[x] # "write"  BY <1>2, <1>3 DEF RwTypes
<1>9. WriterIsAlone' /\ ReadersAreCounted'
  BY <1>5, <1>7, <1>8 DEF WriterIsAlone, ReadersAreCounted
<1>10. /\ place' \in [Messages -> {"new", "queue", "wait", "signal", "gone"}]
       /\ access' \in Seq(Messages)
  <2>1. CASE readers <= 1
    BY <2>1, MovedType, DequeuedType DEF DropRead
  <2>2. CASE ~(readers <= 1)
    <3>1. place' = [place EXCEPT ![m] = "gone"] /\ access' = access
      BY <2>2 DEF DropRead
    <3> QED  BY <3>1, FieldTypes DEF RwTypes
  <2> QED  BY <2>1, <2>2
<1>11. locked' \in Messages \cup {None}  BY DEF DropRead, RwTypes
<1>12. late' \subseteq Messages /\ replied' \subseteq Messages  BY DEF DropRead, RwTypes
<1>13. readers' \in 0..ReadersLimit  BY <1>6, <1>7, FieldTypes
<1>14. RwTypes'  BY <1>3, <1>10, <1>11, <1>12, <1>13 DEF RwTypes
<1> QED  BY <1>9, <1>14

\* The drop of a write guard leaves no guard.
LEMMA DropWriteKeeps ==
  ASSUME RwInv, NEW m \in Messages, DropWrite(m)
  PROVE  RwInv'
<1> USE DEF RwInv
<1>1. CASE locked # m
  BY <1>1, TrapKeeps DEF DropWrite
<1>2. CASE locked = m
  <2>1. task' = [task EXCEPT ![m] = "none"] /\ readers' = readers /\ locked' = None
    BY <1>2 DEF DropWrite
  <2>2. task[m] = "write"  BY DEF DropWrite
  <2>3. Readers' = Readers  BY <2>1, <2>2 DEF RwTypes, Readers
  <2>4. \A x \in Messages : task[x] = "write" => x = m  BY <1>2 DEF WriterIsAlone
  <2>5. \A x \in Messages : task'[x] # "write"  BY <2>1, <2>4 DEF RwTypes
  <2>6. WriterIsAlone' /\ ReadersAreCounted'
    BY <2>1, <2>3, <2>5 DEF WriterIsAlone, ReadersAreCounted
  <2>7. /\ place' \in [Messages -> {"new", "queue", "wait", "signal", "gone"}]
        /\ access' \in Seq(Messages)
    BY <1>2, MovedType, DequeuedType DEF DropWrite
  <2>8. late' \subseteq Messages /\ replied' \subseteq Messages
    BY <1>2 DEF DropWrite, RwTypes
  <2>9. RwTypes'  BY <2>1, <2>7, <2>8 DEF RwTypes
  <2> QED  BY <2>6, <2>9
<1> QED  BY <1>1, <1>2

\* Every other step leaves the guards and the lock alone.
LEMMA OthersKeep ==
  ASSUME RwInv, NEW m \in Messages,
         \/ RwArrive(m) \/ WaitOn(m) \/ RwReplyArrives(m) \/ RwTimerEnds(m) \/ RwRentRunsOut(m)
         \/ RwHandleSignal(m)
  PROVE  RwInv'
<1> USE DEF RwInv
<1>1. UNCHANGED <<locked, readers, access>>
  BY DEF RwArrive, WaitOn, RwReplyArrives, RwTimerEnds, RwRentRunsOut, RwHandleSignal, memory
<1>2. task' = task \/ (task[m] \notin Guards /\ task' = [task EXCEPT ![m] = "none"])
  BY DEF RwArrive, WaitOn, RwReplyArrives, RwTimerEnds, RwRentRunsOut, RwHandleSignal, memory
<1>3. place' \in [Messages -> {"new", "queue", "wait", "signal", "gone"}]
  BY DEF RwTypes, RwArrive, WaitOn, RwReplyArrives, RwTimerEnds, RwRentRunsOut, RwHandleSignal
<1>4. late' \subseteq Messages /\ replied' \subseteq Messages
  BY DEF RwTypes, RwArrive, WaitOn, RwReplyArrives, RwTimerEnds, RwRentRunsOut, RwHandleSignal, memory
<1>5. RwTypes'  BY <1>1, <1>2, <1>3, <1>4 DEF RwTypes
<1>6. WriterIsAlone' /\ ReadersAreCounted'
  BY <1>1, <1>2, <1>5, SameGuards DEF RwTypes, Guards
<1> QED  BY <1>5, <1>6

\* The invariant holds in every reachable state of the lock.
THEOREM RwInvariance == RwSpec => []RwInv
<1>1. RwInit => RwInv
  <2> SUFFICES ASSUME RwInit PROVE RwInv  OBVIOUS
  <2>1. Readers = {}  BY DEF RwInit, Readers
  <2>2. ReadersAreCounted  BY <2>1, FS_EmptySet DEF RwInit, ReadersAreCounted
  <2>3. RwTypes  BY LimitAssumption DEF RwInit, RwTypes
  <2> QED  BY <2>2, <2>3 DEF RwInit, RwInv, WriterIsAlone
<1>2. RwInv /\ [RwNext]_rwVars => RwInv'
  <2> SUFFICES ASSUME RwInv, [RwNext]_rwVars PROVE RwInv'  OBVIOUS
  <2>1. CASE UNCHANGED rwVars
    BY <2>1 DEF RwInv, RwTypes, WriterIsAlone, ReadersAreCounted, Readers, rwVars
  <2>2. CASE RwNext
    <3>1. PICK m \in Messages :
             \/ RwArrive(m) \/ RwRun(m) \/ RwReplyArrives(m)
             \/ RwTrap(m) \/ RwTimerEnds(m) \/ RwRentRunsOut(m) \/ RwHandleSignal(m)
      BY <2>2 DEF RwNext
    <3>2. CASE RwRun(m)
      <4>1. ASSUME NEW kind \in Guards,
                   \/ Take(m, kind) \/ TakeAndDrop(m, kind) \/ QueueForAccess(m, kind)
                   \/ WaitFails(m, kind)
            PROVE  RwInv'
        BY <4>1, TakeKeeps, TakeAndDropKeeps, QueueKeeps, TrapKeeps DEF WaitFails
      <4> QED  BY <3>2, <4>1, DropReadKeeps, DropWriteKeeps, OthersKeep DEF RwRun
    <3> QED  BY <3>1, <3>2, TrapKeeps, OthersKeep
  <2> QED  BY <2>1, <2>2
<1> QED  BY <1>1, <1>2, PTL DEF RwSpec

\* Whatever the number of messages and whichever of them trap or time out, a message with
\* a write guard of RwLock is alone.
THEOREM Exclusion == RwSpec => []WriterIsAlone
<1>1. RwInv => WriterIsAlone  BY DEF RwInv
<1> QED  BY <1>1, RwInvariance, PTL

\* The counter of RwLock always equals the number of read guards and keeps to its limit.
THEOREM ReadersCountIsExact == RwSpec => [](ReadersAreCounted /\ readers <= ReadersLimit)
<1>1. RwInv => ReadersAreCounted /\ readers <= ReadersLimit
  BY FieldTypes DEF RwInv
<1> QED  BY <1>1, RwInvariance, PTL

-----------------------------------------------------------------------------

\* The memory has its fields, and those that tell who is in the protected section have
\* their types.
Names == {"locked", "access", "task", "exceeded", "replied", "locks"}

Shape(s) ==
  /\ DOMAIN s = Names
  /\ s.locked \in {None} \cup [owner : Messages, left : Nat]
  /\ s.task \in [Messages -> {"none", "lock", "hold"}]
  /\ s.exceeded \in [Messages -> BOOLEAN]

\* GuardMeansOwner, of any memory.
Guarded(s) == \A m \in Messages : s.task[m] = "hold" /\ ~s.exceeded[m] => Owns(s, m)

\* What every operation on the memory keeps: the invariant of the Mutex.
Good(s) == Shape(s) /\ Guarded(s)

\* Only the fields that tell nothing of the guards differ.
SameLock(s, t) ==
  /\ Shape(t)
  /\ t.locked = s.locked /\ t.task = s.task /\ t.exceeded = s.exceeded

\* What leaves the owner, the tasks and the marks alone keeps the guards.
LEMMA SameLockGood ==
  ASSUME NEW s, NEW t, Good(s), SameLock(s, t)
  PROVE  Good(t)
BY DEF Good, Guarded, Owns, SameLock

\* Entering the AccessQueue and arming the lock of the wait (QueueForLock) touches no guard.
LEMMA QueueForLockIs ==
  ASSUME NEW s, Shape(s), NEW m \in Messages, NEW deadline
  PROVE  SameLock(s, QueueForLock(s, m, deadline))
BY DEF Shape, Names, SameLock, QueueForLock

\* Nor does arming the default lock of a message that waits for nothing else.
LEMMA WithDefaultLockIs ==
  ASSUME NEW s, Shape(s), NEW m \in Messages
  PROVE  SameLock(s, WithDefaultLock(s, m))
BY DEF Shape, Names, SameLock, WithDefaultLock

\* The lock is given to m: nobody else holds a guard then.
LEMMA AcquireIs ==
  ASSUME NEW s, Shape(s), NEW m \in Messages, NEW duration \in Durations,
         \A x \in Messages \ {m} : ~(s.task[x] = "hold" /\ ~s.exceeded[x])
  PROVE  /\ Good(Acquire(s, m, duration)) /\ Owns(Acquire(s, m, duration), m)
         /\ Acquire(s, m, duration).task = s.task
         /\ Acquire(s, m, duration).exceeded = s.exceeded
<1> DEFINE r == Acquire(s, m, duration)
<1>1. /\ DOMAIN r = Names
      /\ r.locked = [owner |-> m, left |-> duration] /\ r.task = s.task /\ r.exceeded = s.exceeded
  BY DEF Shape, Names, Acquire
<1> HIDE DEF r
<1>2. [owner |-> m, left |-> duration] \in [owner : Messages, left : Nat]
  BY DurationsAssumption, NoneAssumption
<1>3. Shape(r)  BY <1>1, <1>2 DEF Shape, Names
<1>4. Owns(r, m)  BY <1>1, <1>2, DurationsAssumption, NoneAssumption DEF Owns
<1>5. Guarded(r)  BY <1>1, <1>4 DEF Guarded
<1> QED  BY <1>1, <1>3, <1>4, <1>5 DEF Good, r

\* A lock whose time has passed is taken from its owner: whoever holds a guard is told.
LEMMA OustIs ==
  ASSUME NEW s, Good(s), s.locked # None
  PROVE  /\ Shape(Oust(s).mem)
         /\ Oust(s).mem.task = s.task /\ Oust(s).mem.locked = s.locked
         /\ \A x \in Messages : ~(s.task[x] = "hold" /\ ~Oust(s).mem.exceeded[x])
<1> DEFINE o == s.locked.owner
           r == Oust(s).mem
<1>1. o \in Messages  BY DEF Good, Shape, Names
<1>2. \A x \in Messages : s.task[x] = "hold" /\ ~s.exceeded[x] => x = o
  BY DEF Good, Guarded, Owns
<1> HIDE DEF o
<1>3. CASE s.task[o] = "none"
  <2>1. r = s  BY <1>3 DEF Oust, Outcome, o
  <2> QED  BY <1>2, <1>3, <2>1 DEF Good
<1>4. CASE s.task[o] # "none"
  <2>1. r = [s EXCEPT !.exceeded[o] = TRUE]  BY <1>4 DEF Oust, Outcome, o
  <2> HIDE DEF r
  <2>2. /\ DOMAIN r = Names
        /\ r.locked = s.locked /\ r.task = s.task
        /\ r.exceeded = [s.exceeded EXCEPT ![o] = TRUE]
    BY <2>1 DEF Good, Shape, Names
  <2>3. s.exceeded \in [Messages -> BOOLEAN]  BY DEF Good, Shape, Names
  <2>4. r.exceeded \in [Messages -> BOOLEAN]  BY <1>1, <2>2, <2>3
  <2>5. \A x \in Messages : ~(s.task[x] = "hold" /\ ~r.exceeded[x])
    BY <1>1, <1>2, <2>2, <2>3
  <2> QED  BY <2>2, <2>4, <2>5 DEF Good, Shape, Names, r
<1> QED  BY <1>3, <1>4

\* The memory a poll of the lock leaves: the guards are in order, and a message that got
\* the lock owns it.
PollLeaves(s, m, r) ==
  Good(r.mem) /\ r.mem.task = s.task /\ (r.got => Owns(r.mem, m))

\* The outcome of a poll of the lock leaves what its memory says.
LEMMA OutcomeLeaves ==
  ASSUME NEW s, NEW m, NEW t, NEW wakes, NEW got,
         Good(t), t.task = s.task, got => Owns(t, m)
  PROVE  PollLeaves(s, m, Outcome(t, wakes, got))
BY DEF PollLeaves, Outcome

\* MutexLockFuture::poll keeps the guards in order: it gives the lock away only when it is
\* free or its owner has been told.
LEMMA PollLockIs ==
  ASSUME NEW s, Good(s), NEW m \in Messages,
         NEW duration \in Durations, s.task[m] = "lock"
  PROVE  PollLeaves(s, m, PollLock(s, m, duration))
<1> DEFINE r == PollLock(s, m, duration)
           o == Oust(s)
           rivals == Rivals(s)
           with(rest) == [o.mem EXCEPT !.access = rest]
           freed == [o.mem EXCEPT !.access = Tail(rivals), !.locked = None]
<1>0. Shape(s)  BY DEF Good
<1>1. CASE s.locked = None
  <2>1. r = Outcome(Acquire(s, m, duration), {}, TRUE)  BY <1>1 DEF PollLock
  <2>2. \A x \in Messages : ~(s.task[x] = "hold" /\ ~s.exceeded[x])
    BY <1>1 DEF Good, Guarded, Owns
  <2>3. /\ Good(Acquire(s, m, duration)) /\ Owns(Acquire(s, m, duration), m)
        /\ Acquire(s, m, duration).task = s.task
    BY <1>0, <2>2, AcquireIs
  <2>4. PollLeaves(s, m, Outcome(Acquire(s, m, duration), {}, TRUE))
    BY ONLY <2>3, OutcomeLeaves
  <2> QED  BY ONLY <2>1, <2>4
<1>2. CASE s.locked # None /\ s.locked.left > 0
  <2>1. r = Outcome(QueueForLock(s, m, s.locked.left), {}, FALSE)  BY <1>2 DEF PollLock
  <2>2. SameLock(s, QueueForLock(s, m, s.locked.left))  BY <1>0, QueueForLockIs
  <2>3. Good(QueueForLock(s, m, s.locked.left))  BY <2>2, SameLockGood
  <2>4. QueueForLock(s, m, s.locked.left).task = s.task  BY ONLY <2>2 DEF SameLock
  <2>5. PollLeaves(s, m, Outcome(QueueForLock(s, m, s.locked.left), {}, FALSE))
    BY ONLY <2>3, <2>4, OutcomeLeaves
  <2> QED  BY ONLY <2>1, <2>5
<1>3. CASE s.locked # None /\ ~(s.locked.left > 0)
  <2>1. /\ Shape(o.mem) /\ o.mem.task = s.task
        /\ \A x \in Messages : ~(s.task[x] = "hold" /\ ~o.mem.exceeded[x])
    BY <1>3, OustIs
  <2>2. ASSUME NEW rest
        PROVE  /\ Good(Acquire(with(rest), m, duration))
               /\ Owns(Acquire(with(rest), m, duration), m)
               /\ Acquire(with(rest), m, duration).task = s.task
    <3>1. Shape(with(rest)) /\ with(rest).task = s.task /\ with(rest).exceeded = o.mem.exceeded
      BY <2>1 DEF Shape, Names
    <3> HIDE DEF with
    <3>2. \A x \in Messages : ~(with(rest).task[x] = "hold" /\ ~with(rest).exceeded[x])
      BY ONLY <2>1, <3>1
    <3> QED  BY ONLY <3>1, <3>2, AcquireIs, m \in Messages, duration \in Durations
  <2>3. CASE rivals = <<>>
    <3>1. r = Outcome(Acquire(with(<<>>), m, duration), o.wakes, TRUE)
      BY <1>3, <2>3 DEF PollLock
    <3> HIDE DEF with, o
    <3>2. PollLeaves(s, m, Outcome(Acquire(with(<<>>), m, duration), o.wakes, TRUE))
      BY ONLY <2>2, OutcomeLeaves
    <3> QED  BY ONLY <3>1, <3>2
  <2>4. CASE rivals # <<>> /\ Head(rivals) = m
    <3>1. r = Outcome(Acquire(with(Tail(rivals)), m, duration), o.wakes, TRUE)
      BY <1>3, <2>4 DEF PollLock
    <3> HIDE DEF with, o, rivals
    <3>2. PollLeaves(s, m, Outcome(Acquire(with(Tail(rivals)), m, duration), o.wakes, TRUE))
      BY ONLY <2>2, OutcomeLeaves
    <3> QED  BY ONLY <3>1, <3>2
  <2>5. CASE rivals # <<>> /\ Head(rivals) # m
    <3>1. r = Outcome(QueueForLock(freed, m, None), o.wakes \cup {Head(rivals)}, FALSE)
      BY <1>3, <2>5 DEF PollLock
    <3>2. Shape(freed) /\ freed.task = s.task /\ freed.exceeded = o.mem.exceeded
      <4> HIDE DEF o, rivals
      <4> QED  BY <2>1 DEF Shape, Names
    <3> HIDE DEF freed, o, rivals
    <3>3. Good(freed)  BY <2>1, <3>2 DEF Good, Guarded
    <3>4. SameLock(freed, QueueForLock(freed, m, None))  BY <3>2, QueueForLockIs
    <3>5. Good(QueueForLock(freed, m, None))  BY <3>3, <3>4, SameLockGood
    <3>6. QueueForLock(freed, m, None).task = s.task  BY ONLY <3>2, <3>4 DEF SameLock
    <3>7. PollLeaves(s, m, Outcome(QueueForLock(freed, m, None),
                                   o.wakes \cup {Head(rivals)}, FALSE))
      BY ONLY <3>5, <3>6, OutcomeLeaves
    <3> QED  BY ONLY <3>1, <3>7
  <2> QED  BY <2>3, <2>4, <2>5
<1> QED  BY <1>1, <1>2, <1>3

\* What is left of a message that is forgotten: no guard, no mark.
LEMMA ForgetFields ==
  ASSUME NEW s, Shape(s), NEW m \in Messages
  PROVE  /\ Shape(Forget(s, m)) /\ Forget(s, m).locked = s.locked
         /\ Forget(s, m).task = [s.task EXCEPT ![m] = "none"]
         /\ Forget(s, m).exceeded = [s.exceeded EXCEPT ![m] = FALSE]
<1> DEFINE f == Forget(s, m)
<1>1. /\ DOMAIN f = Names
      /\ f.locked = s.locked /\ f.task = [s.task EXCEPT ![m] = "none"]
      /\ f.exceeded = [s.exceeded EXCEPT ![m] = FALSE]
  BY DEF Shape, Names, Forget
<1>2. [s.task EXCEPT ![m] = "none"] \in [Messages -> {"none", "lock", "hold"}]
  BY DEF Shape, Names
<1>3. [s.exceeded EXCEPT ![m] = FALSE] \in [Messages -> BOOLEAN]  BY DEF Shape, Names
<1> HIDE DEF f
<1>4. Shape(f)  BY <1>1, <1>2, <1>3 DEF Shape, Names
<1> QED  BY <1>1, <1>4 DEF f

\* A guard that is dropped frees the lock only if its message owns it, and the message
\* has no guard once it is forgotten.
LEMMA ForgetDropped ==
  ASSUME NEW s, Good(s), NEW m \in Messages
  PROVE  Good(Forget(DropGuard(s, m).mem, m))
<1> DEFINE d == DropGuard(s, m).mem
           f == Forget(d, m)
<1>1. /\ Shape(d) /\ d.task = s.task /\ d.exceeded = s.exceeded
      /\ d.locked = s.locked \/ Owns(s, m)
  BY DEF Good, Shape, Names, DropGuard, Outcome
<1> HIDE DEF d
<1>2. /\ Shape(f) /\ f.locked = d.locked
      /\ f.task = [s.task EXCEPT ![m] = "none"] /\ f.exceeded = [s.exceeded EXCEPT ![m] = FALSE]
  <2>1. /\ Shape(f) /\ f.locked = d.locked
        /\ f.task = [d.task EXCEPT ![m] = "none"]
        /\ f.exceeded = [d.exceeded EXCEPT ![m] = FALSE]
    BY <1>1, ForgetFields
  <2> QED  BY <1>1, <2>1
<1> HIDE DEF f
<1>3. Guarded(f)
  BY <1>1, <1>2 DEF Good, Shape, Names, Guarded, Owns
<1> QED  BY <1>2, <1>3 DEF Good, d, f

\* A message without a guard is forgotten.
LEMMA ForgetIs ==
  ASSUME NEW s, Good(s), NEW m \in Messages
  PROVE  Good(Forget(s, m))
<1> DEFINE f == Forget(s, m)
<1>2. /\ Shape(f) /\ f.locked = s.locked
      /\ f.task = [s.task EXCEPT ![m] = "none"] /\ f.exceeded = [s.exceeded EXCEPT ![m] = FALSE]
  BY ForgetFields DEF Good
<1> HIDE DEF f
<1>3. Guarded(f)
  BY <1>2 DEF Good, Shape, Names, Guarded, Owns
<1> QED  BY <1>2, <1>3 DEF Good, f

\* An execution that ends in a wait, or in the trap of one it cannot pay for, keeps the
\* guards in order.
LEMMA WaitsStep ==
  ASSUME Good(mem), NEW s, Good(s), NEW m \in Messages, NEW wakes, Waits(s, m, wakes)
  PROVE  Good(mem')
<1>1. mem' = mem \/ mem' = WithDefaultLock(s, m)  BY DEF Waits, Trap
<1>2. Good(WithDefaultLock(s, m))  BY WithDefaultLockIs, SameLockGood DEF Good
<1> QED  BY <1>1, <1>2

\* An execution that returns drops its guard and forgets the message, or traps: either
\* way the guards are in order.
LEMMA EndsStep ==
  ASSUME Good(mem), NEW s, Good(s), NEW m \in Messages, NEW wakes, Ends(s, m, wakes)
  PROVE  Good(mem')
<1>1. mem' = mem \/ mem' = Forget(DropGuard(s, m).mem, m)  BY DEF Ends, Trap
<1> QED  BY <1>1, ForgetDropped

\* A message that has no guard asks for the lock.
LEMMA AsksIs ==
  ASSUME NEW s, Good(s), NEW m \in Messages, s.task[m] # "hold"
  PROVE  LET a == [s EXCEPT !.task[m] = "lock"] IN Good(a) /\ a.task[m] = "lock"
<1> DEFINE a == [s EXCEPT !.task[m] = "lock"]
<1>1. Shape(a) /\ a.locked = s.locked /\ a.exceeded = s.exceeded
      /\ a.task = [s.task EXCEPT ![m] = "lock"]
  BY DEF Good, Shape, Names
<1> HIDE DEF a
<1>2. Guarded(a) /\ a.task[m] = "lock"  BY <1>1 DEF Good, Shape, Names, Guarded, Owns
<1> QED  BY <1>1, <1>2 DEF Good, a

\* A message that got the lock keeps its guard over an await.
LEMMA KeepsGuard ==
  ASSUME NEW s, Good(s), NEW m \in Messages, Owns(s, m)
  PROVE  Good([s EXCEPT !.task[m] = "hold", !.locks[m]["ReplyTo"] = WaitUpTo])
<1> DEFINE h == [s EXCEPT !.task[m] = "hold", !.locks[m]["ReplyTo"] = WaitUpTo]
<1>1. /\ DOMAIN h = Names
      /\ h.locked = s.locked /\ h.task = [s.task EXCEPT ![m] = "hold"]
      /\ h.exceeded = s.exceeded
  BY DEF Good, Shape, Names
<1>2. [s.task EXCEPT ![m] = "hold"] \in [Messages -> {"none", "lock", "hold"}]
  BY DEF Good, Shape, Names
<1> HIDE DEF h
<1>3. Shape(h)  BY <1>1, <1>2 DEF Good, Shape, Names
<1>4. Guarded(h)  BY <1>1 DEF Good, Shape, Names, Guarded, Owns
<1> QED  BY <1>3, <1>4 DEF Good, h

\* Every execution of a message keeps the guards in order.
LEMMA RunStep ==
  ASSUME Good(mem), NEW m \in Messages, Run(m)
  PROVE  Good(mem')
<1>1. ASSUME NEW duration \in Durations, mem.task[m] # "hold",
             NEW r, r = PollLock([mem EXCEPT !.task[m] = "lock"], m, duration)
      PROVE  Good(r.mem) /\ (r.got => Owns(r.mem, m))
  <2> DEFINE a == [mem EXCEPT !.task[m] = "lock"]
  <2>1. Good(a) /\ a.task[m] = "lock"  BY <1>1, AsksIs
  <2> HIDE DEF a
  <2>2. PollLeaves(a, m, PollLock(a, m, duration))  BY <2>1, PollLockIs
  <2> QED  BY <1>1, <2>2 DEF PollLeaves, a
<1>2. ASSUME NEW duration \in Durations, RunQueues(m, duration)  PROVE Good(mem')
  <2> DEFINE r == PollLock([mem EXCEPT !.task[m] = "lock"], m, duration)
  <2>1. mem.task[m] # "hold" /\ Waits(r.mem, m, r.wakes)  BY <1>2 DEF RunQueues
  <2>2. Good(r.mem)  BY <1>1, <2>1
  <2> HIDE DEF r
  <2> QED  BY <2>1, <2>2, WaitsStep
<1>3. ASSUME NEW duration \in Durations, RunEnds(m, duration)  PROVE Good(mem')
  <2> DEFINE r == PollLock([mem EXCEPT !.task[m] = "lock"], m, duration)
  <2>1. mem.task[m] # "hold" /\ Ends(r.mem, m, r.wakes)  BY <1>3 DEF RunEnds
  <2>2. Good(r.mem)  BY <1>1, <2>1
  <2> HIDE DEF r
  <2> QED  BY <2>1, <2>2, EndsStep
<1>4. ASSUME NEW duration \in Durations, RunHolds(m, duration)  PROVE Good(mem')
  <2> DEFINE r == PollLock([mem EXCEPT !.task[m] = "lock"], m, duration)
             h == [r.mem EXCEPT !.task[m] = "hold", !.locks[m]["ReplyTo"] = WaitUpTo]
  <2>1. mem.task[m] # "hold" /\ r.got /\ Waits(h, m, r.wakes)  BY <1>4 DEF RunHolds
  <2>2. Good(r.mem) /\ Owns(r.mem, m)  BY <1>1, <2>1
  <2> HIDE DEF r
  <2>3. Good(h)  BY <2>2, KeepsGuard
  <2> HIDE DEF h
  <2> QED  BY <2>1, <2>3, WaitsStep
<1>5. CASE RunAgain(m)  BY <1>5, WaitsStep, EndsStep DEF RunAgain
<1>6. CASE RunExceeded(m)  BY <1>6 DEF RunExceeded, Trap
<1> QED  BY <1>2, <1>3, <1>4, <1>5, <1>6 DEF Run

\* A block later the lock has the same owner.
LEMMA NextBlockStep ==
  ASSUME Good(mem), NextBlock
  PROVE  Good(mem')
<1> DEFINE locks == [m \in Messages |-> [c \in Contexts |-> LessOne(mem.locks[m][c])]]
<1>0. mem' = [mem EXCEPT !.locked = Aged(mem.locked), !.locks = locks]
  BY DEF NextBlock
<1> HIDE DEF locks
<1>1. /\ DOMAIN mem' = Names /\ mem'.locked = Aged(mem.locked)
      /\ mem'.task = mem.task /\ mem'.exceeded = mem.exceeded
  BY <1>0 DEF Good, Shape, Names
<1>2. CASE mem.locked = None
  BY <1>1, <1>2 DEF Good, Shape, Names, Guarded, Owns, Aged
<1>3. CASE mem.locked # None
  <2>1. mem.locked \in [owner : Messages, left : Nat]  BY <1>3 DEF Good, Shape, Names
  <2>2. LessOne(mem.locked.left) \in Nat  BY <2>1 DEF LessOne
  <2>3. /\ mem'.locked \in [owner : Messages, left : Nat]
        /\ mem'.locked.owner = mem.locked.owner
    BY <1>1, <1>3, <2>1, <2>2 DEF Aged
  <2>4. mem'.locked # None  BY <2>3, NoneAssumption
  <2>5. Guarded(mem')  BY <1>1, <1>3, <2>3, <2>4 DEF Good, Guarded, Owns
  <2>6. Shape(mem')  BY <1>1, <2>3 DEF Good, Shape, Names
  <2> QED  BY <2>5, <2>6 DEF Good
<1> QED  BY <1>2, <1>3

\* Every step keeps the guards in order.
LEMMA StepKeepsGood ==
  ASSUME Good(mem), [MutexNext]_mutexVars
  PROVE  Good(mem')
<1>1. CASE UNCHANGED mutexVars  BY <1>1 DEF mutexVars
<1>2. ASSUME NEW m \in Messages, ReplyArrives(m)  PROVE Good(mem')
  <2>1. SameLock(mem, mem')  BY <1>2 DEF ReplyArrives, SameLock, Good, Shape, Names
  <2> QED  BY <2>1, SameLockGood
<1>3. ASSUME NEW m \in Messages, HandleSignal(m)  PROVE Good(mem')
  <2>1. mem' = Forget(DropGuard(mem, m).mem, m) \/ mem' = Forget(mem, m)
    BY <1>3 DEF HandleSignal, Outcome
  <2> QED  BY <2>1, ForgetDropped, ForgetIs
<1>4. ASSUME NEW m \in Messages,
             Arrive(m) \/ Trap(m) \/ TimerEnds(m) \/ RentRunsOut(m) \/ SignalTraps(m)
      PROVE  Good(mem')
  BY <1>4 DEF Arrive, Trap, TimerEnds, RentRunsOut, SignalTraps
<1> QED  BY <1>1, <1>2, <1>3, <1>4, RunStep, NextBlockStep DEF MutexNext

\* gstd's Mutex: for any number of messages, durations and traps, a message whose guard was
\* not taken from it owns the lock, so no two messages are in the protected section.
THEOREM GuardsOwn == MutexSpec => []GuardMeansOwner
<1>1. MutexInit => Good(mem)
  BY DEF MutexInit, Good, Shape, Names, Guarded
<1>2. Good(mem) /\ [MutexNext]_mutexVars => Good(mem)'
  BY StepKeepsGood
<1>3. Good(mem) => GuardMeansOwner
  BY DEF Good, Guarded, GuardMeansOwner
<1> QED  BY <1>1, <1>2, <1>3, PTL DEF MutexSpec

-----------------------------------------------------------------------------
(* The message queue. *)

\* Members of Listings are sequences of messages.
LEMMA ListingType ==
  ASSUME NEW s \in Listings
  PROVE  s \in Seq(Ids) /\ Len(s) \in Nat /\ s \in [1..Len(s) -> Ids]
<1>1. PICK n \in 0..Cardinality(Ids) : s \in [1..n -> Ids]
  BY DEF Listings
<1>2. n \in Nat
  BY SMTT(90), IdsAssumption, FS_CardinalityType
<1> QED  BY SMTT(90), <1>1, <1>2

\* A sequence without repetitions is no longer than Ids is large.
LEMMA ListingIntro ==
  ASSUME NEW s \in Seq(Ids), \A i, j \in 1..Len(s) : s[i] = s[j] => i = j
  PROVE  s \in Listings
<1>1. Len(s) \in Nat /\ s \in [1..Len(s) -> Ids]
  BY SMTT(90)
<1>2. s \in Injection(1..Len(s), Ids)
  BY <1>1 DEF Injection, IsInjective
<1>3. Cardinality(1..Len(s)) <= Cardinality(Ids)
  <2> DEFINE S == 1..Len(s)
  <2>1. s \in Injection(S, Ids) /\ IsFiniteSet(Ids)
    BY <1>2, IdsAssumption
  <2> HIDE DEF S
  <2>2. Cardinality(S) <= Cardinality(Ids)
    BY ONLY <2>1, FS_Injection, Zenon
  <2> QED  BY <2>2 DEF S
<1>4. Cardinality(1..Len(s)) = Len(s)
  BY SMTT(90), <1>1, FS_Interval
<1>5. Cardinality(Ids) \in Nat
  BY IdsAssumption, FS_CardinalityType
<1>6. Len(s) \in 0..Cardinality(Ids)
  BY SMTT(90), <1>1, <1>3, <1>4, <1>5
<1> QED  BY <1>1, <1>6 DEF Listings

\* A nonempty set of naturals has a least element.
LEMMA LeastExists ==
  ASSUME NEW X, X \subseteq Nat, X # {}
  PROVE  \E x \in X : \A y \in X : x <= y
<1> DEFINE R == OpToRel(<, Nat)
<1>1. IsWellFoundedOn(R, Nat)
  BY NatLessThanWellFounded, Zenon
<1>2. PICK m \in X : \A y \in X : ~(<<y, m>> \in R)
  <2> HIDE DEF R
  <2> QED  BY <1>1, WFMin, Zenon
<1>3. ASSUME NEW y \in X PROVE m <= y
  <2>1. y \in Nat /\ m \in Nat
    OBVIOUS
  <2>2. ~(y < m)
    BY <1>2, <2>1, Zenon DEF OpToRel
  <2> QED  BY SMTT(90), <2>1, <2>2
<1> QED  BY <1>3

\* The links determine the list.
LEMMA LinksUnique ==
  ASSUME NEW h, NEW t, NEW n, NEW r \in Listings, NEW s \in Listings,
         Links(h, t, n, r), Links(h, t, n, s)
  PROVE  r = s
<1>1. /\ Len(r) \in Nat /\ r \in [1..Len(r) -> Ids] /\ r \in Seq(Ids)
      /\ Len(s) \in Nat /\ s \in [1..Len(s) -> Ids] /\ s \in Seq(Ids)
  BY ListingType
<1>2. \A i \in Nat : i \in 1..Len(r) /\ i \in 1..Len(s) => r[i] = s[i]
  <2> SUFFICES ASSUME NEW z \in Nat, z \in 1..Len(r), z \in 1..Len(s), r[z] # s[z]
               PROVE  FALSE
    OBVIOUS
  <2> DEFINE Bad == {i \in Nat : i \in 1..Len(r) /\ i \in 1..Len(s) /\ r[i] # s[i]}
  <2>1. Bad \subseteq Nat /\ Bad # {}
    OBVIOUS
  <2>2. PICK i \in Bad : \A j \in Bad : i <= j
    <3> HIDE DEF Bad
    <3> QED  BY <2>1, LeastExists
  <2>3. i \in Nat /\ i \in 1..Len(r) /\ i \in 1..Len(s) /\ r[i] # s[i]
    BY <2>2
  <2>4. CASE i = 1
    <3>1. Len(r) # 0 /\ Len(s) # 0
      BY SMTT(90), <1>1, <2>3, <2>4
    <3>2. h = r[1] /\ h = s[1]
      BY <3>1 DEF Links
    <3> QED  BY <2>3, <2>4, <3>2
  <2>5. CASE i # 1
    <3>1. i - 1 \in Nat /\ i - 1 \in 1..Len(r) /\ i - 1 \in 1..Len(s)
      BY SMTT(90), <1>1, <2>3, <2>5
    <3>2. r[i - 1] = s[i - 1]
      BY SMTT(90), <2>2, <2>3, <3>1
    <3>3. n[r[i - 1]] = r[i] /\ n[s[i - 1]] = s[i]
      <4> DEFINE j == i - 1
      <4>1. j \in 1..Len(r) /\ j \in 1..Len(s) /\ j # Len(r) /\ j # Len(s) /\ j + 1 = i
        BY SMTT(90), <1>1, <2>3, <3>1
      <4> HIDE DEF j
      <4>2. n[r[j]] = r[j + 1] /\ n[s[j]] = s[j + 1]
        BY <4>1 DEF Links
      <4> QED  BY <4>1, <4>2 DEF j
    <3> QED  BY <2>3, <3>2, <3>3
  <2> QED  BY <2>4, <2>5
<1>3. Len(r) = Len(s)
  <2>1. ASSUME NEW x \in Seq(Ids), NEW y \in Seq(Ids),
               Links(h, t, n, x), Links(h, t, n, y), Len(x) < Len(y),
               \A i \in Nat : i \in 1..Len(x) /\ i \in 1..Len(y) => x[i] = y[i]
        PROVE  FALSE
    <3>1. Len(x) \in Nat /\ Len(y) \in Nat /\ \A i \in 1..Len(y) : y[i] # None
      BY SMTT(90), IdsAssumption
    <3>2. CASE Len(x) = 0
      <4>1. h = None /\ h = y[1]
        BY SMTT(90), <2>1, <3>1, <3>2 DEF Links
      <4> QED  BY SMTT(90), <2>1, <3>1, <4>1
    <3>3. CASE Len(x) > 0
      <4>1. Len(x) \in 1..Len(x) /\ Len(x) \in 1..Len(y) /\ Len(x) + 1 \in 1..Len(y)
        BY SMTT(90), <2>1, <3>1, <3>3
      <4>2. n[x[Len(x)]] = None /\ n[y[Len(x)]] = y[Len(x) + 1]
        <5>1. n[x[Len(x)]] = None  BY <2>1, <4>1 DEF Links
        <5>2. Len(x) # Len(y)  BY ONLY SMTT(90), <2>1, <3>1
        <5>3. n[y[Len(x)]] = y[Len(x) + 1]  BY <2>1, <4>1, <5>2 DEF Links
        <5> QED  BY <5>1, <5>3
      <4>3. x[Len(x)] = y[Len(x)]
        BY <2>1, <4>1, <3>1
      <4> QED  BY <3>1, <4>1, <4>2, <4>3
    <3> QED  BY SMTT(90), <3>1, <3>2, <3>3
  <2>2. ~(Len(r) < Len(s))
    BY <1>1, <1>2, <2>1
  <2>3. ~(Len(s) < Len(r))
    <3>1. \A i \in Nat : i \in 1..Len(s) /\ i \in 1..Len(r) => s[i] = r[i]
      BY <1>2
    <3> QED  BY <1>1, <2>1, <3>1
  <2>4. Len(r) \in Nat /\ Len(s) \in Nat
    BY <1>1
  <2> QED  BY ONLY <2>2, <2>3, <2>4
<1> QED  BY SMTT(90), <1>1, <1>2, <1>3

\* So ListOf finds it.
LEMMA ListOfIs ==
  ASSUME NEW h, NEW t, NEW n, NEW s \in Listings, Links(h, t, n, s)
  PROVE  ListOf(h, t, n) = s
<1>1. ListOf(h, t, n) \in Listings /\ Links(h, t, n, ListOf(h, t, n))
  BY Zenon DEF ListOf
<1> QED  BY <1>1, LinksUnique

\* push_back appends to the list.
LEMMA AppendLinks ==
  ASSUME NEW h, NEW t, NEW n, NEW s \in Listings, Links(h, t, n, s),
         NEW k \in Ids, k \notin DOMAIN n
  PROVE  /\ Append(s, k) \in Listings
         /\ Len(s) = 0 => Links(k, k, Put(n, k, None), Append(s, k))
         /\ Len(s) # 0 => Links(h, k, Put(Put(n, t, k), k, None), Append(s, k))
<1> DEFINE r == Append(s, k)
<1>1. s \in Seq(Ids) /\ Len(s) \in Nat
  BY ListingType
<1>2. /\ r \in Seq(Ids) /\ Len(r) = Len(s) + 1
      /\ \A i \in 1..Len(s) : r[i] = s[i]
      /\ r[Len(r)] = k
  BY SMTT(90), <1>1
<1>3. \A i \in 1..Len(s) : s[i] \in DOMAIN n /\ s[i] # k
  BY SMTT(90) DEF Links
<1> HIDE DEF r
<1>4. \A i \in 1..Len(r) : i = Len(r) \/ i \in 1..Len(s)
  BY SMTT(90), <1>1, <1>2
<1>5. \A i, j \in 1..Len(r) : r[i] = r[j] => i = j
  BY <1>2, <1>3, <1>4 DEF Links
<1>6. r \in Listings
  BY <1>2, <1>5, ListingIntro
<1>7. {r[i] : i \in 1..Len(r)} = {s[i] : i \in 1..Len(s)} \cup {k}
  <2>1. \A i \in 1..Len(s) : i \in 1..Len(r)
    BY SMTT(90), <1>1, <1>2
  <2>2. Len(r) \in 1..Len(r)
    BY SMTT(90), <1>1, <1>2
  <2> QED  BY <1>2, <1>4, <2>1, <2>2
<1>8. CASE Len(s) = 0
  <2> DEFINE m == Put(n, k, None)
  <2>1. DOMAIN m = {r[i] : i \in 1..Len(r)} /\ m[k] = None
    BY <1>7 DEF Put, Links
  <2>2. Len(r) = 1 /\ r[1] = k
    BY SMTT(90), <1>2, <1>8
  <2> HIDE DEF m
  <2>3. Links(k, k, m, r)
    BY SMTT(90), <1>5, <2>1, <2>2 DEF Links
  <2> QED  BY <1>6, <1>8, <2>3 DEF m, r
<1>9. CASE Len(s) # 0
  <2> DEFINE m == Put(Put(n, t, k), k, None)
  <2>1. t = s[Len(s)] /\ h = s[1] /\ t \in DOMAIN n /\ t # k /\ 1 \in 1..Len(s) /\ Len(s) \in 1..Len(s)
    BY SMTT(90), <1>1, <1>3, <1>9 DEF Links
  <2>2. DOMAIN m = DOMAIN n \cup {k}
    BY <2>1 DEF Put
  <2>3. m[k] = None /\ m[t] = k /\ \A x \in DOMAIN n \ {t} : m[x] = n[x]
    BY <2>1 DEF Put
  <2>4. DOMAIN m = {r[i] : i \in 1..Len(r)}
    BY <1>7, <2>2 DEF Links
  <2> HIDE DEF m
  <2>5. ASSUME NEW i \in 1..Len(r)
        PROVE  m[r[i]] = (IF i = Len(r) THEN None ELSE r[i + 1])
    <3>1. CASE i = Len(r)
      BY <1>2, <2>3, <3>1
    <3>2. CASE i # Len(r) /\ i = Len(s)
      BY <1>1, <1>2, <2>1, <2>3, <3>2
    <3>3. CASE i # Len(r) /\ i # Len(s)
      <4>1. i \in 1..Len(s) /\ i + 1 \in 1..Len(s)
        BY SMTT(90), <1>1, <1>2, <3>3
      <4>2. r[i] = s[i] /\ r[i + 1] = s[i + 1]
        BY <1>2, <4>1
      <4>3. s[i] # t
        BY <2>1, <3>3, <4>1 DEF Links
      <4>4. n[s[i]] = s[i + 1]
        BY <3>3, <4>1 DEF Links
      <4>5. m[s[i]] = n[s[i]]
        BY <1>3, <2>3, <4>1, <4>3
      <4> QED  BY <3>3, <4>2, <4>4, <4>5
    <3> QED  BY <3>1, <3>2, <3>3
  <2>6. Len(r) # 0 /\ r[1] = h /\ r[Len(r)] = k
    BY SMTT(90), <1>1, <1>2, <2>1
  <2>7. Links(h, k, m, r)
    BY <1>5, <2>4, <2>5, <2>6 DEF Links
  <2> QED  BY <1>6, <1>9, <2>7 DEF m, r
<1> QED  BY <1>8, <1>9

\* push_front puts the dispatch before the list.
LEMMA ConsLinks ==
  ASSUME NEW h, NEW t, NEW n, NEW s \in Listings, Links(h, t, n, s),
         NEW k \in Ids, k \notin DOMAIN n
  PROVE  /\ <<k>> \o s \in Listings
         /\ Len(s) = 0 => Links(k, k, Put(n, k, None), <<k>> \o s)
         /\ Len(s) # 0 => Links(k, t, Put(n, k, h), <<k>> \o s)
<1> DEFINE r == <<k>> \o s
<1>1. s \in Seq(Ids) /\ Len(s) \in Nat
  BY ListingType
<1>2. /\ r \in Seq(Ids) /\ Len(r) = Len(s) + 1 /\ r[1] = k
      /\ \A i \in 1..Len(s) : r[i + 1] = s[i]
  BY SMTT(90), <1>1
<1>3. \A i \in 1..Len(s) : s[i] \in DOMAIN n /\ s[i] # k
  BY SMTT(90) DEF Links
<1> HIDE DEF r
<1>4. \A i \in 1..Len(r) : i = 1 \/ (i - 1 \in 1..Len(s) /\ r[i] = s[i - 1])
  <2> SUFFICES ASSUME NEW i \in 1..Len(r), i # 1
               PROVE  i - 1 \in 1..Len(s) /\ r[i] = s[i - 1]
    OBVIOUS
  <2>1. i - 1 \in 1..Len(s) /\ (i - 1) + 1 = i
    BY SMTT(90), <1>1, <1>2
  <2> QED  BY <1>2, <2>1
<1>5. \A i, j \in 1..Len(r) : r[i] = r[j] => i = j
  <2> SUFFICES ASSUME NEW i \in 1..Len(r), NEW j \in 1..Len(r), r[i] = r[j]
               PROVE  i = j
    OBVIOUS
  <2>1. CASE i = 1 \/ j = 1
    BY <1>2, <1>3, <1>4, <2>1
  <2>2. CASE i # 1 /\ j # 1
    <3>1. s[i - 1] = s[j - 1] /\ i - 1 \in 1..Len(s) /\ j - 1 \in 1..Len(s)
      BY <1>4, <2>2
    <3>2. i - 1 = j - 1
      BY <3>1 DEF Links
    <3> QED  BY SMTT(90), <3>2, <1>1, <1>2
  <2> QED  BY <2>1, <2>2
<1>6. r \in Listings
  BY <1>2, <1>5, ListingIntro
<1>7. {r[i] : i \in 1..Len(r)} = {s[i] : i \in 1..Len(s)} \cup {k}
  <2>1. \A i \in 1..Len(s) : i + 1 \in 1..Len(r)
    BY SMTT(90), <1>1, <1>2
  <2>2. 1 \in 1..Len(r)
    BY SMTT(90), <1>1, <1>2
  <2> QED  BY SMTT(90), <1>2, <1>4, <2>1, <2>2
<1>8. CASE Len(s) = 0
  <2> DEFINE m == Put(n, k, None)
  <2>1. DOMAIN m = {r[i] : i \in 1..Len(r)} /\ m[k] = None
    BY <1>7 DEF Put, Links
  <2>2. Len(r) = 1 /\ r[1] = k
    BY SMTT(90), <1>2, <1>8
  <2> HIDE DEF m
  <2>3. Links(k, k, m, r)
    BY SMTT(90), <1>5, <2>1, <2>2 DEF Links
  <2> QED  BY <1>6, <1>8, <2>3 DEF m, r
<1>9. CASE Len(s) # 0
  <2> DEFINE m == Put(n, k, h)
  <2>1. t = s[Len(s)] /\ h = s[1] /\ 1 \in 1..Len(s) /\ Len(s) \in 1..Len(s)
    BY SMTT(90), <1>1, <1>9 DEF Links
  <2>2. DOMAIN m = {r[i] : i \in 1..Len(r)} /\ m[k] = h /\ \A x \in DOMAIN n : x # k => m[x] = n[x]
    BY <1>7 DEF Put, Links
  <2> HIDE DEF m
  <2>3. ASSUME NEW i \in 1..Len(r)
        PROVE  m[r[i]] = (IF i = Len(r) THEN None ELSE r[i + 1])
    <3>1. CASE i = 1
      <4>1. r[1 + 1] = s[1] /\ 1 # Len(r)
        BY SMTT(90), <1>1, <1>2, <1>9, <2>1
      <4> QED  BY <1>2, <2>1, <2>2, <3>1, <4>1
    <3>2. CASE i # 1
      <4> DEFINE j == i - 1
      <4>1. j \in 1..Len(s) /\ r[i] = s[j] /\ i = j + 1
        BY SMTT(90), <1>4, <3>2
      <4> HIDE DEF j
      <4>2. m[r[i]] = n[s[j]]
        BY <1>3, <2>2, <4>1
      <4>3. n[s[j]] = (IF j = Len(s) THEN None ELSE s[j + 1])
        BY <4>1 DEF Links
      <4>4. j = Len(s) <=> i = Len(r)
        BY SMTT(90), <1>1, <1>2, <4>1
      <4>5. j # Len(s) => j + 1 \in 1..Len(s)
        BY SMTT(90), <1>1, <4>1
      <4>6. j # Len(s) => r[i + 1] = s[j + 1]
        BY <1>2, <4>1, <4>5
      <4> QED  BY <4>2, <4>3, <4>4, <4>6
    <3> QED  BY <3>1, <3>2
  <2>4. Len(r) # 0 /\ r[1] = k /\ r[Len(r)] = t
    BY SMTT(90), <1>1, <1>2, <2>1
  <2>5. Links(k, t, m, r)
    BY <1>5, <2>2, <2>3, <2>4 DEF Links
  <2> QED  BY <1>6, <1>9, <2>5 DEF m, r
<1> QED  BY <1>8, <1>9

\* pop_front leaves the rest of the list.
LEMMA TailLinks ==
  ASSUME NEW h, NEW t, NEW n, NEW s \in Listings, Links(h, t, n, s), Len(s) # 0
  PROVE  /\ h \in Ids /\ h \in DOMAIN n /\ h = s[1] /\ t # None
         /\ Tail(s) \in Listings /\ s = <<h>> \o Tail(s)
         /\ Links(n[h], IF n[h] = None THEN None ELSE t, Drop(n, h), Tail(s))
<1> DEFINE r == Tail(s)
           m == Drop(n, h)
<1>1. s \in Seq(Ids) /\ Len(s) \in Nat /\ s \in [1..Len(s) -> Ids]
  BY ListingType
<1>2. /\ r \in Seq(Ids) /\ Len(r) = Len(s) - 1 /\ Len(r) \in Nat
      /\ \A i \in 1..Len(r) : r[i] = s[i + 1]
  BY SMTT(90), <1>1
<1>3. h = s[1] /\ t = s[Len(s)] /\ 1 \in 1..Len(s) /\ Len(s) \in 1..Len(s)
  <2>1. h = s[1] /\ t = s[Len(s)]
    BY Zenon DEF Links
  <2>2. 1 \in 1..Len(s) /\ Len(s) \in 1..Len(s)
    BY SMTT(90), <1>1
  <2> QED  BY <2>1, <2>2
<1>4. h \in Ids /\ h \in DOMAIN n /\ t \in Ids /\ t # None
  <2>1. h \in Ids /\ t \in Ids
    BY <1>1, <1>3
  <2>2. h \in DOMAIN n
    BY <1>3, Zenon DEF Links
  <2> QED  BY <2>1, <2>2, IdsAssumption
<1>5. s = <<h>> \o r
  BY SMTT(90), <1>1, <1>3
<1> HIDE DEF r
<1>6. \A i \in 1..Len(r) : i + 1 \in 1..Len(s) /\ i + 1 # 1
  BY SMTT(90), <1>1, <1>2
<1>7. \A i, j \in 1..Len(r) : r[i] = r[j] => i = j
  <2> SUFFICES ASSUME NEW i \in 1..Len(r), NEW j \in 1..Len(r), r[i] = r[j]
               PROVE  i = j
    OBVIOUS
  <2>1. s[i + 1] = s[j + 1] /\ i + 1 \in 1..Len(s) /\ j + 1 \in 1..Len(s)
    BY <1>2, <1>6
  <2>2. i + 1 = j + 1
    BY <2>1 DEF Links
  <2> QED  BY SMTT(90), <1>2, <2>2
<1>8. r \in Listings
  BY <1>2, <1>7, ListingIntro
<1>9. \A i \in 1..Len(r) : r[i] # h /\ r[i] \in DOMAIN n
  BY SMTT(90), <1>2, <1>3, <1>6 DEF Links
<1>10. DOMAIN m = {r[i] : i \in 1..Len(r)} /\ \A x \in DOMAIN n : x # h => m[x] = n[x]
  <2>1. ASSUME NEW x \in DOMAIN n, x # h PROVE \E i \in 1..Len(r) : x = r[i]
    <3>1. PICK i \in 1..Len(s) : x = s[i]
      BY SMTT(90) DEF Links
    <3>2. i # 1
      BY <1>3, <2>1, <3>1
    <3>3. i - 1 \in 1..Len(r) /\ (i - 1) + 1 = i
      BY SMTT(90), <1>1, <1>2, <3>2
    <3> QED  BY <1>2, <3>1, <3>3
  <2> QED  BY <1>9, <2>1 DEF Drop
<1> HIDE DEF m
<1>11. ASSUME NEW i \in 1..Len(r)
       PROVE  m[r[i]] = (IF i = Len(r) THEN None ELSE r[i + 1])
  <2>1. m[r[i]] = n[s[i + 1]]
    BY <1>2, <1>9, <1>10
  <2>2. n[s[i + 1]] = (IF i + 1 = Len(s) THEN None ELSE s[(i + 1) + 1])
    BY <1>6 DEF Links
  <2>3. i + 1 = Len(s) <=> i = Len(r)
    BY SMTT(90), <1>1, <1>2
  <2>4. i # Len(r) => i + 1 \in 1..Len(r)
    BY SMTT(90), <1>2
  <2>5. i # Len(r) => r[i + 1] = s[(i + 1) + 1]
    BY <1>2, <2>4
  <2> QED  BY <2>1, <2>2, <2>3, <2>5
<1>12. n[h] = (IF 1 = Len(s) THEN None ELSE s[1 + 1])
  BY <1>3 DEF Links
<1>13. CASE Len(s) = 1
  <2>1. n[h] = None /\ Len(r) = 0
    BY SMTT(90), <1>2, <1>12, <1>13
  <2>2. Links(None, None, m, r)
    BY <1>7, <1>10, <1>11, <2>1 DEF Links
  <2> QED  BY <1>3, <1>4, <1>5, <1>8, <2>1, <2>2 DEF m, r
<1>14. CASE Len(s) # 1
  <2>1. Len(r) # 0 /\ 1 \in 1..Len(r) /\ Len(r) \in 1..Len(r) /\ Len(r) + 1 = Len(s)
    BY SMTT(90), <1>1, <1>2, <1>14
  <2>2. n[h] = r[1] /\ t = r[Len(r)]
    BY <1>2, <1>3, <1>12, <1>14, <2>1
  <2>3. n[h] # None
    BY SMTT(90), <1>2, <2>1, <2>2, IdsAssumption
  <2>4. Links(n[h], t, m, r)
    BY <1>7, <1>10, <1>11, <2>1, <2>2 DEF Links
  <2> QED  BY <1>3, <1>4, <1>5, <1>8, <2>3, <2>4 DEF m, r
<1> QED  BY <1>13, <1>14

-----------------------------------------------------------------------------
\* The inductive invariant: the dispatch in hand is not in the list.
Inv ==
    /\ ListTypes /\ IsChain /\ NoError /\ DequeuedCounts
    /\ current \notin DOMAIN next

\* What the lists do in a step, given the list s before and r after it.
Moves(s, r) ==
    /\ s \in Listings /\ Links(head, tail, next, s)
    /\ r \in Listings /\ Links(head', tail', next', r)

\* The types of the links follow from the list.
LEMMA LinksType ==
  ASSUME NEW h, NEW t, NEW n, NEW s \in Listings, Links(h, t, n, s)
  PROVE  /\ h \in Ids \cup {None} /\ t \in Ids \cup {None}
         /\ DOMAIN n \subseteq Ids
         /\ \A m \in DOMAIN n : n[m] \in Ids \cup {None}
<1>1. Len(s) \in Nat /\ s \in [1..Len(s) -> Ids]
  BY ListingType
<1>2. CASE Len(s) = 0
  <2>1. h = None /\ t = None /\ DOMAIN n = {}
    BY SMTT(90), <1>1, <1>2 DEF Links
  <2> QED  BY <2>1
<1>3. CASE Len(s) # 0
  <2>1. h = s[1] /\ t = s[Len(s)] /\ DOMAIN n = {s[i] : i \in 1..Len(s)}
    BY <1>3, Zenon DEF Links
  <2>2. 1 \in 1..Len(s) /\ Len(s) \in 1..Len(s)
    BY SMTT(90), <1>1, <1>3
  <2>3. ASSUME NEW m \in DOMAIN n PROVE n[m] \in Ids \cup {None}
    <3>1. PICK i \in 1..Len(s) : m = s[i]
      BY <2>1
    <3>2. n[m] = (IF i = Len(s) THEN None ELSE s[i + 1])
      BY <3>1, Zenon DEF Links
    <3>3. i # Len(s) => i + 1 \in 1..Len(s)
      <4> DEFINE L == Len(s)
      <4>1. L \in Nat /\ i \in 1..L
        BY <1>1, <3>1
      <4> HIDE DEF L
      <4>2. i # L => i + 1 \in 1..L
        BY ONLY <4>1
      <4> QED  BY <4>2 DEF L
    <3> QED  BY <1>1, <3>2, <3>3
  <2> QED  BY <1>1, <2>1, <2>2, <2>3
<1> QED  BY <1>2, <1>3

\* What is left to show of a step once its lists are known.
LEMMA MovesInv ==
  ASSUME NEW s, NEW r, Moves(s, r), ~(queueFault' # None), DequeuedCounts',
         current' \in Ids \cup {None}, dequeued' \in Nat, handled' \in Nat,
         allowed' \in BOOLEAN, current' \notin DOMAIN next'
  PROVE  Inv' /\ Listing = s /\ Listing' = r
<1>1. /\ head' \in Ids \cup {None} /\ tail' \in Ids \cup {None}
      /\ DOMAIN next' \subseteq Ids
      /\ \A m \in DOMAIN next' : next'[m] \in Ids \cup {None}
  BY LinksType DEF Moves
<1>2. ListTypes' /\ IsChain' /\ NoError'
  BY <1>1 DEF ListTypes, IsChain, NoError, Moves
<1>3. Listing = s /\ Listing' = r
  BY ListOfIs DEF Moves, Listing
<1> QED  BY <1>2, <1>3 DEF Inv

\* A step that leaves the list alone.
LEMMA SameList ==
  ASSUME Inv, UNCHANGED list
  PROVE  \E s \in Listings : Moves(s, s)
  BY DEF Inv, IsChain, Moves, list

\* queue.
LEMMA QueueStep ==
  ASSUME Inv, NEW m \in Ids, Queue(m)
  PROVE  Inv' /\ Listing' = Append(Listing, m) /\ current' = current
         /\ Listing \in Listings /\ \A i \in 1..Len(Listing) : Listing[i] # m
<1>1. PICK s \in Listings : Links(head, tail, next, s)
  BY DEF Inv, IsChain
<1>2. /\ Append(s, m) \in Listings
      /\ Len(s) = 0 => Links(m, m, Put(next, m, None), Append(s, m))
      /\ Len(s) # 0 => Links(head, m, Put(Put(next, tail, m), m, None), Append(s, m))
  BY <1>1, AppendLinks DEF Queue
<1>3. /\ m \notin DOMAIN next /\ m # current /\ PushBack(m)
      /\ UNCHANGED <<current, dequeued, allowed, handled>>
  BY DEF Queue
<1>4. Links(head', tail', next', Append(s, m))
      /\ queueFault' = queueFault /\ DOMAIN next' = DOMAIN next \cup {m}
  <2>1. CASE Len(s) = 0
    <3>1. head = None /\ tail = None
      BY <1>1, <2>1 DEF Links
    <3>2. head' = m /\ tail' = m /\ next' = Put(next, m, None) /\ queueFault' = queueFault
      BY <1>3, <3>1 DEF PushBack
    <3> QED  BY <1>2, <2>1, <3>2 DEF Put
  <2>2. CASE Len(s) # 0
    <3>1. tail # None /\ tail \in DOMAIN next /\ next[tail] = None
      <4>1. tail = s[Len(s)] /\ Len(s) \in 1..Len(s) /\ s \in [1..Len(s) -> Ids]
        <5>1. Len(s) \in Nat /\ s \in [1..Len(s) -> Ids]
          BY ListingType
        <5>2. Len(s) \in 1..Len(s)
          BY SMTT(90), <2>2, <5>1
        <5>3. tail = s[Len(s)]
          BY <1>1, <2>2, Zenon DEF Links
        <5> QED  BY <5>1, <5>2, <5>3
      <4>2. next[s[Len(s)]] = None /\ s[Len(s)] \in DOMAIN next
        BY <1>1, <4>1, Zenon DEF Links
      <4> QED  BY <4>1, <4>2, IdsAssumption
    <3>2. head' = head /\ tail' = m /\ next' = Put(Put(next, tail, m), m, None)
          /\ queueFault' = queueFault
      BY <1>3, <3>1 DEF PushBack
    <3> QED  BY <1>2, <2>2, <3>1, <3>2 DEF Put
  <2> QED  BY <2>1, <2>2
<1>5. Moves(s, Append(s, m))
  BY <1>1, <1>2, <1>4 DEF Moves
<1>6. DequeuedCounts' /\ current' \notin DOMAIN next' /\ ~(queueFault' # None)
  BY <1>3, <1>4 DEF Inv, DequeuedCounts, NoError
<1>7. Inv' /\ Listing = s /\ Listing' = Append(s, m)
  BY <1>3, <1>5, <1>6, MovesInv DEF Inv, ListTypes
<1>8. \A i \in 1..Len(s) : s[i] # m
  BY <1>1, <1>3 DEF Links
<1> QED  BY <1>1, <1>3, <1>7, <1>8

\* process_queue takes the first dispatch of the list.
LEMMA DequeueStep ==
  ASSUME Inv, Dequeue
  PROVE  Inv' /\ current = None /\ current' \in Ids
         /\ Listing = <<current'>> \o Listing'
<1>1. PICK s \in Listings : Links(head, tail, next, s)
  BY DEF Inv, IsChain
<1>2. current = None /\ UNCHANGED <<allowed, handled>>
  BY DEF Dequeue
<1>3. Len(s) # 0
  <2> SUFFICES ASSUME Len(s) = 0 PROVE FALSE
    OBVIOUS
  <2>1. head = None /\ tail = None
    BY <1>1 DEF Links
  <2> QED  BY <2>1 DEF Dequeue
<1>4. /\ head \in Ids /\ head \in DOMAIN next /\ tail # None
      /\ Tail(s) \in Listings /\ s = <<head>> \o Tail(s)
      /\ Links(next[head], IF next[head] = None THEN None ELSE tail, Drop(next, head), Tail(s))
  BY <1>1, <1>3, TailLinks
<1>5. PopFront /\ current' = head /\ dequeued' = dequeued + 1
  BY <1>4, IdsAssumption DEF Dequeue
<1>6. /\ head' = next[head] /\ next' = Drop(next, head) /\ queueFault' = queueFault
      /\ tail' = (IF next[head] = None THEN None ELSE tail)
  BY <1>4, <1>5 DEF PopFront
<1>7. Moves(s, Tail(s))
  BY <1>1, <1>4, <1>6 DEF Moves
<1>8. current' \notin DOMAIN next' /\ ~(queueFault' # None)
  BY <1>5, <1>6 DEF Drop, Inv, NoError
<1>9. DequeuedCounts' /\ dequeued' \in Nat /\ handled' \in Nat /\ allowed' \in BOOLEAN
  BY SMTT(90), <1>2, <1>4, <1>5, IdsAssumption DEF Inv, ListTypes, DequeuedCounts
<1>10. Inv' /\ Listing = s /\ Listing' = Tail(s)
  BY <1>4, <1>5, <1>7, <1>8, <1>9, MovesInv
<1> QED  BY <1>2, <1>4, <1>5, <1>10

\* requeue puts the dispatch in hand back before the list.
LEMMA RequeueStep ==
  ASSUME Inv, Requeue
  PROVE  Inv' /\ current' = None /\ Listing' = <<current>> \o Listing
<1>1. PICK s \in Listings : Links(head, tail, next, s)
  BY DEF Inv, IsChain
<1>2. /\ current \in Ids /\ current \notin DOMAIN next /\ PushFront(current)
      /\ current' = None /\ allowed' = FALSE /\ handled' = handled
      /\ dequeued' = (IF dequeued = 0 THEN 0 ELSE dequeued - 1)
  BY DEF Requeue, Inv, ListTypes
<1> DEFINE r == <<current>> \o s
<1>3. /\ r \in Listings
      /\ Len(s) = 0 => Links(current, current, Put(next, current, None), r)
      /\ Len(s) # 0 => Links(current, tail, Put(next, current, head), r)
  BY <1>1, <1>2, ConsLinks
<1> HIDE DEF r
<1>4. Links(head', tail', next', r) /\ queueFault' = queueFault
  <2>1. CASE Len(s) = 0
    <3>1. head = None /\ tail = None
      BY <1>1, <2>1 DEF Links
    <3>2. head' = current /\ tail' = current /\ next' = Put(next, current, None)
          /\ queueFault' = queueFault
      BY <1>2, <3>1 DEF PushFront
    <3> QED  BY <1>3, <2>1, <3>2
  <2>2. CASE Len(s) # 0
    <3>1. head # None
      BY <1>1, <2>2, TailLinks, IdsAssumption
    <3>2. head' = current /\ tail' = tail /\ next' = Put(next, current, head)
          /\ queueFault' = queueFault
      BY <1>2, <3>1 DEF PushFront
    <3> QED  BY <1>3, <2>2, <3>2
  <2> QED  BY <2>1, <2>2
<1>5. Moves(s, r)
  BY <1>1, <1>3, <1>4 DEF Moves
<1>6. DequeuedCounts' /\ dequeued' \in Nat /\ handled' \in Nat /\ allowed' \in BOOLEAN
  <2>1. dequeued = handled + 1 /\ handled \in Nat
    BY <1>2, IdsAssumption DEF Inv, ListTypes, DequeuedCounts
  <2>2. dequeued' = handled
    BY SMTT(90), <1>2, <2>1
  <2>3. DequeuedCounts'
    BY SMTT(90), <1>2, <2>1, <2>2 DEF DequeuedCounts
  <2>4. allowed' \in BOOLEAN
    BY <1>2
  <2> QED  BY <1>2, <2>1, <2>2, <2>3, <2>4
<1>7. current' \notin DOMAIN next' /\ ~(queueFault' # None)
  <2>1. DOMAIN next' \subseteq Ids
    BY <1>3, <1>4, LinksType
  <2> QED  BY <1>2, <1>4, <2>1, IdsAssumption DEF Inv, NoError
<1>8. Inv' /\ Listing = s /\ Listing' = r
  BY <1>2, <1>5, <1>6, <1>7, MovesInv
<1> QED  BY <1>2, <1>8 DEF r

\* The steps that leave the list alone.
LEMMA QuietStep ==
  ASSUME Inv, StartBlock \/ Handle \/ UNCHANGED vars
  PROVE  Inv' /\ Listing' = Listing
<1>1. UNCHANGED list /\ queueFault' = queueFault /\ (current' = None \/ current' = current)
  BY DEF StartBlock, Handle, vars
<1>2. PICK s \in Listings : Moves(s, s)
  BY <1>1, SameList
<1>3. current' \in Ids \cup {None} /\ current' \notin DOMAIN next' /\ ~(queueFault' # None)
  BY <1>1, IdsAssumption DEF Inv, ListTypes, NoError, list
<1>4. DequeuedCounts' /\ dequeued' \in Nat /\ handled' \in Nat /\ allowed' \in BOOLEAN
  <2>1. CASE StartBlock
    BY SMTT(90), <2>1 DEF StartBlock, DequeuedCounts
  <2>2. CASE Handle
    <3>1. /\ current # None /\ current' = None /\ handled' = handled + 1
          /\ dequeued' = dequeued /\ allowed' = allowed
      BY <2>2, Zenon DEF Handle
    <3>2. /\ dequeued = handled + (IF current = None THEN 0 ELSE 1)
          /\ dequeued \in Nat /\ handled \in Nat /\ allowed \in BOOLEAN
      BY Zenon DEF Inv, ListTypes, DequeuedCounts
    <3>3. dequeued' = handled' + 0 /\ handled' \in Nat  BY ONLY SMTT(90), <3>1, <3>2
    <3> QED  BY <3>1, <3>2, <3>3 DEF DequeuedCounts
  <2>3. CASE UNCHANGED vars
    BY <2>3 DEF vars, Inv, ListTypes, DequeuedCounts
  <2> QED  BY <2>1, <2>2, <2>3
<1>5. Inv' /\ Listing = s /\ Listing' = s
  BY <1>2, <1>3, <1>4, MovesInv
<1> QED  BY <1>5

\* An empty list.
LEMMA EmptyLinks ==
  ASSUME NEW n, n = [m \in {} |-> None]
  PROVE  <<>> \in Listings /\ Links(None, None, n, <<>>)
<1>1. <<>> \in Seq(Ids) /\ Len(<<>>) = 0
  BY SMTT(90)
<1>2. <<>> \in Listings
  <2> DEFINE e == <<>>
  <2>1. e \in Seq(Ids) /\ \A i, j \in 1..Len(e) : e[i] = e[j] => i = j
    BY SMTT(90), <1>1
  <2> HIDE DEF e
  <2>2. e \in Listings
    BY <2>1, ListingIntro
  <2> QED  BY <2>2 DEF e
<1>3. 1..Len(<<>>) = {} /\ DOMAIN n = {}
  BY SMTT(90), <1>1
<1> QED  BY <1>1, <1>2, <1>3 DEF Links

\* clear.
LEMMA ClearStep ==
  ASSUME Inv, Clear
  PROVE  Inv' /\ current' = None /\ Listing' = <<>>
<1>1. PICK s \in Listings : Links(head, tail, next, s)
  BY DEF Inv, IsChain
<1>2. <<>> \in Listings /\ Links(head', tail', next', <<>>)
  BY EmptyLinks DEF Clear
<1>3. Moves(s, <<>>)
  BY <1>1, <1>2 DEF Moves
<1>4. current = None /\ current' = None /\ current' \notin DOMAIN next' /\ ~(queueFault' # None)
  BY IdsAssumption DEF Clear, Inv, NoError
<1>5. DequeuedCounts' /\ dequeued' \in Nat /\ handled' \in Nat /\ allowed' \in BOOLEAN
  BY DEF Clear, Inv, ListTypes, DequeuedCounts
<1>6. Inv' /\ Listing = s /\ Listing' = <<>>
  BY <1>3, <1>4, <1>5, MovesInv
<1> QED  BY <1>4, <1>6

-----------------------------------------------------------------------------
\* The empty queue satisfies the invariant.
LEMMA InitInv ==
  ASSUME Init
  PROVE  Inv /\ Waiting = <<>>
<1>1. <<>> \in Listings /\ Links(head, tail, next, <<>>)
  BY EmptyLinks DEF Init
<1>2. Listing = <<>>
  BY <1>1, ListOfIs DEF Listing
<1>3. DOMAIN next = {}
  BY DEF Init
<1>4. ListTypes
  BY <1>3 DEF Init, ListTypes
<1>5. IsChain /\ NoError /\ DequeuedCounts
  BY SMTT(90), <1>1 DEF Init, IsChain, NoError, DequeuedCounts
<1> QED  BY <1>2, <1>3, <1>4, <1>5 DEF Init, Inv, Waiting

\* Every step keeps the invariant, and is a step of the promise or none.
LEMMA NextKeeps ==
  ASSUME Inv, [Next]_vars
  PROVE  Inv' /\ [Promise!Next]_Waiting
<1>1. Listing \in Listings /\ Listing \in Seq(Ids)
  BY ListOfIs, ListingType DEF Inv, IsChain, Listing
<1>2. current \in Ids \cup {None}
  BY DEF Inv, ListTypes
<1>3. ASSUME NEW m \in Ids, Queue(m)
      PROVE  Inv' /\ Promise!Arrive(m)
  <2>1. Inv' /\ Listing' = Append(Listing, m) /\ current' = current
        /\ \A i \in 1..Len(Listing) : Listing[i] # m
    BY <1>3, QueueStep
  <2>2. m # current
    BY <1>3 DEF Queue
  <2>3. CASE current = None
    <3>1. Waiting = Listing /\ Waiting' = Append(Listing, m)
      BY <2>1, <2>3 DEF Waiting
    <3> QED  BY SMTT(90), <1>1, <2>1, <3>1 DEF Promise!Arrive
  <2>4. CASE current # None
    <3>1. Waiting = <<current>> \o Listing /\ Waiting' = <<current>> \o Append(Listing, m)
      BY <2>1, <2>4 DEF Waiting
    <3>2. <<current>> \o Append(Listing, m) = Append(<<current>> \o Listing, m)
      BY SMTT(90), <1>1, <1>2, <2>4
    <3>3. \A i \in DOMAIN (<<current>> \o Listing) : (<<current>> \o Listing)[i] # m
      BY SMTT(90), <1>1, <1>2, <2>1, <2>2, <2>4
    <3> QED  BY <2>1, <3>1, <3>2, <3>3 DEF Promise!Arrive
  <2> QED  BY <2>3, <2>4
<1>4. CASE Dequeue
  <2>1. Inv' /\ current = None /\ current' \in Ids /\ Listing = <<current'>> \o Listing'
    BY <1>4, DequeueStep
  <2>2. Waiting' = Waiting
    BY <2>1, IdsAssumption DEF Waiting
  <2> QED  BY <2>1, <2>2
<1>5. CASE Requeue
  <2>1. Inv' /\ current' = None /\ Listing' = <<current>> \o Listing
    BY <1>5, RequeueStep
  <2>2. Waiting' = Waiting
    BY <1>5, <2>1 DEF Waiting, Requeue
  <2> QED  BY <2>1, <2>2
<1>6. CASE Handle
  <2>1. Inv' /\ Listing' = Listing
    BY <1>6, QuietStep
  <2>2. current # None /\ current' = None
    BY <1>6 DEF Handle
  <2>3. Waiting = <<current>> \o Listing /\ Waiting' = Listing
    BY <2>1, <2>2 DEF Waiting
  <2>4. <<current>> \o Listing # <<>> /\ Tail(<<current>> \o Listing) = Listing
    BY SMTT(90), <1>1, <1>2, <2>2
  <2> QED  BY <2>1, <2>3, <2>4 DEF Promise!Next, Promise!Handle
<1>7. CASE StartBlock
  <2>1. Inv' /\ Listing' = Listing /\ current' = current
    BY <1>7, QuietStep DEF StartBlock
  <2> QED  BY <2>1 DEF Waiting
<1>8. CASE Clear
  <2>1. Inv' /\ current' = None /\ Listing' = <<>>
    BY <1>8, ClearStep
  <2> QED  BY <2>1 DEF Waiting, Promise!Next, Promise!Clear
<1>9. CASE UNCHANGED vars
  <2>1. Inv' /\ Listing' = Listing /\ current' = current
    BY <1>9, QuietStep DEF vars
  <2> QED  BY <2>1 DEF Waiting
<1> QED  BY <1>3, <1>4, <1>5, <1>6, <1>7, <1>8, <1>9 DEF Next, Promise!Next

\* The inductive invariant holds throughout.
THEOREM Invariance == Spec => []Inv
<1>1. Init => Inv
  BY InitInv
<1>2. Inv /\ [Next]_vars => Inv'
  BY NextKeeps
<1> QED  BY <1>1, <1>2, PTL DEF Spec

\* The stored links always form one chain through all stored dispatches.
THEOREM AlwaysChained == Spec => []IsChain
<1>1. Inv => IsChain
  BY DEF Inv
<1> QED  BY <1>1, Invariance, PTL

\* No operation of the queue returns an error to its panicking callers.
THEOREM NeverFails == Spec => []NoError
<1>1. Inv => NoError
  BY DEF Inv
<1> QED  BY <1>1, Invariance, PTL

\* The counter of dequeued messages counts the dispatches of the block.
THEOREM CountIsExact == Spec => []DequeuedCounts
<1>1. Inv => DequeuedCounts
  BY DEF Inv
<1> QED  BY <1>1, Invariance, PTL

\* The linked queue with its requeueing implements handling in arrival order.
THEOREM Refinement == Spec => HandledInOrder
<1>1. Init => Promise!Init
  BY InitInv DEF Promise!Init
<1>2. Inv /\ [Next]_vars => [Promise!Next]_Waiting
  BY NextKeeps
<1> QED  BY <1>1, <1>2, Invariance, PTL DEF Spec, HandledInOrder, Promise!Spec

=============================================================================
