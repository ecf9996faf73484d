------------------------------ MODULE EthBridge ------------------------------
(***************************************************************************)
(* The queue of messages from Vara to Ethereum (pallet-gear-eth-bridge).   *)
(* Messages are queued by extrinsics and by the builtin actor; at the end  *)
(* of a block in which the queue changed its Merkle root is published.     *)
(* The queue is emptied and its id is bumped in two ways: two on_initialize*)
(* hooks after the GRANDPA authorities changed, and, once the queue is     *)
(* full, by anyone who proves that the block it overflowed in is final.    *)
(*                                                                         *)
(* The hash of a message is the message itself, and the Merkle root of a   *)
(* queue is the sequence of its messages: both are injective for what the  *)
(* properties ask.  The zero root is the empty sequence.                   *)
(***************************************************************************)
EXTENDS Storage, Integers, Sequences

CONSTANTS
  Users,          \* accounts and programs that may send messages
  Governance,     \* BridgeAdmin and BridgePauser
  QueueCapacity,  \* Config::QueueCapacity
  SessionLength,  \* blocks from one session change to the next, at least
  Fees,           \* values of TransportFee
  Funds,          \* what an account owns at first
  MaxBlock,       \* bound: number of blocks
  MaxNonce        \* bound: number of messages

ASSUME BridgeAssumption ==
  /\ Users \cap Governance = {}
  /\ QueueCapacity \in Nat \ {0}
  /\ SessionLength \in Nat \ {0, 1}
  /\ Fees \subseteq Nat /\ 0 \in Fees
  /\ Funds \in Nat
  /\ MaxBlock \in Nat /\ MaxNonce \in Nat
  /\ None \notin Nat

VARIABLES
  block,            \* number of the block that is executed
  phase,            \* where its execution is
  finalized,        \* the last block GRANDPA has finalized
  setSince,         \* block in which the authority set changed last
  lastSession,      \* block of the last session change
  initialized, paused, queue, root, queueId, queuesInfo,
  clearTimer, nonce, queueChanged, overflowedSince, fee,
  purse             \* balances of the senders

chain == <<block, phase, finalized, setSince, lastSession>>
queueVs == <<queue, root, queueId, queuesInfo, overflowedSince>>
bridgeVars == <<chain, initialized, paused, queueVs, clearTimer, nonce,
               queueChanged, fee, purse>>

Sources == Users \cup Governance

(* QueueInfo::Empty; a queue that has published is a record of its root.   *)
Empty == None

-----------------------------------------------------------------------------

BridgeInit ==
  /\ block = 0 /\ phase = "done" /\ finalized = 0
  /\ setSince = 0 /\ lastSession = 0
  /\ initialized = FALSE /\ paused = TRUE
  /\ queue = <<>> /\ root = None /\ queueId = 0
  /\ queuesInfo = [q \in {} |-> Empty]
  /\ clearTimer = None /\ nonce = 0 /\ queueChanged = FALSE
  /\ overflowedSince = None /\ fee = 0
  /\ purse = [a \in Sources |-> Funds]

(* Blocks and finality: frame_executive, pallet_session and GRANDPA.       *)

BeginBlock ==
  /\ phase = "done"
  /\ block < MaxBlock
  /\ block' = block + 1
  /\ phase' = "session"
  /\ UNCHANGED <<finalized, setSince, lastSession, initialized, paused,
                 queueVs, clearTimer, nonce, queueChanged, fee, purse>>

Finalize ==
  /\ \E b \in finalized + 1 .. block - 1 : finalized' = b
  /\ UNCHANGED <<block, phase, setSince, lastSession, initialized, paused,
                 queueVs, clearTimer, nonce, queueChanged, fee, purse>>

(* pallet_session rotates no session in this block. *)
SameSession ==
  /\ phase = "session"
  /\ phase' = "init"
  /\ UNCHANGED <<block, finalized, setSince, lastSession, initialized, paused,
                 queueVs, clearTimer, nonce, queueChanged, fee, purse>>

(* Mutant: the on_initialize of this block is not counted. *)
ScheduledClearLate == 3

(* ClearTimer counts the on_initialize of this block and of the next one. *)
ScheduledClear == 2

(* OneSessionHandler::on_new_session, called in the on_initialize of       *)
(* pallet_session, which comes before that of the bridge.                  *)
OnNewSession(changed) ==
  /\ phase = "session"
  /\ block >= lastSession + SessionLength
  /\ phase' = "init"
  /\ lastSession' = block
  /\ setSince' = IF changed THEN block ELSE setSince
  /\ initialized' = (initialized \/ changed)
  /\ root' = IF changed /\ ~initialized THEN <<>> ELSE root
  /\ clearTimer' = IF changed /\ initialized THEN ScheduledClear ELSE clearTimer
  /\ UNCHANGED <<block, finalized, paused, queue, queueId, queuesInfo,
                 overflowedSince, nonce, queueChanged, fee, purse>>

-----------------------------------------------------------------------------

(* Mutant: the root of the old queue stays in storage. *)
ResetKeepingRoot ==
  /\ queue' = <<>>
  /\ overflowedSince' = None
  /\ queueId' = queueId + 1
  /\ queuesInfo' = Put(queuesInfo, queueId + 1, Empty)
  /\ root' = root

reset_queue ==
  /\ queue' = <<>>
  /\ overflowedSince' = None
  /\ queueId' = queueId + 1
  /\ queuesInfo' = Put(queuesInfo, queueId + 1, Empty)
  /\ root' = <<>>

clear_bridge ==
  /\ clearTimer' = None
  /\ reset_queue

(* Hooks::on_initialize; saturating_sub(1) of a timer. *)
OnInitialize ==
  /\ phase = "init"
  /\ phase' = "calls"
  /\ \/ /\ clearTimer = None
        /\ UNCHANGED <<clearTimer, queueVs>>
     \/ /\ clearTimer # None
        /\ IF clearTimer <= 1
           THEN clear_bridge
           ELSE clearTimer' = clearTimer - 1 /\ UNCHANGED queueVs
  /\ UNCHANGED <<block, finalized, setSince, lastSession, initialized, paused,
                 nonce, queueChanged, fee, purse>>

Pause ==
  /\ phase = "calls"
  /\ initialized
  /\ paused' = TRUE
  /\ UNCHANGED <<chain, initialized, queueVs, clearTimer, nonce, queueChanged,
                 fee, purse>>

Unpause ==
  /\ phase = "calls"
  /\ initialized
  /\ paused' = FALSE
  /\ UNCHANGED <<chain, initialized, queueVs, clearTimer, nonce, queueChanged,
                 fee, purse>>

SetFee(f) ==
  /\ phase = "calls"
  /\ fee' = f
  /\ UNCHANGED <<chain, initialized, paused, queueVs, clearTimer, nonce,
                 queueChanged, purse>>

(* What queue_message requires of a message that is not from governance. *)
Admitted(source) ==
  \/ source \in Governance
  \/ ~paused /\ Len(queue) < QueueCapacity

(* queue_message, of a payload that is not too long. *)
queue_message(source) ==
  /\ initialized
  /\ Admitted(source)
  /\ nonce < MaxNonce
  /\ queue' = Append(queue, [nonce |-> nonce, block |-> block, source |-> source])
  /\ nonce' = nonce + 1
  /\ queueChanged' = TRUE
  /\ UNCHANGED <<root, queueId, queuesInfo, overflowedSince>>

(* What is charged: governance sends for nothing. *)
Charge(source) == IF source \in Governance THEN 0 ELSE fee

(* The extrinsic.  It is one transaction: with the message refused, the    *)
(* transfer of the fee is undone.                                          *)
SendEthMessage(source) ==
  /\ phase = "calls"
  /\ purse[source] >= Charge(source)
  /\ purse' = [purse EXCEPT ![source] = @ - Charge(source)]
  /\ queue_message(source)
  /\ UNCHANGED <<chain, initialized, paused, clearTimer, fee>>

(* BuiltinActor::handle, of a dispatch with the given value: the fee stays *)
(* with the builtin actor and its reply returns the rest; an error reply   *)
(* returns everything.                                                     *)
HandleMessage(source, value) ==
  /\ phase = "calls"
  /\ value \in 0 .. purse[source]
  /\ source \in Governance \/ value >= fee
  /\ LET refund == IF source \in Governance THEN value ELSE value - fee
     IN  purse' = [purse EXCEPT ![source] = @ - value + refund]
  /\ queue_message(source)
  /\ UNCHANGED <<chain, initialized, paused, clearTimer, fee>>

(* verify_finality_proof: a justification by the authorities of now, so of *)
(* a block after the one in which they were set.                           *)
IsProof(number) ==
  /\ number <= finalized
  /\ number > setSince

ResetOverflowedQueue(number) ==
  /\ phase = "calls"
  /\ overflowedSince # None
  /\ IsProof(number)
  /\ number >= overflowedSince
  /\ reset_queue
  /\ UNCHANGED <<chain, initialized, paused, clearTimer, nonce, queueChanged,
                 fee, purse>>

(* Mutant: the block of the first overflow is kept. *)
OverflowedFirst ==
  IF Len(queue) >= QueueCapacity /\ overflowedSince = None
  THEN block ELSE overflowedSince

(* Block recorded by an update of the root of a full queue. *)
Overflowed == IF Len(queue) >= QueueCapacity THEN block ELSE overflowedSince

(* Mutant: the nonce of the next message. *)
LatestNonceNext == nonce

(* The queue is not empty, so the nonce was bumped in this block. *)
LatestNonceUsed == nonce - 1

update_queue_merkle_root_if_changed ==
  /\ queueChanged' = FALSE
  /\ IF queueChanged /\ queue # <<>>
     THEN /\ overflowedSince' = Overflowed
          /\ root' = queue
          /\ queuesInfo' = Put(queuesInfo, queueId,
                               [highest_root |-> queue,
                                latest_nonce_used |-> LatestNonceUsed])
          /\ UNCHANGED <<queue, queueId>>
     ELSE UNCHANGED queueVs

OnFinalize ==
  /\ phase = "calls"
  /\ phase' = "done"
  /\ update_queue_merkle_root_if_changed
  /\ UNCHANGED <<block, finalized, setSince, lastSession, initialized, paused,
                 clearTimer, nonce, fee, purse>>

(* The bound on blocks is reached. *)
Over ==
  /\ phase = "done"
  /\ block = MaxBlock
  /\ UNCHANGED bridgeVars

BridgeNext ==
  \/ BeginBlock
  \/ Finalize
  \/ SameSession
  \/ \E changed \in BOOLEAN : OnNewSession(changed)
  \/ OnInitialize
  \/ Pause
  \/ Unpause
  \/ \E f \in Fees : SetFee(f)
  \/ \E s \in Sources : SendEthMessage(s)
  \/ \E s \in Sources : \E v \in 0 .. Funds : HandleMessage(s, v)
  \/ \E n \in 1 .. MaxBlock : ResetOverflowedQueue(n)
  \/ OnFinalize
  \/ Over

BridgeSpec == BridgeInit /\ [][BridgeNext]_bridgeVars

-----------------------------------------------------------------------------

Message == [nonce : Nat, block : Nat, source : Sources]

BridgeTypes ==
  /\ block \in Nat /\ finalized \in Nat /\ setSince \in Nat /\ lastSession \in Nat
  /\ phase \in {"session", "init", "calls", "done"}
  /\ initialized \in BOOLEAN /\ paused \in BOOLEAN /\ queueChanged \in BOOLEAN
  /\ queue \in Seq(Message)
  /\ queueId \in Nat /\ nonce \in Nat /\ fee \in Nat
  /\ DOMAIN queuesInfo \subseteq 0 .. queueId
  /\ \A q \in DOMAIN queuesInfo :
       queuesInfo[q] # Empty =>
         /\ queuesInfo[q].highest_root \in Seq(Message)
         /\ queuesInfo[q].latest_nonce_used \in Int
  /\ clearTimer \in Nat \cup {None}
  /\ overflowedSince \in Nat \cup {None}
  /\ purse \in [Sources -> Nat]

(* "At any single point of pallet existence, when it's active and queue is *)
(* empty, queue merkle root must present in storage and be zeroed".  And   *)
(* the published root is that of the queue whenever no change of this      *)
(* block is outstanding, and none is outstanding between blocks, whichever *)
(* of the two resets came in between.                                      *)
RootIsQueue ==
  /\ initialized /\ queue = <<>> => root = <<>>
  /\ initialized /\ ~queueChanged => root = queue
  /\ phase # "calls" => ~queueChanged

(* A reset by proof of finality drops a message only when the block that   *)
(* published it is final, so that a relayer can still prove it on          *)
(* Ethereum.  Messages governance pushes into a full queue move the block  *)
(* that must be proved; only one pushed in the block of the reset itself   *)
(* is not covered.                                                         *)
ResetIsProved ==
  [][ phase = "calls" /\ queueId' # queueId =>
        \A i \in DOMAIN queue :
          \/ queue[i].block <= finalized
          \/ queue[i].source \in Governance /\ queue[i].block = block ]_bridgeVars

(* QueuesInfo "helps to identify the range of nonces to which the messages *)
(* in the queue belong": the messages of a published root have nonces up   *)
(* to its latest_nonce_used and above that of every earlier queue.         *)
NoncesIdentifyQueue ==
  \A q \in DOMAIN queuesInfo : queuesInfo[q] # Empty =>
    \A i \in DOMAIN queuesInfo[q].highest_root :
      LET n == queuesInfo[q].highest_root[i].nonce IN
      /\ n <= queuesInfo[q].latest_nonce_used
      /\ \A p \in DOMAIN queuesInfo :
           p < q /\ queuesInfo[p] # Empty => queuesInfo[p].latest_nonce_used < n

(* ClearTimer: from the second block of a new authority set on, no message *)
(* of a block of the old set is in the queue, so every root the new set    *)
(* finalizes is of messages of its own.  The change that initializes the   *)
(* bridge clears nothing: the first queue may keep the messages of that    *)
(* very block.                                                             *)
OldSetIsCleared ==
  block > setSince /\ phase \in {"calls", "done"} =>
    \A i \in DOMAIN queue :
      \/ queue[i].block > setSince
      \/ queueId = 0 /\ queue[i].block = setSince

=============================================================================
