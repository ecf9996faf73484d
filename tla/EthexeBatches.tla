--------------------------- MODULE EthexeBatches ---------------------------
(***************************************************************************)
(* Batch commitments of ethexe: the validators' coordinator/participant    *)
(* state machine, the building and re-deriving of batches, and the Router  *)
(* contract that accepts them, over an Ethereum chain that may fork.       *)
(*                                                                         *)
(* A Malachite block (MB) is its height in the one decided sequence `mbs`: *)
(* the Ethereum block it advanced to and whether it has state transitions. *)
(* An Ethereum block (EB) is a number; 0 is the block the model starts at, *)
(* and the zero hash.  Its record is what Router holds after it, which is  *)
(* what a validator that prepared it reads from its BlockMeta.  A batch is *)
(* what its digest covers: the previous batch is determined by the block.  *)
(* The validator set, and so the threshold, is one era's.                  *)
(***************************************************************************)
EXTENDS Integers, FiniteSets, Sequences, Lists

CONSTANTS Validators,       \* a sequence: the validators of the era, in slot order
          Threshold,        \* signatures_threshold, and the Router's
          Delay,            \* by validator: commitment_delay_limit
          Period,           \* by validator: batch_commitment_period
          Codes,
          ValidCodes,       \* the codes the processor finds valid
          BatchSizeLimit,   \* batch_size_limit, in transitions and codes
          ChainLenThreshold,  \* uncommitted_chain_len_threshold
          Quarantine,       \* canonical_quarantine
          MaxEb,            \* bound: Ethereum blocks after the first
          MaxWork,          \* bound: Ethereum blocks and MBs, a code counting for two
          MaxPending,       \* bound: saved validation requests of a validator
          NoBatch           \* None, where a batch may be absent

Members == Range(Validators)

ASSUME BatchesAssumption ==
    /\ Validators # <<>> /\ Threshold \in 1..Cardinality(Members)
    /\ Delay \in [Members -> 1..255] /\ Period \in [Members -> Nat \ {0}]
    /\ IsFiniteSet(Codes) /\ ValidCodes \subseteq Codes
    /\ {BatchSizeLimit, ChainLenThreshold} \subseteq Nat \ {0}
    /\ {Quarantine, MaxEb, MaxWork, MaxPending} \subseteq Nat

VARIABLES eth,          \* the Ethereum blocks and Router after each of them
          mbs,          \* the decided MBs
          fin,          \* by validator: height of latest_finalized_mb_hash
          comp,         \* by validator: height up to which MBs are computed
          codeValid,    \* by validator: codes with code_valid set
          role,         \* by validator: ValidatorState
          head,         \* by validator: the latest chain head announced to it
          pending,      \* by validator: pending_events, newest first
          requests,     \* validation requests published
          replies,      \* validation replies published
          submitted     \* batches sent to the Router, with their signatures

vars == <<eth, mbs, fin, comp, codeValid, role, head, pending, requests, replies, submitted>>

Ebs == DOMAIN eth

Idle == [state |-> "idle"]

First == [parent |-> 0, height |-> 0, last |-> NoBatch, mb |-> 0, eb |-> 0,
            queue |-> <<>>, validated |-> {}, carried |-> <<>>]

Init ==
    /\ \E cs \in SUBSET Codes : eth = [b \in {0} |-> [First EXCEPT !.queue = SetToSeq(cs)]]
    /\ mbs = <<>>
    /\ fin = [v \in Members |-> 0] /\ comp = fin
    /\ codeValid = [v \in Members |-> {}]
    /\ role = [v \in Members |-> Idle]
    /\ pending = [v \in Members |-> <<>>]
    /\ head = [v \in Members |-> -1]
    /\ requests = {} /\ replies = {} /\ submitted = {}

\* The codes some block requested, and what the bound MaxWork is about
Seen == UNION {Range(eth[b].queue) : b \in Ebs}
Work == Cardinality(Ebs) - 1 + Len(mbs) + 2 * Cardinality(Seen)

-----------------------------------------------------------------------------
(* Ethereum and the Router contract.                                       *)

\* The blocks from the first to b; a parent has a smaller number.
ChainTo[b \in Ebs] == IF b = 0 THEN {0} ELSE {b} \cup ChainTo[eth[b].parent]

IsPredecessorOrSelf(a, b) == a \in ChainTo[b]

\* blockIsPredecessor, for a block mined on p
BlockIsPredecessor(a, expiry, p) ==
    IsPredecessorOrSelf(a, p) /\ eth[p].height + 1 - eth[a].height <= expiry

\* The transitions of the MBs after `from` up to `to`, as the MBs that have any.
Transitions(from, to) ==
    OnlyIn([i \in 1..(to - from) |-> from + i], {m \in DOMAIN mbs : mbs[m].full})

BatchSize(batch) == Len(batch.trans) + Len(batch.codes)

\* commitBatch in a block mined on p: every require of it
CommitBatch(p, sub) ==
    LET batch == sub.batch
    IN  /\ BlockIsPredecessor(batch.block, batch.expiry, p)
        /\ eth[p].last = eth[batch.block].last
        /\ eth[p].last # NoBatch => eth[eth[p].last.block].height <= eth[batch.block].height
        /\ Range(batch.codes) \subseteq Range(eth[p].queue)
        /\ Cardinality(sub.sigs) >= Threshold

\* Mutant: latestCommittedBatch is left alone by a batch without a chain commitment.
CommittedCodesKeepLast(r, batch) ==
    [r EXCEPT !.last = IF batch.head = 0 THEN @ ELSE batch,
              !.mb = IF batch.head = 0 THEN @ ELSE batch.head,
              !.eb = IF batch.head = 0 \/ mbs[batch.head].adv = 0 THEN @ ELSE mbs[batch.head].adv,
              !.queue = OnlyIn(@, Codes \ Range(batch.codes)),
              !.validated = @ \cup (Range(batch.codes) \cap ValidCodes),
              !.carried = @ \o batch.trans]

\* Router after commitBatch (_commitChain and _commitCodes)
Committed(r, batch) ==
    [r EXCEPT !.last = batch,
              !.mb = IF batch.head = 0 THEN @ ELSE batch.head,
              !.eb = IF batch.head = 0 \/ mbs[batch.head].adv = 0 THEN @ ELSE mbs[batch.head].adv,
              !.queue = OnlyIn(@, Codes \ Range(batch.codes)),
              !.validated = @ \cup (Range(batch.codes) \cap ValidCodes),
              !.carried = @ \o batch.trans]

\* requestCodeValidation of each code of cs
Requested(r, cs) == [r EXCEPT !.queue = @ \o SetToSeq(cs)]

\* Ethereum mines a block on p: any tree of blocks, with at most one batch that the
\* Router accepts (a second one would have to be built on a block that follows), and
\* requests for codes that are new, or were found invalid.
MineBlock(p, subs, cs) ==
    LET new == Cardinality(Ebs)
        router == IF subs = {} THEN eth[p] ELSE Committed(eth[p], (CHOOSE s \in subs : TRUE).batch)
    IN  /\ new <= MaxEb /\ Work + 2 * Cardinality(cs \ Seen) < MaxWork
        /\ \A s \in subs : CommitBatch(p, s)
        /\ cs \cap (Range(router.queue) \cup router.validated) = {}
        /\ eth' = [b \in Ebs \cup {new} |->
                     IF b = new
                     THEN [Requested(router, cs) EXCEPT !.parent = p, !.height = eth[p].height + 1]
                     ELSE eth[b]]
        /\ UNCHANGED <<mbs, fin, comp, codeValid, role, head, pending, requests, replies, submitted>>

-----------------------------------------------------------------------------
(* What a validator's other services write to its database.  The validator *)
(* reads it only while it builds or validates a batch; what was written    *)
(* before is taken to be written then.                                     *)

Reading(v) == role[v].state \in {"boot", "validating"}

\* Malachite decides an MB: it keeps its parent's Ethereum block or advances to a
\* strict descendant of it.
Decide(eb, full) ==
    LET advanced == IF mbs = <<>> THEN 0 ELSE Last(mbs).adv
    IN  /\ Work < MaxWork /\ \E v \in Members : Reading(v)
        /\ eb # advanced => /\ IsPredecessorOrSelf(advanced, eb)
                            /\ \E b \in Ebs : eth[eb].height + Quarantine <= eth[b].height
        /\ mbs' = Append(mbs, [adv |-> eb, full |-> full])
        /\ UNCHANGED <<eth, fin, comp, codeValid, role, head, pending, requests, replies, submitted>>

\* process_mb_finalized
Finalize(v) ==
    /\ Reading(v) /\ fin[v] < Len(mbs)
    /\ fin' = [fin EXCEPT ![v] = @ + 1]
    /\ UNCHANGED <<eth, mbs, comp, codeValid, role, head, pending, requests, replies, submitted>>

\* compute_one: MBs are computed parent first, before or after they are final.
Compute(v) ==
    /\ Reading(v) /\ comp[v] < Len(mbs)
    /\ comp' = [comp EXCEPT ![v] = @ + 1]
    /\ UNCHANGED <<eth, mbs, fin, codeValid, role, head, pending, requests, replies, submitted>>

\* set_code_valid, once the code's blob is loaded and processed
ProcessCode(v, c) ==
    /\ Reading(v) /\ c \notin codeValid[v]
    /\ \E b \in Ebs : c \in Range(eth[b].queue)
    /\ codeValid' = [codeValid EXCEPT ![v] = @ \cup {c}]
    /\ UNCHANGED <<eth, mbs, fin, comp, role, head, pending, requests, replies, submitted>>

-----------------------------------------------------------------------------
(* Batches.                                                                *)

\* Mutant: only heights are compared.
LatestIsBelow(v, b) == fin[v] # 0 => eth[mbs[fin[v]].adv].height <= eth[b].height

\* is_eth_block_canonical_to for what the latest finalized MB advanced to
LatestIsCanonical(v, b) == fin[v] # 0 => IsPredecessorOrSelf(mbs[fin[v]].adv, b)

\* The longest prefix of computed MBs, anchored at the last committed one, that fits
\* (try_include_chain_commitment with collect_computed_uncommitted_predecessors).
LastIncluded(v, b) ==
    LET from == eth[b].mb
        pend == {m \in (from + 1)..fin[v] : m <= comp[v] /\ Len(Transitions(from, m)) <= BatchSizeLimit}
    IN  IF pend = {} THEN from ELSE CHOOSE m \in pend : \A n \in pend : n <= m

\* try_include_checkpoint_chain_commitment
NeedsCheckpoint(v, b) ==
    /\ fin[v] > 0
    /\ eth[mbs[fin[v]].adv].height - eth[eth[b].eb].height > ChainLenThreshold

\* Mutant: codes are not charged against the batch size.
ReadyCodesAll(v, b, room) == OnlyIn(eth[b].queue, codeValid[v])

\* aggregate_code_commitments_for_block
ReadyCodes(v, b, room) ==
    LET ready == OnlyIn(eth[b].queue, codeValid[v])
    IN  SubSeq(ready, 1, IF Len(ready) <= room THEN Len(ready) ELSE room)

Batch(v, b, top, trans, codes) ==
    [block |-> b, expiry |-> Delay[v], head |-> top, trans |-> trans, codes |-> codes]

\* BatchCommitmentManager::create_batch_commitment; NoBatch if there is nothing to commit.
CreateBatchCommitment(v, b) ==
    LET included == LastIncluded(v, b)
        trans == Transitions(eth[b].mb, included)
        top == CASE trans # <<>> -> included
                 [] trans = <<>> /\ NeedsCheckpoint(v, b) -> fin[v]
                 [] OTHER -> 0
        codes == ReadyCodes(v, b, BatchSizeLimit - Len(trans))
    IN  IF ~LatestIsCanonical(v, b) \/ (top = 0 /\ codes = <<>>) THEN NoBatch
        ELSE Batch(v, b, top, trans, codes)

\* The part of validate_batch_commitment that comes before the chain commitment
CodesAgree(v, b, req) ==
    IsInjective(req.codes) /\ Range(req.codes) \subseteq Range(eth[b].queue) \cap codeValid[v]

HeadIsReady(v, b, req) == LatestIsCanonical(v, b) /\ req.head <= fin[v] /\ req.head <= comp[v]

\* Mutant: the digest is not compared.
AcceptsAnyDigest(v, b, req) ==
    /\ CodesAgree(v, b, req)
    /\ req.head # 0 => HeadIsReady(v, b, req) /\ eth[b].mb < req.head
    /\ BatchSize(req) <= BatchSizeLimit

\* validate_batch_commitment accepts: v derives the same batch for its own block.
Accepts(v, b, req) ==
    /\ CodesAgree(v, b, req)
    /\ req.head # 0 => HeadIsReady(v, b, req) /\ eth[b].mb < req.head
    /\ req = Batch(v, b, req.head,
                   IF req.head = 0 THEN <<>> ELSE Transitions(eth[b].mb, req.head), req.codes)
    /\ BatchSize(req) <= BatchSizeLimit

\* validate_batch_commitment fails: a header or an MB it looks up may be missing.  What
\* v knows off its block's chain, or received and did not compute, is not tracked.
MayFail(v, b, req) ==
    /\ CodesAgree(v, b, req) /\ req.head # 0
    /\ \/ ~LatestIsCanonical(v, b)
       \/ HeadIsReady(v, b, req) /\ eth[b].mb > fin[v] /\ eth[b].mb > comp[v]

-----------------------------------------------------------------------------
(* ValidatorService.                                                       *)

Become(v, r) == role' = [role EXCEPT ![v] = r]

\* block_coordinator_at, with one block per slot
CoordinatorOf(b) == Validators[(eth[b].height % Len(Validators)) + 1]

\* An error ends the node; it is started again with its database.
Fail(v) == Become(v, Idle) /\ pending' = [pending EXCEPT ![v] = <<>>]

\* Participant::create: the newest saved request of the coordinator is taken.
StartParticipant(v, b) ==
    LET of == {i \in DOMAIN pending[v] : CoordinatorOf(pending[v][i].block) = CoordinatorOf(b)}
        first == CHOOSE i \in of : \A j \in of : i <= j
    IN  IF of = {}
        THEN /\ Become(v, [state |-> "participant", block |-> b])
             /\ UNCHANGED pending
        ELSE /\ Become(v, [state |-> "validating", block |-> b, request |-> pending[v][first]])
             /\ pending' = [pending EXCEPT ![v] = RemoveAt(@, first)]

\* process_new_head in every state, and maybe_advance_to_role once the block is
\* prepared; the next head may come before.  While it waits the validator only saves
\* requests, as it does in Idle: Idle stands for the sub-states that wait.
NewHead(v, b) ==
    /\ head[v] < b /\ head' = [head EXCEPT ![v] = b]
    /\ \/ CoordinatorOf(b) # v /\ StartParticipant(v, b)
       \/ /\ CoordinatorOf(b) = v /\ eth[b].height % Period[v] = 0
          /\ Become(v, [state |-> "boot", block |-> b]) /\ UNCHANGED pending
       \/ Become(v, Idle) /\ UNCHANGED pending
    /\ UNCHANGED <<eth, mbs, fin, comp, codeValid, requests, replies, submitted>>

\* submission: the task outlives the state.
Submit(v, batch, sigs) ==
    /\ submitted' = submitted \cup {[batch |-> batch, sigs |-> sigs]}
    /\ Become(v, Idle)

\* CoordinatorBoot::poll_next_state after the delay, and Coordinator::create
Boot(v) ==
    LET batch == CreateBatchCommitment(v, role[v].block)
    IN  /\ role[v].state = "boot"
        /\ IF batch = NoBatch
           THEN Become(v, Idle) /\ UNCHANGED <<requests, submitted>>
           ELSE IF Threshold <= 1
           THEN Submit(v, batch, {v}) /\ UNCHANGED requests
           ELSE /\ requests' = requests \cup {batch}
                /\ Become(v, [state |-> "coordinator", batch |-> batch, sigs |-> {v}])
                /\ UNCHANGED submitted
        /\ UNCHANGED <<eth, mbs, fin, comp, codeValid, head, pending, replies>>

\* create_batch_commitment fails on a missing header.
BootFails(v) ==
    /\ role[v].state = "boot" /\ ~LatestIsCanonical(v, role[v].block)
    /\ Fail(v)
    /\ UNCHANGED <<eth, mbs, fin, comp, codeValid, head, requests, replies, submitted>>

\* process_validation_request: at its turn, while busy, or saved for later.  Requests
\* may be lost, late, repeated and out of order.
ReceiveRequest(v, req) ==
    LET from == CoordinatorOf(req.block)
        mine == /\ role[v].state \in {"participant", "validating"}
                /\ CoordinatorOf(role[v].block) = from
    IN  /\ req \in requests /\ from # v
        /\ IF mine
           THEN /\ role[v].state = "participant"
                /\ Become(v, [state |-> "validating", block |-> role[v].block, request |-> req])
                /\ UNCHANGED pending
           ELSE /\ Len(pending[v]) < MaxPending
                /\ pending' = [pending EXCEPT ![v] = <<req>> \o @]
                /\ UNCHANGED role
        /\ UNCHANGED <<eth, mbs, fin, comp, codeValid, head, requests, replies, submitted>>

\* Participant::poll_next_state
Reply(v) ==
    /\ role[v].state = "validating" /\ Accepts(v, role[v].block, role[v].request)
    /\ replies' = replies \cup {[from |-> v, batch |-> role[v].request]}
    /\ Become(v, Idle)
    /\ UNCHANGED <<eth, mbs, fin, comp, codeValid, head, pending, requests, submitted>>

Reject(v) ==
    /\ role[v].state = "validating" /\ ~Accepts(v, role[v].block, role[v].request)
    /\ Become(v, Idle)
    /\ UNCHANGED <<eth, mbs, fin, comp, codeValid, head, pending, requests, replies, submitted>>

ValidationFails(v) ==
    /\ role[v].state = "validating" /\ MayFail(v, role[v].block, role[v].request)
    /\ Fail(v)
    /\ UNCHANGED <<eth, mbs, fin, comp, codeValid, head, requests, replies, submitted>>

\* Coordinator::process_validation_reply; other states skip replies.
ReceiveReply(v, rep) ==
    LET sigs == role[v].sigs \cup (IF rep.batch = role[v].batch THEN {rep.from} ELSE {})
    IN  /\ role[v].state = "coordinator" /\ rep \in replies
        /\ IF Cardinality(sigs) >= Threshold
           THEN Submit(v, role[v].batch, sigs)
           ELSE Become(v, [role[v] EXCEPT !.sigs = sigs]) /\ UNCHANGED submitted
        /\ UNCHANGED <<eth, mbs, fin, comp, codeValid, head, pending, requests, replies>>

\* The node crashes and is restarted.
Crash(v) ==
    /\ Fail(v)
    /\ UNCHANGED <<eth, mbs, fin, comp, codeValid, head, requests, replies, submitted>>

Next ==
    \/ \E p \in Ebs, cs \in SUBSET Codes :
         \/ MineBlock(p, {}, cs)
         \/ \E s \in submitted : MineBlock(p, {s}, cs)
    \/ \E b \in Ebs, full \in BOOLEAN : Decide(b, full)
    \/ \E v \in Members :
         \/ Finalize(v) \/ Compute(v) \/ Boot(v) \/ BootFails(v)
         \/ Reply(v) \/ Reject(v) \/ ValidationFails(v) \/ Crash(v)
         \/ \E b \in Ebs : NewHead(v, b)
         \/ \E c \in Codes : ProcessCode(v, c)
         \/ \E req \in requests : ReceiveRequest(v, req)
         \/ \E rep \in replies : ReceiveReply(v, rep)

Spec == Init /\ [][Next]_vars

-----------------------------------------------------------------------------
\* The batches commitBatch accepted on an Ethereum chain carried the transitions of the MBs
\* up to the committed one, each MB's once and in order: no fork, lost or late message,
\* crash, slow coordinator or choice of signers makes them skip an MB or apply it twice.
CommittedOnce == \A b \in Ebs : eth[b].carried = Transitions(0, eth[b].mb)

\* The Ethereum block committed as processed (EBCommitted) is the one the committed MB
\* advanced to, and is on the chain it is committed on: is_eth_block_canonical_to is asked
\* about the latest finalized MB, and the batch's head is an earlier one.
AnchorIsCanonical ==
    \A b \in Ebs : /\ IsPredecessorOrSelf(eth[b].eb, b)
                   /\ eth[b].mb > 0 => eth[b].eb = mbs[eth[b].mb].adv

\* When commitBatch finds that a submitted batch follows the latest committed one, its code
\* commitments are for codes that still wait: _commitCodes never reverts it.
CodesNeverRevert ==
    \A s \in submitted, p \in Ebs :
        BlockIsPredecessor(s.batch.block, s.batch.expiry, p) /\ eth[p].last = eth[s.batch.block].last
            => Range(s.batch.codes) \subseteq Range(eth[p].queue)

\* v validates a request for its own block, and has finalized and computed the head and
\* processed the codes the coordinator had.
HasSameData(v) ==
    LET b == role[v].block
        req == role[v].request
    IN  /\ role[v].state = "validating" /\ req.block = b
        /\ CodesAgree(v, b, req) /\ (req.head # 0 => HeadIsReady(v, b, req))
        /\ req.trans # <<>> \/ req.head = 0

\* A participant with the coordinator's data whose own commitment_delay_limit is the expiry
\* of the request derives the coordinator's batch, though create_batch_commitment walks as
\* far as it fits and validate_batch_commitment walks from the head.
PeersAgree ==
    \A v \in Members :
        HasSameData(v) /\ role[v].request.expiry = Delay[v]
            => Accepts(v, role[v].block, role[v].request)

\* The comment on BatchLimits: commitment_delay_limit is local to the coordinator and set
\* freely, so a participant with the coordinator's data accepts whatever it has itself.
DelayIsLocal ==
    \A v \in Members : HasSameData(v) => Accepts(v, role[v].block, role[v].request)

=============================================================================
