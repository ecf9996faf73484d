----------------------------- MODULE EthexeNode -----------------------------
(***************************************************************************)
(* One ethexe node between two stores and a crash: the Malachite app with  *)
(* its block store, the application callbacks that write the node's        *)
(* database and hold events back until their Ethereum block is prepared,   *)
(* the sub-service that executes Malachite blocks (MBs), and the prepare   *)
(* pipeline of EthexePrepare the events wait for.                          *)
(*                                                                         *)
(* An MB is its height and the last EB it advanced to; the block `decided` *)
(* at a height, the same for every node, is the parent of all blocks       *)
(* proposed at the next.  The BFT engine is external: it hands the app     *)
(* proposals of peers, values it fetched from peers that decided them, and *)
(* decisions on values it knows.  The channel between the callbacks and    *)
(* the service is part of the queues it ends in.                           *)
(***************************************************************************)
EXTENDS EthexePrepare

CONSTANTS Decisions(_),  \* by tree: the EBs the decided MBs may advance to
          MaxMbs,        \* bound: MBs the node stores
          MaxRestarts,   \* bound: crashes
          None

ASSUME NodeAssumption ==
    /\ \A tree \in Trees : \A d \in Decisions(tree) : d \in Seq({0} \cup Ebs(tree))
    /\ {MaxMbs, MaxRestarts} \subseteq Nat
    /\ None \notin [height : Nat, adv : Nat]

VARIABLES decided,     \* by height: the MB the network decides
          undecided,   \* the store's undecided proposals
          entry,       \* by MB: the store's BlockEntry, how far it got
          cert,        \* the MBs whose entry has a certificate
          mbs,         \* the MBs with a CompactMb in the database
          latestFin,   \* globals.latest_finalized_mb_hash
          computed,    \* mb_meta.computed
          height,      \* State.current_height
          engine,      \* the values of this height the engine knows
          app,         \* the app's message handler, between its awaits
          pending,     \* EthexeExternalities.pending_events
          calc,        \* ComputeSubService: input, in_flight_mb, finalized_events_input
          restarts

coreVars == <<decided, undecided, entry, cert, height, engine, app>>
mbDb == <<mbs, latestFin, computed>>
nodeVars == <<coreVars, mbDb, pending, calc, restarts>>
vars == <<prepareVars, nodeVars>>

MaxHeight == Len(decided)

Mbs == [height : 1..MaxHeight, adv : {0} \cup Ebs(eth)]

Parent(m) == IF m.height = 1 THEN None ELSE decided[m.height - 1]

\* last_advanced_eb of the parent
LastAdvanced(m) == IF m.height = 1 THEN 0 ELSE Parent(m).adv

\* An MB that can be proposed above the block decided before it.
AboveDecided(m) ==
    \/ m.adv = LastAdvanced(m)
    \/ m.adv # 0 /\ IsDescendant(m.adv, LastAdvanced(m))

Idle == [at |-> "idle"]

NoCalc == [queue |-> <<>>, inFlight |-> None, finals |-> <<>>]

NodeInit ==
    /\ PrepareInit
    /\ decided \in {[h \in DOMAIN d |-> [height |-> h, adv |-> d[h]]] : d \in Decisions(eth)}
    /\ \A h \in DOMAIN decided : AboveDecided(decided[h])
    /\ undecided = {} /\ cert = {} /\ entry = [m \in Mbs |-> "none"]
    /\ mbs = {} /\ latestFin = None /\ computed = {}
    /\ height = 1 /\ engine = {} /\ app = Idle
    /\ pending = <<>> /\ calc = NoCalc /\ restarts = 0

FinalizedAt(h) == h # 0 => entry[decided[h]] = "finalized"

\* max_finalized_height: what the node starts from.
MaxFinalized == Max({h \in 0..MaxHeight : FinalizedAt(h)})

-----------------------------------------------------------------------------
(* The callbacks and the events they emit. *)

IsPrepared(adv) == adv = 0 \/ adv \in prepared

\* receive_mb and receive_finalized_mb_events: neither takes a block twice.
Receive(c, event) ==
    IF event.kind = "finalized"
    THEN [c EXCEPT !.finals = IF event.mb \in ToSet(@) THEN @ ELSE Append(@, event.mb)]
    ELSE [c EXCEPT !.queue = IF event.mb \in computed \cup ToSet(@) \cup {c.inFlight}
                             THEN @ ELSE Append(@, event.mb)]

\* An event is sent if no other waits and its EB is prepared, or else queued.
TryEmitOrQueue(event) ==
    IF pending = <<>> /\ IsPrepared(event.mb.adv)
    THEN calc' = Receive(calc, event) /\ UNCHANGED pending
    ELSE pending' = Append(pending, event) /\ UNCHANGED calc

\* The service once the first n of the queued events are sent.
ReceiveFirst(n) ==
    LET after[i \in 0..Len(pending)] ==
            IF i = 0 THEN calc ELSE Receive(after[i - 1], pending[i])
    IN after[n]

\* Mutants: all of them are sent, and one at most.
DrainAll(b) ==
    /\ calc' = ReceiveFirst(Len(pending))
    /\ pending' = <<>>

DrainOne(b) ==
    IF pending # <<>> /\ (IsPrepared(Head(pending).mb.adv) \/ Head(pending).mb.adv = b)
    THEN calc' = Receive(calc, Head(pending)) /\ pending' = Tail(pending)
    ELSE UNCHANGED <<pending, calc>>

\* Those in front whose EB is prepared are sent; b was just prepared.
DrainPending(b) ==
    LET waiting == {i \in 1..Len(pending) :
                        ~(IsPrepared(pending[i].mb.adv) \/ pending[i].mb.adv = b)}
        n == Min(waiting \cup {Len(pending) + 1}) - 1
    IN  /\ calc' = ReceiveFirst(n)
        /\ pending' = SubSeq(pending, n + 1, Len(pending))

ProcessMbProposal(m) ==
    /\ mbs' = mbs \cup {m}
    /\ TryEmitOrQueue([kind |-> "proposal", mb |-> m])
    /\ UNCHANGED <<latestFin, computed>>

ProcessMbFinalized(m) ==
    /\ latestFin' = m
    /\ TryEmitOrQueue([kind |-> "finalized", mb |-> m])
    /\ UNCHANGED <<mbs, computed>>

-----------------------------------------------------------------------------
(* The Malachite app: one message at a time, with awaits between its steps. *)

Saved(e, m) == e[m] \in {"saved", "finalized"}

\* The decided blocks above height `low`, up to the parent of m, and m.
Above(low, m) == [i \in 1..(m.height - 1 - low) |-> decided[low + i]] \o <<m>>

\* save_chain: the ancestors that are not saved, oldest first; none if the
\* walk meets a block that is not stored.
SaveChain(e, m) ==
    LET chain == Above(Max({h \in 1..(m.height - 1) : Saved(e, decided[h])} \cup {0}), m)
    IN IF Saved(e, m) \/ (\E x \in ToSet(chain) : e[x] = "none") THEN <<>> ELSE chain

\* Mutant: the ancestors are not walked.
FinalizeChainAlone(e, c, m) == IF e[m] = "saved" /\ m \in c THEN <<m>> ELSE <<>>

\* finalize_chain: the ancestors that are not finalized; none if one of them
\* is not saved or has no certificate.
FinalizeChain(e, c, m) ==
    LET final == {h \in 1..(m.height - 1) : e[decided[h]] = "finalized"}
        chain == Above(Max(final \cup {0}), m)
        ready(x) == e[x] = "saved" /\ x \in c
    IN IF e[m] # "finalized" /\ (\A x \in ToSet(chain) : ready(x)) THEN chain ELSE <<>>

\* Mutant: the new entry counts as saved.
InsertSaved(m) == [entry EXCEPT ![m] = IF @ = "none" THEN "saved" ELSE @]

\* insert_block, which keeps an entry that is there.
Insert(m) == [entry EXCEPT ![m] = IF @ = "none" THEN "stored" ELSE @]

ChildrenOf(e, m) ==
    IF m # decided[m.height] THEN <<>>
    ELSE SetToSeq({x \in Mbs : x.height = m.height + 1 /\ e[x] # "none"})

\* cascade_save and cascade_finalize: with `todo` the rest of a chain, and `try`
\* the stack of blocks to try next.  When nothing is left the handler is done,
\* and its reply tells the engine of the proposal.
Cascade(kind, m, try, todo, e, c) ==
    LET Chain(x) == IF kind = "save" THEN SaveChain(e, x) ELSE FinalizeChain(e, c, x)
        i == Max({j \in 1..Len(try) : Chain(try[j]) # <<>>} \cup {0})
    IN IF todo # <<>>
       THEN /\ app' = [at |-> kind, mb |-> m, try |-> try, todo |-> todo]
            /\ UNCHANGED engine
       ELSE IF i # 0
       THEN /\ app' = [at |-> kind, mb |-> m, try |-> SubSeq(try, 1, i - 1), todo |-> Chain(try[i])]
            /\ UNCHANGED engine
       ELSE /\ app' = Idle
            /\ engine' = IF kind = "save" THEN engine \cup {m} ELSE engine

Room(m) == Cardinality({x \in Mbs : entry[x] # "none"} \cup undecided \cup {m}) <= MaxMbs

StoreUndecided(m) ==
    /\ app = Idle /\ m.height = height /\ Room(m)
    /\ undecided' = undecided \cup {m}
    /\ app' = [at |-> "record", mb |-> m]
    /\ UNCHANGED <<prepareVars, decided, entry, cert, height, engine, mbDb, pending, calc, restarts>>

\* A proposal at the current height, built here or received: its parent is
\* finalized, and an EB it advances to passes the node's own checks.
Propose(m) ==
    /\ FinalizedAt(m.height - 1)
    /\ AboveDecided(m) /\ (m.adv = LastAdvanced(m) \/ m.adv \in synced)
    /\ ~(m \in undecided /\ Saved(entry, m))
    /\ StoreUndecided(m)

\* A decided value the engine fetched from a peer: stored without a check.
SyncValue(m) ==
    /\ m = decided[m.height] /\ m \notin engine
    /\ StoreUndecided(m)

\* record_assembled_block
Record(m) ==
    /\ app = [at |-> "record", mb |-> m]
    /\ entry' = Insert(m)
    /\ Cascade("save", m, <<m>>, <<>>, entry', cert)
    /\ UNCHANGED <<prepareVars, decided, undecided, cert, height, mbDb, pending, calc, restarts>>

\* After a start the engine is told the undecided proposals of its round.
StartRound ==
    /\ app = Idle
    /\ LET stored == {m \in undecided : m.height = height}
       IN ~(stored \subseteq engine) /\ engine' = engine \cup stored
    /\ UNCHANGED <<prepareVars, decided, undecided, entry, cert, height, app, mbDb, pending, calc, restarts>>

\* commit: the proposals up to this height are pruned, and the next one begins.
Decide(m) ==
    /\ app = Idle
    /\ m \in engine \cap undecided /\ m = decided[m.height]
    /\ undecided' = {x \in undecided : x.height > height}
    /\ height' = height + 1
    /\ engine' = {}
    /\ app' = [at |-> "ingest", mb |-> m]
    /\ UNCHANGED <<prepareVars, decided, entry, cert, mbDb, pending, calc, restarts>>

\* ingest_finalized
Ingest(m) ==
    /\ app = [at |-> "ingest", mb |-> m]
    /\ entry' = Insert(m)
    /\ cert' = cert \cup {m}
    /\ Cascade("finalize", m, <<m>>, <<>>, entry', cert')
    /\ UNCHANGED <<prepareVars, decided, undecided, height, mbDb, pending, calc, restarts>>

\* The callback for the next block of the chain.
Callback ==
    /\ app.at \in {"save", "finalize"}
    /\ IF app.at = "save" THEN ProcessMbProposal(Head(app.todo))
       ELSE ProcessMbFinalized(Head(app.todo))
    /\ app' = [app EXCEPT !.at = IF @ = "save" THEN "mark_saved" ELSE "mark_finalized"]
    /\ UNCHANGED <<prepareVars, decided, undecided, entry, cert, height, engine, restarts>>

\* mark_saved or mark_finalized, and the block's children are tried next.
Mark ==
    /\ app.at \in {"mark_saved", "mark_finalized"}
    /\ LET m == Head(app.todo)
           kind == IF app.at = "mark_saved" THEN "save" ELSE "finalize"
       IN /\ entry' = [entry EXCEPT ![m] = IF kind = "save" THEN "saved" ELSE "finalized"]
          /\ Cascade(kind, app.mb, app.try \o ChildrenOf(entry', m), Tail(app.todo), entry', cert)
    /\ UNCHANGED <<prepareVars, decided, undecided, cert, height, mbDb, pending, calc, restarts>>

-----------------------------------------------------------------------------
(* Execution of MBs, in ComputeSubService::poll_next's order. *)

\* The uncomputed ancestor of m, or m, that is executed next.
NextToCompute(m) ==
    LET low == Max({h \in 1..(m.height - 1) : decided[h] \in computed} \cup {0})
    IN Above(low, m)[1]

Quiet == calc.inFlight = None

\* Events of a finalized MB are forwarded once it is computed.
Forwardable == calc.finals # <<>> /\ Head(calc.finals) \in computed

ForwardFinalized ==
    /\ Quiet /\ Forwardable
    /\ calc' = [calc EXCEPT !.finals = Tail(@)]
    /\ UNCHANGED <<prepareVars, coreVars, mbDb, pending, restarts>>

TakeMb ==
    /\ Quiet /\ ~Forwardable /\ calc.queue # <<>>
    /\ calc' = [calc EXCEPT !.inFlight = Head(calc.queue), !.queue = Tail(@)]
    /\ UNCHANGED <<prepareVars, coreVars, mbDb, pending, restarts>>

ComputeOne ==
    /\ ~Quiet /\ calc.inFlight \notin computed
    /\ computed' = computed \cup {NextToCompute(calc.inFlight)}
    /\ UNCHANGED <<prepareVars, coreVars, mbs, latestFin, pending, calc, restarts>>

\* The whole chain is executed, and MbComputed is emitted.
MbComputed ==
    /\ ~Quiet /\ calc.inFlight \in computed
    /\ calc' = [calc EXCEPT !.inFlight = None]
    /\ UNCHANGED <<prepareVars, coreVars, mbDb, pending, restarts>>

-----------------------------------------------------------------------------

\* Only the stores survive; the app starts above the last finalized height.
Restart ==
    /\ PrepareRestart
    /\ height' = MaxFinalized + 1
    /\ engine' = {} /\ app' = Idle /\ pending' = <<>> /\ calc' = NoCalc
    /\ restarts' = restarts + 1
    /\ UNCHANGED <<decided, undecided, entry, cert, mbDb>>

Crash == restarts < MaxRestarts /\ Restart

\* A proposer that has no finalized block below its height ends the node.
BuildFails ==
    /\ app = Idle /\ ~FinalizedAt(height - 1)
    /\ Restart

\* The steps of the prepare pipeline that emit no BlockPrepared.
PrepareStep ==
    /\ \/ \E x \in Codes : BlobLoaded(x) \/ BlobFails(x) \/ ProcessCode(x)
       \/ \E b \in Ebs(eth) : WaitForCodes(b, NotPreparedChain(b))
    /\ UNCHANGED nodeVars

\* BlockPrepared is emitted for the last block of a chain, and the service
\* passes it to the externalities.
PreparedStep(b) ==
    /\ AlreadyPrepared(b) \/ PrepareOne(b)
    /\ IF prep'.chain = <<>> THEN DrainPending(b) ELSE UNCHANGED <<pending, calc>>
    /\ UNCHANGED <<coreVars, mbDb, restarts>>

App == Callback \/ Mark \/ \E m \in Mbs : Record(m) \/ Ingest(m)

Compute == ForwardFinalized \/ TakeMb \/ ComputeOne \/ MbComputed

\* What the node does by itself; the rest are the observer's and the engine's
\* inputs.
NodeStep == PrepareStep \/ App \/ Compute \/ \E b \in Ebs(eth) : PreparedStep(b)

Next ==
    \/ NodeStep
    \/ \E b \in Ebs(eth) : Observe(b) /\ UNCHANGED nodeVars
    \/ \E m \in Mbs : Propose(m) \/ SyncValue(m) \/ Decide(m)
    \/ StartRound
    \/ Crash
    \/ BuildFails

\* The node goes on with what it can do: tokio polls its tasks, a blob is read
\* in a bounded number of attempts, and executing a code or an MB ends.
Spec == NodeInit /\ [][Next]_vars /\ WF_vars(NodeStep)

-----------------------------------------------------------------------------

\* An MB is executed after its parent, when the node has its CompactMb and the
\* EB it advances to is prepared: compute never fails on missing data, and the
\* codes of the programs it creates are there.  BlockProposal is held back for
\* this, ancestors are executed without an event of their own, and after a
\* restart the held-back events are gone.
ExecutedIsReady ==
    LET executing == IF Quiet \/ calc.inFlight \in computed THEN {}
                     ELSE {NextToCompute(calc.inFlight)}
    IN \A m \in computed \cup executing :
        /\ m \in mbs /\ IsPrepared(m.adv)
        /\ m.height > 1 => Parent(m) \in computed

\* The Malachite store is never ahead of the node's database, though a crash
\* may fall between their writes: a block it has as saved has its CompactMb,
\* and latest_finalized_mb_hash has reached the blocks it has as finalized.
StoreFollowsDb ==
    /\ \A m \in Mbs : Saved(entry, m) => m \in mbs
    /\ \A h \in 1..MaxHeight :
        FinalizedAt(h) => latestFin # None /\ latestFin.height >= h

\* latest_finalized_mb_hash only moves to a decided child of the block it is at,
\* also when the finalization of a block was passed over or is repeated.
FinalizedMovesByOne ==
    [][latestFin' # latestFin =>
        /\ latestFin' = decided[latestFin'.height]
        /\ Parent(latestFin') = latestFin]_vars

\* The blocks given to prepare are all prepared in the end, unless prepare waits
\* for good for a code that the blob loader gave up on.
PreparedOrStalled == []<>(input = <<>> /\ prep.chain = <<>>) \/ <>[]Stalled

\* The MBs whose BlockProposal was emitted since the start, not yet executed.
Underway ==
    {pending[i].mb : i \in {j \in DOMAIN pending : pending[j].kind = "proposal"}}
    \cup ToSet(calc.queue) \cup ({calc.inFlight} \ {None})

Blocked == pending # <<>> /\ ~IsPrepared(Head(pending).mb.adv)

AllExecuted == \A m \in Mbs : Saved(entry, m) => m \in computed

\* An MB whose BlockProposal was emitted is executed in the end, unless the EB some event
\* waits for is never prepared or the node is started again: no event is dropped or passed
\* over.  So all saved MBs are executed if the node never stops.  After a start the MBs
\* saved before have no BlockProposal; they are executed as ancestors of a later one.
ExecutedOrBlocked ==
    /\ [][Underway \subseteq Underway' \cup computed' \/ restarts' # restarts]_vars
    /\ []<>(Underway = {}) \/ <>[]Blocked
    /\ []<>(restarts > 0 \/ AllExecuted) \/ <>[]Blocked

\* The comment on BlockFinalized in the service: it never comes before the BlockProposal of
\* the MB, so compute for the MB has already been triggered.
ComputeIsTriggered ==
    ToSet(calc.finals) \subseteq computed \cup ToSet(calc.queue) \cup {calc.inFlight}

=============================================================================
