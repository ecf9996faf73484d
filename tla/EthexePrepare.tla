--------------------------- MODULE EthexePrepare ---------------------------
(***************************************************************************)
(* How an ethexe node prepares Ethereum blocks: the observer's chain sync, *)
(* the prepare and codes sub-services of ethexe-compute and the blob       *)
(* loader, over one tree of Ethereum blocks (EBs).                         *)
(*                                                                         *)
(* An EB is a number and 0 the start block, which is prepared; of its      *)
(* events only the codes it requests to validate and those it reports as   *)
(* validated are kept.  The codes queue of a prepared block follows from   *)
(* the tree.  The node's database survives a restart, the rest does not.   *)
(***************************************************************************)
EXTENDS Integers, FiniteSets, Sequences, FiniteSetsExt, Lists

CONSTANTS Codes,
          Trees       \* the trees of Ethereum blocks to consider

Ebs(tree) == DOMAIN tree.parent

\* A block's parent is older, and a code is validated after it was requested.
ASSUME TreesAssumption ==
    \A tree \in Trees :
        /\ tree.parent \in Seq(Nat)
        /\ \A b \in Ebs(tree) :
            /\ tree.parent[b] \in 0..(b - 1)
            /\ tree.requested[b] \subseteq Codes /\ tree.validated[b] \subseteq Codes

VARIABLES eth,         \* the tree: parent, requested and validated of every EB
          synced,      \* block_synced: their headers and events are stored
          prepared,    \* block_meta.prepared
          known,       \* the codes with a code_valid entry
          input,       \* PrepareSubService.input
          prep,        \* PrepareSubService.state
          loading,     \* BlobLoader.codes_loading
          fetching,    \* the codes of BlobLoader.futures
          processing   \* the codes of CodesSubService.processions

prepareDb == <<eth, synced, prepared, known>>
prepareMem == <<input, prep, loading, fetching, processing>>
prepareVars == <<prepareDb, prepareMem>>

\* The EBs from the first after the start block to b, oldest first.
ChainTo(b) ==
    LET up[x \in 0..Len(eth.parent)] ==
            IF x = 0 THEN <<>> ELSE Append(up[eth.parent[x]], x)
    IN up[b]

IsDescendant(b, a) == a = 0 \/ a \in ToSet(ChainTo(b))

\* The codes_queue stored with a prepared block.
CodesQueue(b) ==
    LET queue[x \in 0..Len(eth.parent)] ==
            IF x = 0 THEN {}
            ELSE (queue[eth.parent[x]] \ eth.validated[x]) \cup eth.requested[x]
    IN queue[b]

Start == [st |-> "Start", codes |-> {}, chain |-> <<>>]

PrepareInit ==
    /\ eth \in Trees
    /\ synced = {} /\ prepared = {} /\ known = {}
    /\ input = <<>> /\ prep = Start
    /\ loading = {} /\ fetching = {} /\ processing = {}

-----------------------------------------------------------------------------

\* The observer has loaded the chain up to a new head and marked it synced,
\* and the service passes BlockSynced to compute.  A head may be announced
\* again: bound by the blocks waiting to be prepared and not yet prepared.
Observe(b) ==
    /\ b \notin prepared \cup ToSet(input) \cup ToSet(prep.chain)
    /\ synced' = synced \cup ToSet(ChainTo(b))
    /\ input' = Append(input, b)
    /\ UNCHANGED <<eth, prepared, known, prep, loading, fetching, processing>>

\* The ancestors of b, and b, down to the first that is prepared.
NotPreparedChain(b) ==
    LET chain == ChainTo(b)
        done == {i \in 1..Len(chain) : chain[i] \in prepared}
    IN SubSeq(chain, Max(done \cup {0}) + 1, Len(chain))

Unknown(codes) == codes \ known

\* Mutant: only the oldest block of the chain is looked at.
ValidatedInFirst(chain) == Unknown(eth.validated[Head(chain)])

ValidatedIn(chain) == Unknown(UNION {eth.validated[b] : b \in ToSet(chain)})

\* The codes to load for a chain.  The first time after a start those still
\* queued at the chain's parent are missing too.
MissingCodes(chain) ==
    ValidatedIn(chain)
    \cup Unknown(UNION {eth.requested[b] : b \in ToSet(chain)})
    \cup (IF prep.st = "Start" THEN Unknown(CodesQueue(eth.parent[Head(chain)])) ELSE {})

\* load_codes: a code that is loading already is left alone.
LoadCodes(codes) ==
    /\ loading' = loading \cup codes
    /\ fetching' = fetching \cup (codes \ loading)

\* The newest waiting block is taken.  If it is prepared already, only its
\* BlockPrepared is emitted.
TakeBlock(b, chain) ==
    /\ prep.st \in {"Start", "WaitingForBlock"}
    /\ input # <<>>
    /\ b = Last(input) /\ b \in synced
    /\ chain = NotPreparedChain(b)
    /\ input' = Front(input)

AlreadyPrepared(b) ==
    /\ TakeBlock(b, <<>>)
    /\ UNCHANGED <<prepareDb, prep, loading, fetching, processing>>

WaitForCodes(b, chain) ==
    /\ chain # <<>>
    /\ TakeBlock(b, chain)
    /\ prep' = [st |-> "WaitingForCodes", codes |-> ValidatedIn(chain), chain |-> chain]
    /\ LoadCodes(MissingCodes(chain))
    /\ UNCHANGED <<prepareDb, processing>>

\* prepare_one_block, oldest first once no code is waited for.
PrepareOne(b) ==
    /\ prep.st = "WaitingForCodes" /\ prep.codes = {}
    /\ b = Head(prep.chain)
    /\ prepared' = prepared \cup {b}
    /\ prep' = [prep EXCEPT !.chain = Tail(@),
                            !.st = IF Len(prep.chain) = 1 THEN "WaitingForBlock" ELSE @]
    /\ UNCHANGED <<eth, synced, known, input, loading, fetching, processing>>

\* A blob arrives and its code is given to the codes sub-service.
BlobLoaded(c) ==
    /\ c \in fetching
    /\ fetching' = fetching \ {c}
    /\ loading' = loading \ {c}
    /\ processing' = processing \cup {c}
    /\ UNCHANGED <<prepareDb, input, prep>>

\* All attempts to read the blob failed: the error is logged, and the code
\* stays in codes_loading.
BlobFails(c) ==
    /\ c \in fetching
    /\ fetching' = fetching \ {c}
    /\ UNCHANGED <<prepareDb, input, prep, loading, processing>>

\* Mutant: prepare does not hear of it.
ProcessCodeUnheard(c) ==
    /\ c \in processing
    /\ processing' = processing \ {c}
    /\ known' = known \cup {c}
    /\ UNCHANGED <<eth, synced, prepared, input, prep, loading, fetching>>

\* A code is processed: code_valid is set and prepare no longer waits for it.
ProcessCode(c) ==
    /\ c \in processing
    /\ processing' = processing \ {c}
    /\ known' = known \cup {c}
    /\ prep' = [prep EXCEPT !.codes = @ \ {c}]
    /\ UNCHANGED <<eth, synced, prepared, input, loading, fetching>>

PrepareRestart ==
    /\ input' = <<>> /\ prep' = Start
    /\ loading' = {} /\ fetching' = {} /\ processing' = {}
    /\ UNCHANGED prepareDb

-----------------------------------------------------------------------------

\* A prepared block's ancestors are prepared, and the codes validated up to it
\* have been processed: MBs that advance to it can create programs from them.
PreparedIsReady ==
    \A b \in prepared :
        /\ ToSet(ChainTo(b)) \subseteq prepared
        /\ eth.validated[b] \subseteq known

\* Prepare waits for a code the blob loader gave up on and has as loading.
Stalled == prep.codes \cap (loading \ fetching) # {}

=============================================================================
