# TLA+ models of fabric-secure-chaincode

Specifications of the concurrent and distributed parts of this repository, the
TLC runs that check them on small instances, and TLAPS proofs of the central
results for every instance. `PROJECT.json` lists the runs, the theorems, the
source lines every definition stands for, and the hazards the properties are
aimed at.

## The system and its parts

| Part | State | Operations | What is hard about it | Module |
| --- | --- | --- | --- | --- |
| Ledger enclave (`tlcc_enclave`) | sequence number, key-value store with versions | parse a block, commit its updates, answer queries | the number check is outside the lock, blocks may fail half-way, numbers are truncated to 32 bits | `LedgerRules`, `TrustedLedger` |
| Ledger chaincode (`tlcc`) | the shared enclave id, one reader goroutine per join | join, read blocks, query | several readers feed one enclave; errors are dropped | `TrustedLedger` |
| Fabric peer (external) | block store, world state after each block | endorse, order, validate, commit | its verdicts must be those of the ledger enclave | `PeerAndLedger` |
| Chaincode wrapper (`ecc`) | registry of shims, semaphore, enclave id | setup, invoke, callbacks | overlapping invocations, leaked permits, enclave replaced while in use | `ChaincodeEnclave` |
| Chaincode enclave (`ecc_enclave`) | context map, read and write sets | invoke, get/put state, bind | contexts keyed by an address that is reused, error paths | `ChaincodeEnclave` |
| Auction chaincode | auctions and bids on the ledger | create, submit, close, eval | calls act on state that is stale when they are committed | `Auction` |
| Benchmark executor (`eval/benchmark/executor`) | queue, three wait groups, workers | start, submit, delayed submit, wait, stop | goroutines on unbuffered channels; check-then-act on the state | `Executor` |
| Enclave registry (`ercc`) | attestation reports by key | register, query | upgrades, concurrent setups, errors lost on the way from the enclave | `EnclaveRegistry` |
| Validation plugins (`ecc/vscc`, `ercc/vscc`) | none | validate a transaction | they see the state before the block, not before the transaction | `EnclaveRegistry` |
| Key conversions (`ecc/crypto`, `ercc/attestation`, `common`) | none | byte order, DER, hash of a key | leading zero bytes | `KeyCodec` |
| Reads of the chaincode enclave (`ecc` callbacks, `check_cmac`) | the value and the code of a read | fetch, verify | the value and its code come from different moments | `VerifiedRead` |
| JSON library (`common/json`) | values in memory, with owners | build, edit, copy, compare, free; parse and serialize | any allocation may fail in the middle of a call | `JsonTree`, `JsonText`, `Utf8` |
| Base64 (`common/base64`) | none | encode, decode | incomplete groups, foreign characters | `Base64` |

How they interact: a client's transaction is endorsed by `ecc`, which enters
the chaincode enclave; the enclave calls back into `ecc` for state and asks the
ledger enclave, through `tlcc`, for the hash of what it reads. The response is
signed, ordered, validated by the plugins and the peer, and stored in a block.
The readers of `tlcc` pass each block to the ledger enclave, which validates it
again. `ercc` and the registration of a new enclave run on the same pipeline.
Values, keys, signatures and lists of bids travel as base64 inside JSON.

## Modules and the code

**`LedgerRules`** holds the pure part of `ledger.cpp`: `cmp_version`,
`has_version_conflict`, and the effect of one envelope on the updates of its
block (`ProcessEnvelope`). An envelope keeps the outcome of its decoding (which
`decode_pb` fails, if any), its type, its flag in the transactions filter, its
versioned reads and its writes by namespace. Values are opaque.

**`TrustedLedger`** is the state machine. Variables with the code's names are
the code's variables; `chain` is the peer's block store; `pc`, `pos`, `at`,
`env` and `updates` are the locals of a reader and its `parse_block`; `log` is a
history variable. `EnterParseBlock` is the unlocked check, `ParseEnvelope` one
turn of the loop under the spin lock, `commit_state_updates` the commit with its
assertion, which is active in the default build. `EcallFails`, `RefuseBlock`,
`DropBlock`, `EnvelopeFault` and `AssertFails` are the error paths; the history
variable `failed` has the enclaves that missed a call. `joinChannel` overwrites
the shared `eid`. A crashed enclave keeps its lock, and its reader is dead. One
thing is left out: the stub takes `errno` for the error of its call
(`_, err := C.tlcc_send_block`), so that an unrelated value left in it can make
`readBlocks` panic.

**`AtomicLedger`** is what the ledger enclave promises: blocks take effect one
at a time, in order, in one step, and answers come from between blocks.
`TrustedLedger` implements it (`AppliesBlocksAtomically`); the mapping is the
identity on `chain`, `state`, `log` and `answer`.

**`PeerAndLedger`** composes `TrustedLedger` with a Fabric 1.4 peer. The peer
is not in this repository; it is modelled from its use here and marked external:
simulation records versions, validation requires them to be current (range
queries are repeated), the last write of a key in a block wins. `world` keeps
the peer's state after every block. A block holds any transactions that were
endorsed at the present height or an earlier one (`Endorsed`), in any order and
any number of times: clients and orderer may delay, drop and repeat them.

**`ChaincodeEnclave`** models `StubImpl.Invoke` and `GetPublicKey` from the
registration of the shim to the response, `ecall_invoke` inside, and `setup`.
`Register` and `RegisterReturns` are the two halves of `Registry.Register`,
which reads its result after unlocking. `Access` is one call of the shim with
its callback: the enclave's sets `rs`, `ws` are updated through the context map,
the peer's sets `txr`, `txw` through the registry. An insertion through a stale
context entry is undefined behaviour: it may reach the sets of any invocation in
the enclave, be lost, or crash the enclave. `ChaincodeAborts` is the chaincode
going down by itself, which `auction_cc.cpp` does on missing arguments and on a
value that is no number. `lost` counts the permits that a failed `Create` keeps;
the setups that failed before the calls of an instance are its initial value
(`LostBefore`). The history variable `clean` turns
false when `Register` has given a call the index of another one, or a failing
invocation has left its context behind in an enclave that lives on: the two
events after which the code
promises nothing about what is signed. The code of a read is left out here,
because a mismatch is only logged; `VerifiedRead` has it.

**`VerifiedRead`** composes `PeerAndLedger` with the reads of the chaincode
enclave. `Fetch` takes the value from the peer; `Verify`, some steps of the
ledger enclave later, takes the code from `tlcc` and compares (`check_cmac`). A
code is represented by the values it is over. A simulation holds the peer's
state lock, so that at most one more block is stored, and possibly read by the
ledger enclave, before it ends (`Settled`).

**`KeyCodec`** has the forms of a public key: little endian in the enclave, big
endian in the ecalls, integers in Go. `IntBytes` is `big.Int.Bytes`, which drops
leading zeros. SHA-256 is taken as injective, so hashes are compared by what
they are of.

**`EnclaveRegistry`** is the way of an enclave from `setup` to a block: `Create`,
`GetRemoteAttestationReport`, `RegisterEnclave` (with IAS as an oracle for quotes
that enclaves made), `Bind`, then `Invoke` and `GetPublicKey` of an invocation,
and `Commit` with the two validators. Errors that the code drops are
alternatives: an enclave without a key, a buffer that holds what an earlier call
left in it (never anything made up), an empty report. Setups run concurrently
and replace each other's `eid`; upgrades of the chaincode change `mrenclave`. An
invocation may touch no state (`touches`), like an unknown function; the
validator, which looks at each set of the namespace `ecc`, then checks nothing.

**`JsonTree`** is the heap of `parson.c`. A call of the library is an operator
that returns the set of its outcomes, one for each allocation that may fail;
the actions apply one outcome and move the ownership of a value between program
and container. Numbers are in units of half the EPSILON within which
`json_value_equals` takes them for equal. **`JsonText`** has the parser and the serializers over symbols (a
number, a word or a `uXXXX` is one symbol); **`Utf8`** has the UTF-16 and UTF-8
arithmetic over integers. **`Base64`** works on the six-bit values of letters.
**`Codecs`** applies the last two to escapes and bytes, and to edits of base64
text, and compares bits one by one; **`TextCodecs`** adds the JSON text that the
components write and edits of it, and has the reference definition: a grammar
that reduces brackets from the inside out.

**`Auction`** has the four functions of `auction_cc.cpp`. A call is endorsed
against the current state, waits in a pool and is committed in a block of its
own if what it read is unchanged. Names are sequences of segments, so that a
separator inside a name is visible. `Rows` leaves the order of the rows open,
because the search finds the same in any order. `offers` and `outcome` are history.
**`AtomicAuction`** is what the chaincode promises: the calls that are committed
take effect one after the other, each as a whole.

**`Executor`** has one action for each channel operation and wait-group
operation of `executor.go`, `worker.go` and `workerpool.go`. `sync.WaitGroup` is
external: a caller of `Wait` that the counter's zero has woken (`woken`) panics if
it finds the counter raised again before it returns (`Panic`), and that ends the
program.

## Runs that pass

| Run | Shows |
| --- | --- |
| `ledger_two_readers` | two joins, undecodable blocks, failing ecalls, faults and aborts: `TypeOK`, `ContiguousLog`, `NoFutureVersions`, `VersionsAdvance`, the refinement `AppliesBlocksAtomically`, `AssertionFailsOnRepeats`, that the assertion at the commit fails only on a block committed already, and `CatchesUp`, that the enclave in use reaches the end of the chain unless it aborted or a call or a block was lost |
| `peer_auction` | peer and enclave agree after every block (`AgreesWithPeer`) on a workload that reads what it updates and writes a bid key with one value; a read that verifies saw what the channel held after the blocks the ledger enclave had (`VerifiedValuesAreCommitted`), and one that does not has a reason (`HonestReadsVerify`) |
| `ecc_calls` | invocations and a setup overlap, every call may fail, the chaincode may abort, failed setups may have taken one permit or take both, addresses are reused: `TypeOK`, `PermitsAccounted`, `InvocationsReturn` unless all permits are lost; `CleanCallsSignTheirSets` and `CleanContexts` up to the first collision or left context |
| `registry` | two setups, an invocation, an upgrade, keys with and without leading zeros: `RegisteredKeysAreGenuine`, `AcceptedSignersAreRegistered` of the invocations that touched state, `BoundToTheLedger`, and `SetupsTakeEffect`, that what endorsement let through is registered in the end |
| `json_tree` | every sequence of library calls over four values: `OwnedOnce`, `LosesOnlyScalars`, `FailuresKeepDocuments`, `DotSetChangesOnlyThePath`, `DotRemoveChangesOnlyThePath`, `CopiesAreApart`, and `EqualsIsSameDocument` for every choice of the numbers from three of which two neighbours are equal and the outer ones are not |
| `text_codecs` | `ParsesTheGrammar`, `WrittenValuesReadBack`, `EscapesGiveUtf8`, `DecodesLeadingLetters`, `EncodesWhole` on written texts, on each with one edit, and on the ends of every range of code points; the grammar is that of the structure, with numbers as one symbol and strings as `get_quoted_string` finds them |
| `auction_race` | stale endorsements committed in any order, every placement of up to three bids: `TypeOK`, `BidsFrozenOnceClosed`, `EvalIsHighest`, which compares `eval` with a reference definition, and the refinement `AppliesCallsAtomically` |
| `executor_races` | submits, a delayed submit, `Wait` and `Stop(true)` in any overlap, with the panic of `sync.WaitGroup`: `TypeOK` (no wait group below zero), `StopCompletesSubmitted`, `StopReturnsEventually`, which says when `Stop` returns without fail, `AcceptedTasksRun` |

## Runs that find a disagreement

Each checks one property that a comment, an assertion or a document of the
repository states; the findings of `PROJECT.json` quote the line.

| Run | What TLC finds |
| --- | --- |
| `peer_rebid` | two bids for one key in a block: the peer keeps the last, the enclave the first |
| `executor_wait` | `Wait` returns while a task that was outstanding when it was called still runs: the dispatcher calls `wg.Done` at the hand-over (`executor.go:158`, against `:125`) |
| `ecc_register` | two overlapping `Register` calls return one index; accesses go to the wrong transaction |
| `key_leading_zero` | `CheckEnclavePkHash` refuses the key and the quote of one enclave when a coordinate begins with a zero byte |

## Where the passing instances end

The instances of the passing runs are chosen inside these limits. Outside them
the property named fails in the model; changing the constant in the run's
configuration shows the behaviour.

| Run and constant | Property | Why |
| --- | --- | --- |
| `ledger_two_readers`, property `NeverAborts` | `NeverAborts` | two readers pass the unlocked check with one block, and the second fails `assert(block_sequence_number == sequence_number + 1)` (`ledger.cpp:285`); `AssertionFailsOnRepeats` is what remains true. An envelope that faults breaks it too |
| `ledger_two_readers`, `CatchesUp` without its exceptions | `CatchesUp` | after a failed ecall, or a block that does not decode, every later block fails the number check, and nobody is told |
| `peer_auction`, `Templates <- UnsignedLoad` | `AgreesWithPeer` | the enclave skips only flag 1; the peer marks what a plugin rejects with 10 |
| `peer_auction`, `Templates <- MultiWriteLoad` | `AgreesWithPeer` | every key of a transaction gets the value of `writes[0]` |
| `peer_auction`, `Templates <- PhantomLoad` | `AgreesWithPeer` | a row added to a scanned range is noticed by the peer only |
| `ecc_calls`, property `SignedSetsMatch` | `SignedSetsMatch` | a collision of two registrations (`ecc_register`), or a context that `ecall_invoke` left when the chaincode failed and whose address is used again |
| `ecc_calls`, `Programs <- RewritingPrograms` | `CleanCallsSignTheirSets` | of two values written to a key `put_state` keeps the first in the enclave's set (`std::map::insert`), and the peer the last |
| `executor_races`, property `StopCompletes` | `StopCompletes` | a delayed task whose timer fires after `Stop` is refused, and the error is dropped, against `executor.go:131-132` |
| `auction_race`, `Values <- WithMinusOne` | `EvalIsHighest` | a lone bid of -1 equals the initial `high` and is a draw |
| `auction_race`, `Auctions <- NestedAuctions` | `EvalIsHighest` | the range query of auction `a` returns the bids of auction `a.b` |

`WaitSeesHandOver` is what `Wait` guarantees where its comment promises
completion; it is proved. A second `setup` is not refused by the code (`enclave_chaincode.go:87` compares the
wrong way round): `registry` has two, `ecc_calls` one.

## Bounds

Two readers are enough for every race in `parse_block`: a step of one reader
touches the enclave and its own locals only, and the race is between a check
and a commit. Chains are three blocks long; the sequence number wraps once, from
its initial value 0xffffffff to 0. Blocks are chosen so that each branch of `parse_block` is taken.
`peer_*` runs have blocks of up to two transactions, endorsed at any earlier
height, since conflicts are between pairs. Two invocations and as many permits as the
run needs show the races of `ChaincodeEnclave`; of two permits none, one or both are lost. The auction runs have six blocks: create, two or three
bids, close, eval, with up to two calls in flight, since a stale endorsement
needs one call that overtakes another. Two setups and one
invocation are enough for an enclave to be replaced at any step of the other
call, and two versions for an upgrade in between; coordinates of two bytes can
begin with a zero or not. Four JSON values make a path of three names, with two
objects made on the way, or a shorter one with a sibling; every call that fails does so at each of its
allocations. Texts are edited once: one symbol decides whether the parser should
still accept. `MAX_NESTING` is two, which the documents reach and an edit exceeds.
A single read is enough for `VerifiedRead`, whose calls do not see each other.
The executor has three tasks, two workers
and a queue of one, so that submitters, dispatcher and workers all block.
Deadlock is not checked in the peer, auction, registry and text runs, which stop
when all calls or edits are made or the bound on the chain is reached; in the others the final states have an action of their
own (`Finished`, `Ended`), so that a circular wait would be reported. In the
ledger runs a query is always possible, and a reader that is stuck would show in
`CatchesUp`.

## Fairness

* `TrustedLedger!FairSpec`: weak fairness of each reader's steps. The Go
  scheduler runs goroutines that are ready, and the critical sections are finite.
* `ChaincodeEnclave!FairSpec`: strong fairness of the steps of a call already
  started, because the weighted semaphore serves its waiters in order. Nobody
  is obliged to start a call.
* `Executor!FairSpec`: weak fairness of each goroutine, and tasks end. Nobody
  is obliged to call `Submit`, `Stop` or `Wait`.

* `EnclaveRegistry!Spec`: weak fairness of `Commit`, because the orderer cuts a
  block when transactions wait. Nobody is obliged to call `setup` or `invoke`,
  and any call may fail.

## Proofs

Each component that has proofs has them in a module of its own.

### Ledger enclave (`TrustedLedgerProofs`)

Lemmas on the operators of `LedgerRules` come first: their types, that
`ProcessEnvelope` only adds entries with the version of its envelope, and that a
version of an earlier block is smaller. Then the theorems:

| Theorem | Statement | Assumption |
| --- | --- | --- |
| `TypeCorrect` | `Spec => []TypeOK` | none beyond the constants' types |
| `LogIsContiguous` | `Spec => []ContiguousLog` | `MaxHeight < SeqModulus` |
| `VersionsAreCommitted` | `Spec => []NoFutureVersions` | same |
| `EntriesOnlyAdvance` | `Spec => VersionsAdvance` | same |
| `ImplementsAtomicLedger` | `Spec => AppliesBlocksAtomically` | same |
| `AbortsRepeatACommit` | `Spec => []AssertionFailsOnRepeats` | same |
| `OneReaderNeverAborts` | `[]NeverAborts` as long as no envelope faults | one reader |

The assumption `MaxHeight < SeqModulus` says that the chain has fewer than 2^32
blocks. Where it is made, the number of readers, channels, keys and blocks is
arbitrary.

The argument. `ContiguousLog` alone is not inductive: nothing connects the
sequence number with the log. `LedgerInv` adds that (`EnclaveInv`: the sequence
number is the truncated length of the log less one, and entries have versions of
committed blocks) and, for a reader in the middle of a block, that its position
is at most the length of the log and, if it is equal, that its updates are what
the first `env` envelopes make of the enclave's present state (`ReaderInv`). The
interesting case is a commit by another reader in between: the position is then
smaller than the length of the log, nothing is claimed of the updates any more,
and the assertion stops the late commit. With `LedgerInv` a commit is a step
`ApplyBlock` of `AtomicLedger`, and every other step of a reader stutters. That a
block's updates are the last value of the recursive function of `AtomicLedger`
needs an induction over its envelopes; the invariant carries it step by step
(`RunStart`, `RunExtend`, `RunComplete`).

`OneReaderNeverAborts` makes no assumption on the length of the chain: with one
reader the number that was checked before the lock is still the expected one at
the commit (`CheckStillHolds`), also after it has wrapped around. With two readers
the theorem is false (see above).

### Peer and ledger enclave (`BlockProofs`, `PeerAndLedgerProofs`)

| Theorem | Statement | Assumption |
| --- | --- | --- |
| `EnclaveAgreesWithPeer` | `SysSpec => []AgreesWithPeer` | `Setting` |

`Setting` is: one channel (which is what `tlcc/README.md` supports), fewer than
2^32 blocks, a first block without chaincode transactions, and a workload on
which the two sets of rules can agree (`Compatible`). Each conjunct of
`Compatible` rules out one difference between `ledger.cpp` and the peer, and the
tables above show most of them: what a plugin rejects, phantoms, the
value of `writes[0]`, two writes to one key. The functions of the auction meet it
as long as a bidder does not bid two different values. It is a condition on the
workload, not on what happens to meet in one block, so it also excludes two such
bids in different blocks, after which the stores would agree.

The argument has two halves. For one block (`BlockProofs`: `Agrees`, `InStep`): the enclave
gathers updates next to its store and looks for conflicts in both, while the peer
applies each transaction to its state. By induction over the transactions, the
updates are what the peer's state has of this block, up to the transaction number
of a repeated equal write. On the next transaction both come to the same verdict
(`ConflictsAgree`, `StepAgrees`), because what it read is of an earlier block: if the block has
written the key since, both see a newer version, and if not, both compare
with the entry they had before the block. For
the chain, `SysInv` adds to `LedgerInv` that every stored block came from the
peer's state before it by transactions endorsed no later (`FromBlock`), and that a
state of the past differs from the present one only by larger versions
(`Earlier`).

### Reads (`PeerAndLedgerProofs`)

| Theorem | Statement | Assumption |
| --- | --- | --- |
| `AgreesWhileReading` | `ReadSpec => []AgreesWithPeer` | `Setting` |
| `VerifiedReadsAreCommitted` | `ReadSpec => []VerifiedValuesAreCommitted` | same |
| `HonestReadsAreVerified` | `ReadSpec => []HonestReadsVerify` | same |

These rest on the agreement: a code over what the ledger enclave holds is a code
over what the peer held after as many blocks. `ReadOK` relates, for each read, the
height at which the value was fetched and the height at which its code was made;
the second is at most one larger because of the state lock.

### Enclave registry (`EnclaveRegistryProofs`)

Three theorems, for any number of setups, invocations
and versions, blocks of any size and coordinates of any width:

| Theorem | Statement |
| --- | --- |
| `RegistrationsAreGenuine` | `Spec => []RegisteredKeysAreGenuine` |
| `SignersAreRegistered` | `Spec => []AcceptedSignersAreRegistered` |
| `BindingsAreGenuine` | `Spec => []BoundToTheLedger` |

They assume that keys are pairs of coordinates and not the zero key, that calls
have different names (`RegistryAssumption`), and that SHA-256 is injective: a hash
is compared by what it is of. The heart is `HashTellsKeysApart`: the validator compares the bytes of two
integers, written one after the other, with the whole key. A number has at most
`Width` bytes, so the two together are as long as the key only if neither lost a
zero, and then they are the key; the same lemma shows that a shifted coordinate
never passes the check in `ecall_bind_tlcc` (`BindKeepsTheKey`). The inductive
invariant `TrustInv` carries what an earlier step established to the step that
uses it: what each call relies on (`CallsInv`), that keys are not shared
(`KeysInv`), that quotes come from enclaves whatever a buffer held
(`QuotesInv`, `PoolInv`), and what the validators found when they accepted
(`RegistryInv`, `AcceptedInv`). That an enclave's key and version stay once it has
started (`EnclavesStay`) keeps those facts true afterwards.

### Auction (`AuctionProofs`)

Five theorems, for any auctions, bidders and values and any number of calls in
flight:

| Theorem | Statement | Assumption |
| --- | --- | --- |
| `AuctionTypes` | `Spec => []TypeOK` | none beyond the constants' types |
| `ClosedAuctionsKeepTheirBids` | `Spec => BidsFrozenOnceClosed` | same |
| `RecordsOnlyAdvance` | `Spec => AuctionsOnlyAdvance` | same |
| `EvalNamesTheHighest` | `Spec => []EvalIsHighest` | no name of an auction continues another's (`NamesApart`); values are natural numbers |
| `AuctionIsAtomic` | `Spec => AppliesCallsAtomically` | same as the line above |

What a call checked when it was endorsed may be out of date when it is committed.
`AuctionInv` says how far it is not: as long as the record of the auction has the
version that a waiting transaction read, the auction is still open for its bid, and
the value it writes still follows the present one (`StillHolds`). A commit that
changes the record gives it the number of its block, which is larger than any
version read before, so that what it invalidates can no longer pass validation.

Both assumptions of `EvalNamesTheHighest` are needed: see `NestedAuctions` and
`WithMinusOne` above. `BidsInv` says that the rows of an auction are its
committed bids, one for each bidder (`LedgerBids`), and that a waiting `eval` has
the result that the present bids give (`TxBids`): the auction was closed when it
ran, and bids of closed auctions stay. That the loop finds the highest bid is an
induction over the rows, in whatever order they come (`SearchFinds`,
`EvalFinds`): after n of them `high` is the largest value among the first n and
`draw` says whether two of them have it.

`AuctionIsAtomic` is the refinement of `AtomicAuction`, by the value of each
auction's record (`status`). A commit that passes validation is the atomic step of
its call, because what the call checked is still so: the record by its version
(`StillHolds`), and the bids that `eval` searched because it found the auction
closed (`TxBids`). Every other step changes nothing that a caller can see.

### Chaincode enclave (`ChaincodeEnclaveProofs`)

Four theorems, for any number of invocations, setups,
addresses and permits:

| Theorem | Statement | Assumption |
| --- | --- | --- |
| `CallTypes` | `Spec => []TypeOK` | none beyond the constants' types |
| `PermitsAreAccounted` | `Spec => []PermitsAccounted` | same |
| `CleanCallsAreSigned` | `Spec => []CleanCallsSignTheirSets` | programs are sequences that write one value per key (`WritesAgree`) |
| `CleanContextsHold` | `Spec => []CleanContexts` | same as the line above |

The functions of the auction write at most one key. The assumption is needed: see
`RewritingPrograms` above. `PermitsInv` adds up the free permits and the callers at
the places that hold one; `Counting` says how such a number changes when one
caller moves. `IndexInv` shows the same way that `index` counts the calls that
ever registered, so that the index read after the lock is one that was given out. `CallsInv` is about
the sets. At any time the contexts in use have different addresses (`AddrsApart`).
While `clean` holds, the shim at a call's index is its own
(`OwnShims`), the context map of a live enclave has exactly the calls that are inside
(`OwnContexts`), and both records of what a call accessed are the same
(`SameSets`). Each needs the others: an access goes through the shim to one record
and through the context to the other, and only if both are the call's own do they
stay equal.

### Executor (`ExecutorProofs`)

Three theorems, for any number of tasks, delayed or not, any number of workers
and a queue of any length:

| Theorem | Statement |
| --- | --- |
| `ExecutorTypes` | `Spec => []TypeOK` |
| `StopDrainsSubmitted` | `Spec => []StopCompletesSubmitted` |
| `WaitCoversHandOver` | `Spec => []WaitSeesHandOver` |

`ExecutorInv` says what each counter counts: `wg` the delayed tasks under way, the
tasks between `Submit` and the hand-over and the dispatcher's own unit (`WgInv`),
`taskWg` the tasks with a worker or about to be (`TaskWgInv`), `poolWg` the workers
that have not ended (`PoolWgInv`). A wait group at zero then means that those sets
are empty, which is what `Stop` and `Wait` rely on; that a task is in one place at a time
(`TaskInv`), and a worker that is offered waits (`AvailableInv`), makes the counts
change by one when something moves.

### Codecs (`CodecProofs`)

Three theorems about `CodecSpec`, for every escape of one or two UTF-16 units, any
bytes of any number, and any edits of their base64 text. `text_codecs` checks the
same properties on the ends of the ranges; it adds the JSON text, which the
codecs do not see.

| Theorem | Statement |
| --- | --- |
| `EscapesAreUtf8` | `CodecSpec => []EscapesGiveUtf8` |
| `EncodingIsUndone` | `CodecSpec => []EncodesWhole` |
| `DecodingIsLeadingLetters` | `CodecSpec => []DecodesLeadingLetters` |

`CodecInv` only says that bytes are bytes, that damaged text is still text, and
that text without edits is the encoder's; the rest is about the operators. For an
escape there is a lemma for each length of UTF-8 (`OneByte` to `FourBytes`,
`WritesOne` to `WritesFour`). For base64, `AppendedIs` gives what the loops append
in closed form: the element at k is the one at its place in its group. It is an
induction over the groups, with the closed form as the witness. From it follow
`EncodeIs` and `DecodeIs`, and then arithmetic on one group remains:
three bytes and four letters (`GroupRoundTrip`), and their 24 bits (`GroupBits`).

### Induction

A set which holds 0 and with every number its successor holds all natural numbers
(`NatSets`, from the least element of the rest), and a loop of n turns has a run
(`Iterates`). The theorems about `eval` and about the transactions of a block use
them for the recursive functions of the models, and the codecs use the first.

### Only model-checked

All liveness properties (`CatchesUp`, `InvocationsReturn`, `SetupsTakeEffect`,
`StopReturnsEventually`, `AcceptedTasksRun`), because TLAPS has no rules for
fairness and ENABLED here; and the properties of `JsonTree` and the two of
`TextCodecs` (`ParsesTheGrammar`, `WrittenValuesReadBack`), which are built from
RECURSIVE operators that the prover cannot expand: what they compute is compared
with reference definitions by TLC.

## Not modelled

* Encryption of state and of calls (`encrypt_state`, `decrypt_state`, `ecc/crypto/enc.go`),
  hashes and signatures as computations: they appear as outcomes.
* `tlcc_enclave/enclave/crypto.cpp`: certificates and signatures whose check is only
  logged by `parse_block`. `tlcc_enclave/enclave/ias.cpp`: the one call of
  `verify_attestation_report` is commented out.
* Protobuf decoding, except for which message cannot be decoded.
* The HTTP exchange with IAS and the decorator that reads its credentials.
* Of `parson.c`: `json_validate`, files and comments, which nothing in the
  repository uses; the format of numbers; getters that only return a field.
* `destroy`, debugging output, logging, test mocks.
* Two channels on one `tlcc`, which `tlcc/README.md` excludes.

## Plan

1. The parser of `JsonText` with recursive functions in place of RECURSIVE
   operators, so that lemmas about it can be proved.
2. A read set with repetitions in `ChaincodeEnclave`, as the validator builds it.
3. Two readers and two channels in `VerifiedRead`, if a second channel is to be
   supported.
