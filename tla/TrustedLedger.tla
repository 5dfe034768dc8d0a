--------------------------- MODULE TrustedLedger ---------------------------
(***************************************************************************)
(* The trusted ledger chaincode (tlcc) of one peer: the JOIN_CHANNEL and   *)
(* VERIFY_STATE handlers of tlcc/tlcc.go, the readBlocks goroutine each    *)
(* join starts, and the ledger enclaves they feed                          *)
(* (tlcc_enclave/enclave/ledger.cpp).                                      *)
(*                                                                         *)
(* Every JOIN_CHANNEL creates an enclave and overwrites the one eid all    *)
(* callers share, so joins and enclaves have the same names.  The number   *)
(* check of parse_block runs without the spin lock.  What the code does    *)
(* under the lock (one envelope, the commit, a query) is one step here.    *)
(***************************************************************************)
EXTENDS LedgerRules

CONSTANTS
  Channels,
  Joins,        \* calls of JOIN_CHANNEL, each with its reader and enclave
  Blocks,       \* the blocks a peer may append
  Genesis,      \* block 0 of every channel
  Queries,      \* the key sets a VERIFY_STATE call may ask for
  SeqModulus,   \* 2^32 in the code: the width of sequence_number
  MaxHeight,    \* bound on the length of a chain
  NoEnclave,    \* the zero eid of a stub without an enclave
  NoChannel, NoAnswer

ASSUME BlocksAssumption == Blocks \subseteq Block /\ Genesis \in Block

ASSUME QueriesAssumption == Queries \subseteq SUBSET Key

ASSUME BoundsAssumption ==
  SeqModulus \in Nat \ {0} /\ MaxHeight \in Nat \ {0}

ASSUME NamesAssumption == NoEnclave \notin Joins /\ NoChannel \notin Channels

VARIABLES
  chain,            \* the peer's block store, by channel
  eid,              \* StubImpl.eid, shared by all callers
  sequence_number,  \* per enclave, as is every variable down to failed
  state,
  crashed,          \* the enclave aborted, its spin lock held for ever
  log,              \* history: the <<channel, block number>> committed
  failed,           \* history: live enclaves that a block did not reach
  pc,               \* per reader, as is every variable down to updates
  chan,             \* the channel joined
  pos,              \* the number of the block the iterator returns next
  at,               \* the eid passed to the current ecall
  env,              \* envelopes of the current block processed so far
  updates,          \* parse_block's local updates
  answer            \* the last reply of VERIFY_STATE

enclaveVars == <<sequence_number, state, crashed, log, failed>>
readerVars == <<pc, chan, pos, at, env, updates>>
vars == <<chain, eid, enclaveVars, readerVars, answer>>

Alive(e) == e \in Joins /\ ~crashed[e]

TheBlock(j) == chain[chan[j]][pos[j] + 1]

\* block_sequence_number: the 64-bit block number as a uint32_t
Truncated(n) == n % SeqModulus

\* Mutant: the addition is done in 64 bits, so 0xffffffff is not followed by 0.
MutantWideSum(s) == s + 1

\* sequence_number + 1 in the number check and in the assertion
NextSequenceNumber(s) == IF s = SeqModulus - 1 THEN 0 ELSE s + 1

Init ==
  /\ chain = [c \in Channels |-> <<Genesis>>]
  /\ eid = NoEnclave
  /\ sequence_number = [e \in Joins |-> SeqModulus - 1]
  /\ state = [e \in Joins |-> EmptyKvs]
  /\ crashed = [e \in Joins |-> FALSE]
  /\ log = [e \in Joins |-> <<>>]
  /\ failed = {}
  /\ pc = [j \in Joins |-> "idle"]
  /\ chan = [j \in Joins |-> NoChannel]
  /\ pos = [j \in Joins |-> 0]
  /\ at = [j \in Joins |-> NoEnclave]
  /\ env = [j \in Joins |-> 0]
  /\ updates = [j \in Joins |-> EmptyKvs]
  /\ answer = NoAnswer

----------------------------------------------------------------------------
(* The peer and the tlcc handlers *)

\* The peer commits one more block to its block store.
AppendBlock(c, b) ==
  /\ Len(chain[c]) < MaxHeight
  /\ chain' = [chain EXCEPT ![c] = Append(@, b)]
  /\ UNCHANGED <<eid, enclaveVars, readerVars, answer>>

\* joinChannel up to the creation of the enclave; a failed creation is not
\* noticed and leaves the zero eid.  The genesis block is position 0.
joinChannel(j, c) ==
  /\ pc[j] = "idle"
  /\ pc' = [pc EXCEPT ![j] = "reading"]
  /\ chan' = [chan EXCEPT ![j] = c]
  /\ eid' \in {j, NoEnclave}
  /\ UNCHANGED <<chain, enclaveVars, pos, at, env, updates, answer>>

\* iter.Next() returns a block and the stub passes it to the current eid:
\* InitWithGenesis for block 0, NextBlock for the others.
readBlocks(j) ==
  /\ pc[j] = "reading"
  /\ pos[j] < Len(chain[chan[j]])
  /\ pc' = [pc EXCEPT ![j] = "call"]
  /\ at' = [at EXCEPT ![j] = eid]
  /\ UNCHANGED <<chain, eid, enclaveVars, chan, pos, env, updates, answer>>

\* Mutant: the envelope counter is not reset between blocks.
MutantKeepsEnv(j) ==
  /\ pc' = [pc EXCEPT ![j] = "reading"]
  /\ pos' = [pos EXCEPT ![j] = @ + 1]
  /\ updates' = [updates EXCEPT ![j] = EmptyKvs]
  /\ UNCHANGED <<chan, at, env>>

\* Mutant: updates outlives the call, as a static variable would.
MutantKeepsUpdates(j) ==
  /\ pc' = [pc EXCEPT ![j] = "reading"]
  /\ pos' = [pos EXCEPT ![j] = @ + 1]
  /\ env' = [env EXCEPT ![j] = 0]
  /\ UNCHANGED <<chan, at, updates>>

\* The ecall is over.  Its error codes are dropped on the way to readBlocks,
\* which goes on with the next block.
Return(j) ==
  /\ pc' = [pc EXCEPT ![j] = "reading"]
  /\ pos' = [pos EXCEPT ![j] = @ + 1]
  /\ env' = [env EXCEPT ![j] = 0]
  /\ updates' = [updates EXCEPT ![j] = EmptyKvs]
  /\ UNCHANGED <<chan, at>>

----------------------------------------------------------------------------
(* parse_block *)

NumberExpected(j) ==
  Truncated(pos[j]) = NextSequenceNumber(sequence_number[at[j]])

\* Mutant: parse_block leaves the number check to commit_state_updates.
MutantUnchecked(j) ==
  /\ pc[j] = "call"
  /\ Alive(at[j]) /\ TheBlock(j).ok
  /\ pc' = [pc EXCEPT ![j] = "parse"]
  /\ UNCHANGED <<chain, eid, enclaveVars, chan, pos, at, env, updates, answer>>

\* Decoding and the unlocked number check pass.
EnterParseBlock(j) ==
  /\ pc[j] = "call"
  /\ Alive(at[j]) /\ TheBlock(j).ok /\ NumberExpected(j)
  /\ pc' = [pc EXCEPT ![j] = "parse"]
  /\ UNCHANGED <<chain, eid, enclaveVars, chan, pos, at, env, updates, answer>>

\* ecall_init, ecall_join_channel or ecall_next_block fails although the
\* enclave is there, out of threads for instance.  Nobody tries again.
EcallFails(j) ==
  /\ pc[j] = "call"
  /\ Alive(at[j])
  /\ failed' = failed \cup {at[j]}
  /\ Return(j)
  /\ UNCHANGED <<chain, eid, sequence_number, state, crashed, log, answer>>

\* There is no enclave to call, or decoding or the number check fails.
RefuseBlock(j) ==
  /\ pc[j] = "call"
  /\ ~(Alive(at[j]) /\ TheBlock(j).ok /\ NumberExpected(j))
  /\ Return(j)
  /\ UNCHANGED <<chain, eid, enclaveVars, answer>>

Crash(j) ==
  /\ crashed' = [crashed EXCEPT ![at[j]] = TRUE]
  /\ pc' = [pc EXCEPT ![j] = "dead"]
  /\ UNCHANGED <<chain, eid, sequence_number, state, log, failed,
                 chan, pos, at, env, updates, answer>>

AtEnvelope(j) ==
  pc[j] = "parse" /\ Alive(at[j]) /\ env[j] < Len(TheBlock(j).txs)

Current(j) == TheBlock(j).txs[env[j] + 1]

\* Mutant: envelopes are versioned with the number of the next block.
MutantNextBlockVersion(j) ==
  /\ AtEnvelope(j)
  /\ ~RejectsBlock(Current(j))
  /\ ~DereferencesNull(state[at[j]], updates[j], Current(j))
  /\ updates' = [updates EXCEPT ![j] =
       ProcessEnvelope(state[at[j]], @, Current(j), <<pos[j] + 1, env[j]>>)]
  /\ env' = [env EXCEPT ![j] = @ + 1]
  /\ UNCHANGED <<chain, eid, enclaveVars, pc, chan, pos, at, answer>>

\* One turn of the envelope loop that reaches the next turn.
ParseEnvelope(j) ==
  /\ AtEnvelope(j)
  /\ ~RejectsBlock(Current(j))
  /\ ~DereferencesNull(state[at[j]], updates[j], Current(j))
  /\ updates' = [updates EXCEPT ![j] =
       ProcessEnvelope(state[at[j]], @, Current(j), <<pos[j], env[j]>>)]
  /\ env' = [env EXCEPT ![j] = @ + 1]
  /\ UNCHANGED <<chain, eid, enclaveVars, pc, chan, pos, at, answer>>

\* An envelope that does not decode ends parse_block; the updates are lost.
DropBlock(j) ==
  /\ AtEnvelope(j)
  /\ RejectsBlock(Current(j))
  /\ Return(j)
  /\ UNCHANGED <<chain, eid, enclaveVars, answer>>

EnvelopeFault(j) ==
  /\ AtEnvelope(j)
  /\ \/ DereferencesNull(state[at[j]], updates[j], Current(j))
     \/ DereferencesEnd(state[at[j]], updates[j], Current(j))
  /\ Crash(j)

AtCommit(j) ==
  pc[j] = "parse" /\ Alive(at[j]) /\ env[j] = Len(TheBlock(j).txs)

\* Mutant: built with NDEBUG, the assertion is gone.
MutantNoAssertion(j) ==
  LET e == at[j]
  IN  /\ AtCommit(j)
      /\ sequence_number' = [sequence_number EXCEPT ![e] = Truncated(pos[j])]
      /\ state' = [state EXCEPT ![e] = ApplyUpdates(@, updates[j])]
      /\ log' = [log EXCEPT ![e] = Append(@, <<chan[j], pos[j]>>)]
      /\ Return(j)
      /\ UNCHANGED <<chain, eid, crashed, failed, answer>>

\* commit_state_updates with its assertion.
commit_state_updates(j) ==
  LET e == at[j]
  IN  /\ AtCommit(j)
      /\ NumberExpected(j)
      /\ sequence_number' = [sequence_number EXCEPT ![e] = Truncated(pos[j])]
      /\ state' = [state EXCEPT ![e] = ApplyUpdates(@, updates[j])]
      /\ log' = [log EXCEPT ![e] = Append(@, <<chan[j], pos[j]>>)]
      /\ Return(j)
      /\ UNCHANGED <<chain, eid, crashed, failed, answer>>

AssertFails(j) ==
  /\ AtCommit(j)
  /\ ~NumberExpected(j)
  /\ Crash(j)

----------------------------------------------------------------------------
(* VERIFY_STATE: ledger_get_state_hash of one key, or                      *)
(* ledger_get_multi_state_hash of a prefix, under the lock.  An ecall that *)
(* fails, of a live enclave or of none, leaves the zeroed cmac buffer.     *)

getStateMetadata(K) ==
  /\ \/ /\ Alive(eid)
        /\ answer' = [enclave |-> eid, view |-> [k \in K |-> state[eid][k].val]]
     \/ answer' = NoAnswer
  /\ UNCHANGED <<chain, eid, enclaveVars, readerVars>>

Step(j) ==
  \/ readBlocks(j)
  \/ EnterParseBlock(j)
  \/ EcallFails(j)
  \/ RefuseBlock(j)
  \/ ParseEnvelope(j)
  \/ DropBlock(j)
  \/ EnvelopeFault(j)
  \/ commit_state_updates(j)
  \/ AssertFails(j)

Next ==
  \/ \E c \in Channels, b \in Blocks : AppendBlock(c, b)
  \/ \E j \in Joins, c \in Channels : joinChannel(j, c)
  \/ \E j \in Joins : Step(j)
  \/ \E K \in Queries : getStateMetadata(K)

Spec == Init /\ [][Next]_vars

\* The Go scheduler runs every reader, and every critical section is finite.
FairSpec == Spec /\ \A j \in Joins : WF_vars(Step(j))

----------------------------------------------------------------------------
(* Properties *)

\* What a reader has in hand at each point of an ecall.
ReaderOK(j) ==
  /\ pc[j] # "idle" => chan[j] \in Channels
  /\ pc[j] \in {"idle", "reading", "call"} => env[j] = 0
  /\ pc[j] \in {"call", "parse", "dead"} => pos[j] < Len(chain[chan[j]])
  /\ pc[j] \in {"parse", "dead"} => at[j] \in Joins
  /\ pc[j] = "parse" => env[j] <= Len(TheBlock(j).txs)

\* Every variable has its type: sequence numbers fit their width, a reader
\* past joinChannel has a channel, and the stores map keys to entries.
TypeOK ==
  /\ chain \in [Channels -> Seq(Block)]
  /\ eid \in Joins \cup {NoEnclave}
  /\ sequence_number \in [Joins -> 0..(SeqModulus - 1)]
  /\ state \in [Joins -> kvs_t]
  /\ crashed \in [Joins -> BOOLEAN]
  /\ log \in [Joins -> Seq(Channels \X Nat)]
  /\ failed \subseteq Joins
  /\ pc \in [Joins -> {"idle", "reading", "call", "parse", "dead"}]
  /\ chan \in [Joins -> Channels \cup {NoChannel}]
  /\ pos \in [Joins -> Nat]
  /\ at \in [Joins -> Joins \cup {NoEnclave}]
  /\ env \in [Joins -> Nat]
  /\ updates \in [Joins -> kvs_t]
  /\ \A j \in Joins : ReaderOK(j)

\* An enclave commits block 0, 1, 2, ... and never skips or repeats a number,
\* whichever readers feed it and however the unlocked check in parse_block
\* interleaves with the commits of other readers.
ContiguousLog ==
  \A e \in Joins : \A i \in 1..Len(log[e]) : log[e][i][2] = i - 1

\* No entry of an enclave's state carries the version of a block that the
\* enclave has not committed.
NoFutureVersions ==
  \A e \in Joins, k \in Key :
    state[e][k] # Absent => state[e][k].ver[1] < Len(log[e])

\* A commit never replaces an entry by an older one: commit_state_updates
\* only moves the version of a key forward.
VersionsAdvance ==
  [][\A e \in Joins, k \in Key :
       state'[e][k] # state[e][k] =>
         cmp_version(state[e][k].ver, state'[e][k].ver) = -1
         \/ state[e][k] = Absent]_vars

\* The enclaves behave as if every block were applied in one step to the
\* state of the block before it, and every answer were taken between blocks.
Atomic == INSTANCE AtomicLedger WITH Enclaves <- Joins
AppliesBlocksAtomically == Atomic!Spec

\* No enclave ever aborts: the assertion of commit_state_updates holds whenever
\* it is reached, and no envelope faults.  A second reader breaks it.
NeverAborts == \A e \in Joins : ~crashed[e]

\* What breaks it: a reader fails the assertion of commit_state_updates, whose
\* number check it had passed, only with a block that another reader of the same
\* enclave has committed since.  The abort costs no block, only the enclave.
AssertionFailsOnRepeats ==
  \A j \in Joins :
    pc[j] = "dead" /\ env[j] = Len(TheBlock(j).txs) => pos[j] < Len(log[at[j]])

\* decode_pb accepts the block and each of the envelopes it does not skip.
Readable(b) == b.ok /\ \A i \in DOMAIN b.txs : ~RejectsBlock(b.txs[i])

\* "The most recent blockchain state": the enclave in use commits every block of
\* its channel, and with the chain at rest is level with it, whatever a second
\* reader sends it meanwhile.  Excused are an enclave that aborted, one that a
\* call did not reach and a chain with a block that does not decode: readBlocks
\* sends no block again, and every later one then fails the number check.
CatchesUp ==
  eid \in Joins ~>
    \/ eid = NoEnclave \/ crashed[eid] \/ eid \in failed
    \/ ~\A i \in DOMAIN chain[chan[eid]] : Readable(chain[chan[eid]][i])
    \/ Len(log[eid]) >= Len(chain[chan[eid]])
=============================================================================
