------------------------ MODULE TrustedLedgerProofs ------------------------
(***************************************************************************)
(* Proofs about TrustedLedger, for any channels, joins, blocks and keys.   *)
(* TypeCorrect needs no further assumption, and OneReaderNeverAborts holds *)
(* for chains of any length.  The other theorems are about chains shorter  *)
(* than 2^32 blocks (MaxHeight < SeqModulus): beyond that the truncated    *)
(* block number no longer identifies a block.                              *)
(***************************************************************************)
EXTENDS TrustedLedger, TLAPS

(***************************************************************************)
(* Lemmas about the operators of LedgerRules.                              *)
(***************************************************************************)

\* An entry is either Absent or a value with a version, never both.
LEMMA AbsentIsNoValue == Absent \notin kvs_value_t
BY KeysAssumption DEF Absent, kvs_value_t

\* The empty store of a fresh enclave, and of a block without updates, is a
\* store.
LEMMA EmptyKvsType == EmptyKvs \in kvs_t
BY DEF EmptyKvs, kvs_t

\* std::map::insert of pairs whose values are values yields a store.
LEMMA InsertType ==
  ASSUME NEW upd \in kvs_t, NEW pairs, NEW ver \in version_t,
         \A k \in DOMAIN pairs : pairs[k] \in Val
  PROVE  Insert(upd, pairs, ver) \in kvs_t
BY DEF Insert, kvs_t, kvs_value_t

\* A write set holds values.
LEMMA WriteValue ==
  ASSUME NEW K, NEW ws \in Seq(Write(K)), NEW i \in 1..Len(ws)
  PROVE  ws[i].val \in Val
<1>1. ws[i] \in Write(K)
  OBVIOUS
<1> QED BY <1>1 DEF Write

\* The pairs that parse_endorser_transaction inserts for each namespace carry
\* values of the write set.
LEMMA PairsType ==
  ASSUME NEW tx \in Envelope
  PROVE  /\ \A k \in DOMAIN LsccPairs(tx) : LsccPairs(tx)[k] \in Val
         /\ \A k \in DOMAIN ErccPairs(tx) : ErccPairs(tx)[k] \in Val
         /\ \A k \in DOMAIN EccPairs(tx) : EccPairs(tx)[k] \in Val
<1>1. /\ tx.lscc \in Seq(Write(LsccKeys))
      /\ tx.ercc \in Seq(Write(ErccKeys))
      /\ tx.ecc \in Seq(Write(EccKeys))
  BY DEF Envelope
<1>2. ASSUME NEW k \in DOMAIN LsccPairs(tx) PROVE LsccPairs(tx)[k] \in Val
  <2>1. k \in KeysOf(tx.lscc)
    BY DEF LsccPairs
  <2>2. PICK i \in 1..Len(tx.lscc) : tx.lscc[i].key = k
    BY <2>1 DEF KeysOf
  <2> DEFINE c == CHOOSE x \in 1..Len(tx.lscc) : tx.lscc[x].key = k
  <2>3. c \in 1..Len(tx.lscc)
    BY <2>2
  <2>4. LsccPairs(tx)[k] = tx.lscc[c].val
    BY <2>1 DEF LsccPairs
  <2> HIDE DEF c
  <2> QED BY <1>1, <2>3, <2>4, WriteValue
<1>3. ASSUME NEW k \in DOMAIN ErccPairs(tx) PROVE ErccPairs(tx)[k] \in Val
  <2>1. ErccPairs(tx)[k] = tx.ercc[1].val /\ 1 \in 1..Len(tx.ercc)
    BY <1>1, <1>3 DEF ErccPairs
  <2> QED BY <1>1, <2>1, WriteValue
<1>4. ASSUME NEW k \in DOMAIN EccPairs(tx) PROVE EccPairs(tx)[k] \in Val
  <2>1. k \in KeysOf(tx.ecc) /\ EccPairs(tx)[k] = tx.ecc[1].val
    BY DEF EccPairs
  <2>2. 1 \in 1..Len(tx.ecc)
    BY <1>1, <2>1 DEF KeysOf
  <2> QED BY <1>1, <2>1, <2>2, WriteValue
<1> QED BY <1>2, <1>3, <1>4

\* One envelope turns updates into updates.
LEMMA ProcessEnvelopeType ==
  ASSUME NEW st, NEW upd \in kvs_t, NEW tx \in Envelope, NEW ver \in version_t
  PROVE  ProcessEnvelope(st, upd, tx, ver) \in kvs_t
<1>1. Insert(upd, EccPairs(tx), ver) \in kvs_t
  BY InsertType, PairsType
<1>2. Insert(Insert(upd, EccPairs(tx), ver), ErccPairs(tx), ver) \in kvs_t
  BY <1>1, InsertType, PairsType
<1>3. Insert(Insert(Insert(upd, EccPairs(tx), ver), ErccPairs(tx), ver),
             LsccPairs(tx), ver) \in kvs_t
  BY <1>2, InsertType, PairsType
<1> QED BY <1>3 DEF ProcessEnvelope, parse_endorser_transaction

\* Every entry that an envelope adds to the updates of its block carries the
\* version of that envelope; the others are kept as they are.
LEMMA ProcessEnvelopeVersions ==
  ASSUME NEW st, NEW upd \in kvs_t, NEW tx, NEW ver, NEW k \in Key
  PROVE  \/ ProcessEnvelope(st, upd, tx, ver)[k] = upd[k]
         \/ ProcessEnvelope(st, upd, tx, ver)[k].ver = ver
<1>1. ASSUME NEW u, NEW p
      PROVE  Insert(u, p, ver)[k] = u[k] \/ Insert(u, p, ver)[k].ver = ver
  BY DEF Insert
<1> DEFINE u1 == Insert(upd, EccPairs(tx), ver)
           u2 == Insert(u1, ErccPairs(tx), ver)
           u3 == Insert(u2, LsccPairs(tx), ver)
<1>2. u1[k] = upd[k] \/ u1[k].ver = ver
  BY <1>1
<1>3. u2[k] = u1[k] \/ u2[k].ver = ver
  BY <1>1
<1>4. u3[k] = u2[k] \/ u3[k].ver = ver
  BY <1>1
<1>5. ProcessEnvelope(st, upd, tx, ver) \in {upd, u3}
  BY DEF ProcessEnvelope, parse_endorser_transaction
<1> HIDE DEF u1, u2, u3
<1> QED BY <1>2, <1>3, <1>4, <1>5

\* Committing updates to a store yields a store.
LEMMA ApplyUpdatesType ==
  ASSUME NEW st \in kvs_t, NEW upd \in kvs_t
  PROVE  ApplyUpdates(st, upd) \in kvs_t
BY DEF ApplyUpdates, kvs_t

\* A version of an earlier block compares as smaller.
LEMMA EarlierBlockIsSmaller ==
  ASSUME NEW v1 \in version_t, NEW v2 \in version_t, v1[1] < v2[1]
  PROVE  cmp_version(v1, v2) = -1
BY DEF cmp_version, version_t

----------------------------------------------------------------------------
(***************************************************************************)
(* The types of TrustedLedger.                                             *)
(***************************************************************************)

\* Appending to a history keeps its type.
LEMMA AppendInSeq ==
  ASSUME NEW S, NEW s \in Seq(S), NEW x \in S
  PROVE  Append(s, x) \in Seq(S)
OBVIOUS

\* The block a reader has in hand is a block, and so are its envelopes.
LEMMA BlockInHand ==
  ASSUME TypeOK, NEW j \in Joins, pc[j] \in {"call", "parse"}
  PROVE  /\ chan[j] \in Channels
         /\ TheBlock(j) \in Block
         /\ Len(TheBlock(j).txs) \in Nat
         /\ \A i \in 1..Len(TheBlock(j).txs) : TheBlock(j).txs[i] \in Envelope
<1>1. chan[j] \in Channels /\ pos[j] < Len(chain[chan[j]]) /\ pos[j] \in Nat
  BY DEF TypeOK, ReaderOK
<1>2. chain[chan[j]] \in Seq(Block)
  BY <1>1 DEF TypeOK
<1>3. TheBlock(j) \in Block
  BY <1>1, <1>2 DEF TheBlock
<1>4. TheBlock(j).txs \in Seq(Envelope)
  BY <1>3 DEF Block
<1> QED BY <1>1, <1>3, <1>4

\* The initial state has its type.
LEMMA InitType == Init => TypeOK
<1> SUFFICES ASSUME Init PROVE TypeOK
  OBVIOUS
<1>1. chain \in [Channels -> Seq(Block)]
  BY BlocksAssumption DEF Init
<1>2. EmptyKvs \in kvs_t
  BY EmptyKvsType
<1> QED BY <1>1, <1>2, BoundsAssumption DEF Init, TypeOK, ReaderOK

\* Appending a block keeps the blocks in hand where they are.
LEMMA AppendType ==
  ASSUME TypeOK, NEW c \in Channels, NEW b \in Block, AppendBlock(c, b)
  PROVE  TypeOK'
<1> USE DEF AppendBlock, enclaveVars, readerVars
<1>2. chain' \in [Channels -> Seq(Block)]
  BY DEF TypeOK
<1>3. ASSUME NEW d \in Channels
      PROVE  /\ Len(chain'[d]) >= Len(chain[d])
             /\ \A i \in 1..Len(chain[d]) : chain'[d][i] = chain[d][i]
  BY DEF TypeOK
<1>4. ASSUME NEW j \in Joins PROVE ReaderOK(j)'
  <2>1. CASE pc[j] \notin {"call", "parse", "dead"}
    BY <2>1 DEF TypeOK, ReaderOK
  <2>2. CASE pc[j] \in {"call", "parse", "dead"}
    <3>1. chan[j] \in Channels /\ pos[j] < Len(chain[chan[j]]) /\ pos[j] \in Nat
      BY <2>2 DEF TypeOK, ReaderOK
    <3>2. Len(chain[chan[j]]) \in Nat /\ Len(chain'[chan[j]]) \in Nat
      BY <3>1, <1>2 DEF TypeOK
    <3>3. pos[j] < Len(chain'[chan[j]]) /\ TheBlock(j)' = TheBlock(j)
      BY <3>1, <3>2, <1>3 DEF TheBlock
    <3> QED BY <3>1, <3>3 DEF TypeOK, ReaderOK
  <2> QED BY <2>1, <2>2
<1> QED BY <1>2, <1>4 DEF TypeOK

\* A step of one reader that leaves the chains alone leaves what the other
\* readers have in hand alone.
LEMMA OtherReaders ==
  ASSUME TypeOK, NEW j \in Joins, ReaderOK(j)', UNCHANGED <<chain, chan>>,
         \A i \in Joins \ {j} : /\ pc'[i] = pc[i] /\ pos'[i] = pos[i]
                                /\ at'[i] = at[i] /\ env'[i] = env[i]
  PROVE  \A i \in Joins : ReaderOK(i)'
BY Zenon DEF TypeOK, ReaderOK, TheBlock

\* Whatever a reader does, types are kept.
LEMMA StepType ==
  ASSUME TypeOK, NEW j \in Joins, Step(j)
  PROVE  TypeOK'
<1> USE DEF enclaveVars, readerVars
<1>1. CASE readBlocks(j)
  BY <1>1 DEF TypeOK, ReaderOK, readBlocks, TheBlock
<1>2. CASE EnterParseBlock(j)
  <2> USE <1>2 DEF EnterParseBlock
  <2>1. Len(TheBlock(j).txs) \in Nat /\ at[j] \in Joins
    BY BlockInHand DEF Alive
  <2>2. ReaderOK(j)
    BY DEF TypeOK
  <2>3. env[j] <= Len(TheBlock(j).txs)
    BY <2>1, <2>2 DEF ReaderOK
  <2>4. ReaderOK(j)'
    BY <2>1, <2>2, <2>3 DEF TypeOK, ReaderOK, TheBlock
  <2>5. \A i \in Joins : ReaderOK(i)'
    BY <2>4, OtherReaders DEF TypeOK
  <2> QED BY <2>5 DEF TypeOK
<1>3. CASE RefuseBlock(j)
  BY <1>3, EmptyKvsType DEF TypeOK, ReaderOK, RefuseBlock, Return, TheBlock
<1>9. CASE EcallFails(j)
  <2> USE <1>9 DEF EcallFails
  <2>1. updates' \in [Joins -> kvs_t] /\ pos' \in [Joins -> Nat] /\ env' \in [Joins -> Nat]
    BY EmptyKvsType DEF TypeOK, Return
  <2>2. ReaderOK(j)'
    BY DEF Return, ReaderOK, TypeOK
  <2>3. \A i \in Joins : ReaderOK(i)'
    BY <2>2, OtherReaders, Zenon DEF Return, TypeOK
  <2>4. failed' \subseteq Joins
    BY DEF TypeOK, Alive
  <2> QED BY <2>1, <2>3, <2>4, Zenon DEF TypeOK, Return
<1>4. CASE ParseEnvelope(j)
  <2> USE <1>4 DEF ParseEnvelope, AtEnvelope
  <2>1. Len(TheBlock(j).txs) \in Nat /\ env[j] \in Nat
    BY BlockInHand DEF TypeOK
  <2>2. env[j] + 1 \in 1..Len(TheBlock(j).txs)
    BY <2>1
  <2>3. Current(j) \in Envelope
    BY <2>2, BlockInHand DEF Current
  <2>4. <<pos[j], env[j]>> \in version_t
    BY DEF TypeOK, version_t
  <2>5. updates[j] \in kvs_t
    BY DEF TypeOK
  <2>6. ProcessEnvelope(state[at[j]], updates[j], Current(j), <<pos[j], env[j]>>) \in kvs_t
    BY ONLY <2>3, <2>4, <2>5, ProcessEnvelopeType
  <2>7. updates' \in [Joins -> kvs_t] /\ env' \in [Joins -> Nat]
    <3>1. updates \in [Joins -> kvs_t] /\ env \in [Joins -> Nat]
      BY ONLY TypeOK DEF TypeOK
    <3>2. updates' = [updates EXCEPT ![j] =
            ProcessEnvelope(state[at[j]], updates[j], Current(j), <<pos[j], env[j]>>)]
      BY ONLY <1>4 DEF ParseEnvelope
    <3>3. env' = [env EXCEPT ![j] = env[j] + 1]
      BY ONLY <1>4 DEF ParseEnvelope
    <3>4. updates' \in [Joins -> kvs_t]
      BY ONLY <2>6, <3>1, <3>2
    <3>5. env' \in [Joins -> Nat]
      BY ONLY <3>1, <3>3
    <3> QED BY ONLY <3>4, <3>5
  <2>8. ReaderOK(j)'
    BY <2>2 DEF TypeOK, ReaderOK, TheBlock
  <2>9. \A i \in Joins : ReaderOK(i)'
    BY <2>8, OtherReaders, Zenon DEF TypeOK
  <2> QED BY <2>7, <2>9, Zenon DEF TypeOK
<1>5. CASE DropBlock(j)
  <2> USE <1>5 DEF DropBlock, AtEnvelope
  <2>1. updates' \in [Joins -> kvs_t] /\ pos' \in [Joins -> Nat] /\ env' \in [Joins -> Nat]
    BY EmptyKvsType DEF TypeOK, Return
  <2>2. ReaderOK(j)'
    BY DEF Return, ReaderOK, TypeOK
  <2>3. \A i \in Joins : ReaderOK(i)'
    BY <2>2, OtherReaders, Zenon DEF Return, TypeOK
  <2> QED BY <2>1, <2>3, Zenon DEF TypeOK, Return
<1>6. CASE EnvelopeFault(j)
  BY <1>6, Zenon DEF TypeOK, ReaderOK, EnvelopeFault, AtEnvelope, Crash, TheBlock
<1>7. CASE commit_state_updates(j)
  <2> USE <1>7 DEF commit_state_updates, AtCommit
  <2>1. at[j] \in Joins /\ chan[j] \in Channels /\ pos[j] \in Nat
    BY DEF TypeOK, ReaderOK
  <2>2. Truncated(pos[j]) \in 0..(SeqModulus - 1)
    BY ONLY <2>1, BoundsAssumption DEF Truncated
  <2>3. ApplyUpdates(state[at[j]], updates[j]) \in kvs_t
    BY <2>1, ApplyUpdatesType DEF TypeOK
  <2>4. log' \in [Joins -> Seq(Channels \X Nat)]
    <3>1. Append(log[at[j]], <<chan[j], pos[j]>>) \in Seq(Channels \X Nat)
      <4>1. log[at[j]] \in Seq(Channels \X Nat) /\ <<chan[j], pos[j]>> \in Channels \X Nat
        BY <2>1 DEF TypeOK
      <4> QED BY <4>1, AppendInSeq
    <3> QED BY <2>1, <3>1 DEF TypeOK
  <2>5. sequence_number' \in [Joins -> 0..(SeqModulus - 1)] /\ state' \in [Joins -> kvs_t]
    BY <2>1, <2>2, <2>3 DEF TypeOK
  <2>6. updates' \in [Joins -> kvs_t] /\ pos' \in [Joins -> Nat] /\ env' \in [Joins -> Nat]
    BY EmptyKvsType DEF TypeOK, Return
  <2>7. ReaderOK(j)'
    BY <2>1 DEF Return, ReaderOK, TypeOK
  <2>8. \A i \in Joins : ReaderOK(i)'
    BY <2>7, OtherReaders, Zenon DEF Return, TypeOK
  <2> QED BY <2>4, <2>5, <2>6, <2>8, Zenon DEF TypeOK, Return
<1>8. CASE AssertFails(j)
  BY <1>8, Zenon DEF TypeOK, ReaderOK, AssertFails, AtCommit, Crash, TheBlock
<1> QED BY <1>1, <1>2, <1>3, <1>4, <1>5, <1>6, <1>7, <1>8, <1>9 DEF Step

\* Every step of the specification keeps the types.
LEMMA NextType == TypeOK /\ [Next]_vars => TypeOK'
<1> SUFFICES ASSUME TypeOK, [Next]_vars PROVE TypeOK'
  OBVIOUS
<1>1. ASSUME NEW c \in Channels, NEW b \in Blocks, AppendBlock(c, b) PROVE TypeOK'
  BY <1>1, AppendType, BlocksAssumption
<1>2. ASSUME NEW j \in Joins, NEW c \in Channels, joinChannel(j, c) PROVE TypeOK'
  BY <1>2 DEF joinChannel, TypeOK, ReaderOK, enclaveVars, TheBlock
<1>3. ASSUME NEW j \in Joins, Step(j) PROVE TypeOK'
  BY <1>3, StepType
<1>4. ASSUME NEW K \in Queries, getStateMetadata(K) PROVE TypeOK'
  BY <1>4 DEF getStateMetadata, TypeOK, ReaderOK, enclaveVars, readerVars, TheBlock
<1>5. CASE UNCHANGED vars
  BY <1>5 DEF vars, TypeOK, ReaderOK, enclaveVars, readerVars, TheBlock
<1> QED BY <1>1, <1>2, <1>3, <1>4, <1>5 DEF Next

\* Type correctness of the trusted ledger: sequence numbers stay in their
\* width, stores stay maps from keys to entries, and a reader inside an ecall
\* always has a block of its channel in hand.
THEOREM TypeCorrect == Spec => []TypeOK
BY InitType, NextType, PTL DEF Spec

----------------------------------------------------------------------------
(***************************************************************************)
(* The inductive invariant.  The number check of parse_block and the       *)
(* assertion of commit_state_updates compare a block number with the       *)
(* sequence number of the enclave, at two moments; other readers may       *)
(* commit in between.  ReaderInv says what a reader may rely on until then:*)
(* its block is not ahead of the enclave, and as long as nobody has        *)
(* committed since the check, its updates are those of the first env       *)
(* envelopes run against the current state of the enclave.                 *)
(***************************************************************************)

ChainInv == \A c \in Channels : Len(chain[c]) \in 1..MaxHeight

EnclaveInv(e) ==
  /\ Len(log[e]) <= MaxHeight
  /\ NextSequenceNumber(sequence_number[e]) = Len(log[e])
  /\ \A i \in 1..Len(log[e]) : log[e][i][2] = i - 1
  /\ \A k \in Key : state[e][k] # Absent => state[e][k].ver[1] < Len(log[e])

\* h is the run of block b, number n, against the state st.
IsRun(h, st, b, n) ==
  h = [i \in 0..Len(b.txs) |->
         IF i = 0 THEN EmptyKvs
         ELSE ProcessEnvelope(st, h[i-1], b.txs[i], <<n, i-1>>)]

\* g is the run of the first m envelopes of b, and ends in upd.
IsPrefixRun(g, m, upd, st, b, n) ==
  /\ g \in [0..m -> kvs_t]
  /\ g[0] = EmptyKvs
  /\ \A i \in 1..m : g[i] = ProcessEnvelope(st, g[i-1], b.txs[i], <<n, i-1>>)
  /\ g[m] = upd

\* The first m envelopes of b, run against st, end in upd.  Stated from below
\* (a prefix run exists) and from above (every full run passes through upd),
\* which spares an induction over the envelopes.
RunsTo(m, upd, st, b, n) ==
  /\ \E g : IsPrefixRun(g, m, upd, st, b, n)
  /\ \A h : IsRun(h, st, b, n) => h[m] = upd

ReaderInv(j) ==
  /\ pc[j] \notin {"parse", "dead"} => updates[j] = EmptyKvs
  /\ \A k \in Key : updates[j][k] # Absent => updates[j][k].ver[1] = pos[j]
  /\ pc[j] = "parse" => pos[j] <= Len(log[at[j]])
  /\ (pc[j] = "parse" /\ pos[j] = Len(log[at[j]])) =>
       RunsTo(env[j], updates[j], state[at[j]], TheBlock(j), pos[j])

LedgerInv ==
  /\ TypeOK
  /\ ChainInv
  /\ \A e \in Joins : EnclaveInv(e)
  /\ \A j \in Joins : ReaderInv(j)

\* Below 2^32 blocks the truncation loses nothing: the number check compares
\* the number of the block with the number of blocks the enclave committed.
LEMMA NumberCheck ==
  ASSUME LedgerInv, MaxHeight < SeqModulus, NEW j \in Joins,
         pc[j] \in {"call", "parse"}, at[j] \in Joins
  PROVE  /\ Truncated(pos[j]) = pos[j]
         /\ pos[j] \in 0..(MaxHeight - 1)
         /\ NumberExpected(j) <=> pos[j] = Len(log[at[j]])
<1>1. pos[j] \in Nat /\ chan[j] \in Channels /\ pos[j] < Len(chain[chan[j]])
  BY DEF LedgerInv, TypeOK, ReaderOK
<1>2. Len(chain[chan[j]]) \in 1..MaxHeight
  BY <1>1 DEF LedgerInv, ChainInv
<1>3. pos[j] \in 0..(MaxHeight - 1) /\ pos[j] < SeqModulus
  BY <1>1, <1>2, BoundsAssumption
<1>4. Truncated(pos[j]) = pos[j]
  BY <1>3, BoundsAssumption DEF Truncated
<1>5. NextSequenceNumber(sequence_number[at[j]]) = Len(log[at[j]])
  BY DEF LedgerInv, EnclaveInv
<1> QED BY <1>3, <1>4, <1>5 DEF NumberExpected

\* Before the first envelope the updates are empty.
LEMMA RunStart ==
  ASSUME NEW st, NEW b \in Block, NEW n
  PROVE  RunsTo(0, EmptyKvs, st, b, n)
<1>1. IsPrefixRun([i \in 0..0 |-> EmptyKvs], 0, EmptyKvs, st, b, n)
  BY EmptyKvsType DEF IsPrefixRun
<1>2. Len(b.txs) \in Nat
  BY DEF Block
<1>3. ASSUME NEW h, IsRun(h, st, b, n) PROVE h[0] = EmptyKvs
  BY <1>2, <1>3 DEF IsRun
<1> QED BY <1>1, <1>3 DEF RunsTo

\* One more envelope extends the run.
LEMMA RunExtend ==
  ASSUME NEW st, NEW b \in Block, NEW n \in Nat, NEW m \in Nat, m < Len(b.txs),
         NEW upd, RunsTo(m, upd, st, b, n)
  PROVE  RunsTo(m + 1, ProcessEnvelope(st, upd, b.txs[m+1], <<n, m>>), st, b, n)
<1> DEFINE new == ProcessEnvelope(st, upd, b.txs[m+1], <<n, m>>)
<1>1. PICK g : IsPrefixRun(g, m, upd, st, b, n)
  BY DEF RunsTo
<1>2. Len(b.txs) \in Nat /\ b.txs[m+1] \in Envelope
  <2>1. b.txs \in Seq(Envelope)
    BY DEF Block
  <2> QED BY <2>1
<1>3. upd \in kvs_t /\ new \in kvs_t
  <2>1. upd \in kvs_t
    BY <1>1 DEF IsPrefixRun
  <2>2. <<n, m>> \in version_t
    BY DEF version_t
  <2> QED BY <2>1, <2>2, <1>2, ProcessEnvelopeType
<1> DEFINE f == [i \in 0..(m+1) |-> IF i <= m THEN g[i] ELSE new]
<1>4. IsPrefixRun(f, m + 1, new, st, b, n)
  <2> HIDE DEF new
  <2>1. f \in [0..(m+1) -> kvs_t] /\ f[0] = EmptyKvs /\ f[m+1] = new
    BY <1>1, <1>3 DEF IsPrefixRun
  <2>2. ASSUME NEW i \in 1..(m+1)
        PROVE  f[i] = ProcessEnvelope(st, f[i-1], b.txs[i], <<n, i-1>>)
    <3>1. CASE i <= m
      BY <1>1, <3>1 DEF IsPrefixRun
    <3>2. CASE i = m + 1
      <4>1. i - 1 = m /\ ~(i <= m) /\ m \in 0..(m+1)
        BY <3>2
      <4>2. f[i] = new
        BY <4>1
      <4>3. f[m] = g[m]
        BY <4>1
      <4>4. g[m] = upd
        BY <1>1 DEF IsPrefixRun
      <4> HIDE DEF f
      <4> QED BY <4>1, <4>2, <4>3, <4>4, <3>2 DEF new
    <3> QED BY <3>1, <3>2
  <2> HIDE DEF f
  <2> QED BY <2>1, <2>2 DEF IsPrefixRun
<1>5. ASSUME NEW h, IsRun(h, st, b, n) PROVE h[m+1] = new
  <2>1. h[m] = upd
    BY <1>5 DEF RunsTo
  <2>2. h[m+1] = ProcessEnvelope(st, h[m], b.txs[m+1], <<n, m>>)
    <3>1. m + 1 \in 0..Len(b.txs) /\ m + 1 # 0 /\ (m + 1) - 1 = m
      BY <1>2
    <3> QED BY <1>5, <3>1 DEF IsRun
  <2> QED BY <2>1, <2>2
<1> HIDE DEF new, f
<1>6. \E x : IsPrefixRun(x, m + 1, new, st, b, n)
  BY <1>4
<1>7. RunsTo(m + 1, new, st, b, n)
  BY <1>5, <1>6 DEF RunsTo
<1> QED BY <1>7 DEF new

\* A complete run determines what AtomicLedger applies.
LEMMA RunComplete ==
  ASSUME NEW st, NEW b \in Block, NEW n, NEW upd,
         RunsTo(Len(b.txs), upd, st, b, n)
  PROVE  \E h : IsRun(h, st, b, n) /\ h[Len(b.txs)] = upd
<1>1. PICK g : IsPrefixRun(g, Len(b.txs), upd, st, b, n)
  BY DEF RunsTo
<1>2. Len(b.txs) \in Nat
  BY DEF Block
<1> DEFINE f == [i \in 0..Len(b.txs) |->
                   IF i = 0 THEN EmptyKvs
                   ELSE ProcessEnvelope(st, g[i-1], b.txs[i], <<n, i-1>>)]
<1>3. ASSUME NEW i \in 0..Len(b.txs) PROVE g[i] = f[i]
  <2>1. CASE i = 0
    BY <1>1, <2>1 DEF IsPrefixRun
  <2>2. CASE i \in 1..Len(b.txs)
    <3>1. g[i] = ProcessEnvelope(st, g[i-1], b.txs[i], <<n, i-1>>)
      BY <1>1, <2>2 DEF IsPrefixRun
    <3>2. i # 0
      BY <2>2
    <3> QED BY <3>1, <3>2
  <2> QED BY <1>2, <2>1, <2>2
<1>4. g = f
  <2>1. g = [i \in 0..Len(b.txs) |-> g[i]]
    BY <1>1 DEF IsPrefixRun
  <2>2. f = [i \in 0..Len(b.txs) |-> f[i]]
    OBVIOUS
  <2> HIDE DEF f
  <2> QED BY <2>1, <2>2, <1>3
<1>5. IsRun(g, st, b, n)
  BY <1>4 DEF IsRun
<1>6. g[Len(b.txs)] = upd
  BY <1>1 DEF IsPrefixRun
<1> QED BY <1>5, <1>6

\* The initial state satisfies the invariant.
LEMMA InitInv == ASSUME MaxHeight < SeqModulus PROVE Init => LedgerInv
<1> SUFFICES ASSUME Init PROVE LedgerInv
  OBVIOUS
<1>1. TypeOK
  BY InitType
<1>2. ChainInv
  BY BoundsAssumption DEF Init, ChainInv
<1>3. ASSUME NEW e \in Joins PROVE EnclaveInv(e)
  BY BoundsAssumption DEF Init, EnclaveInv, NextSequenceNumber, EmptyKvs
<1>4. ASSUME NEW j \in Joins PROVE ReaderInv(j)
  BY DEF Init, ReaderInv, EmptyKvs
<1> QED BY <1>1, <1>2, <1>3, <1>4 DEF LedgerInv

\* A reader's part of the invariant survives every step that changes neither
\* the reader nor the block and the enclave it works on.
LEMMA ReaderFrame ==
  ASSUME NEW i \in Joins, ReaderInv(i),
         pc'[i] = pc[i], pos'[i] = pos[i], at'[i] = at[i],
         env'[i] = env[i], updates'[i] = updates[i],
         pc[i] = "parse" => /\ TheBlock(i)' = TheBlock(i)
                            /\ log'[at[i]] = log[at[i]]
                            /\ state'[at[i]] = state[at[i]]
  PROVE  ReaderInv(i)'
BY DEF ReaderInv

\* Without a commit an enclave's part of the invariant survives.
LEMMA EnclaveFrame ==
  ASSUME NEW e \in Joins, EnclaveInv(e), UNCHANGED <<log, state, sequence_number>>
  PROVE  EnclaveInv(e)'
BY DEF EnclaveInv

\* The step of one reader that leaves chains and enclaves alone only has to
\* keep that reader's part of the invariant.
LEMMA OneReaderMoves ==
  ASSUME LedgerInv, TypeOK', NEW j \in Joins, ReaderInv(j)',
         UNCHANGED <<chain, chan, log, state, sequence_number>>,
         \A i \in Joins \ {j} : /\ pc'[i] = pc[i] /\ pos'[i] = pos[i]
                                /\ at'[i] = at[i] /\ env'[i] = env[i]
                                /\ updates'[i] = updates[i]
  PROVE  LedgerInv'
<1>1. ChainInv'
  BY DEF LedgerInv, ChainInv
<1>2. ASSUME NEW e \in Joins PROVE EnclaveInv(e)'
  BY EnclaveFrame DEF LedgerInv
<1>3. ASSUME NEW i \in Joins \ {j} PROVE ReaderInv(i)'
  <2>1. TheBlock(i)' = TheBlock(i)
    BY DEF TheBlock
  <2> QED BY <2>1, ReaderFrame DEF LedgerInv
<1> QED BY <1>1, <1>2, <1>3 DEF LedgerInv

\* A reader whose ecall has returned has empty updates.
LEMMA ReturnInv ==
  ASSUME TypeOK, NEW j \in Joins, Return(j)
  PROVE  /\ ReaderInv(j)'
         /\ \A i \in Joins \ {j} : /\ pc'[i] = pc[i] /\ pos'[i] = pos[i]
                                   /\ at'[i] = at[i] /\ env'[i] = env[i]
                                   /\ updates'[i] = updates[i]
BY DEF Return, ReaderInv, TypeOK, EmptyKvs

\* Passing the number check: the block is the one the enclave expects and the
\* updates are still empty.
LEMMA EnterInv ==
  ASSUME LedgerInv, MaxHeight < SeqModulus, NEW j \in Joins, EnterParseBlock(j)
  PROVE  LedgerInv'
<1> USE DEF EnterParseBlock
<1>1. TypeOK /\ TypeOK' /\ ReaderInv(j) /\ ReaderOK(j)
  BY StepType, Zenon DEF LedgerInv, Step, TypeOK
<1>2. at[j] \in Joins /\ pos[j] = Len(log[at[j]])
  BY NumberCheck DEF Alive
<1>3. env[j] = 0 /\ updates[j] = EmptyKvs
  BY <1>1 DEF ReaderOK, ReaderInv
<1>4. TheBlock(j) \in Block
  BY <1>1, BlockInHand
<1>5. RunsTo(env[j], updates[j], state[at[j]], TheBlock(j), pos[j])
  BY <1>3, <1>4, RunStart
<1>6. TheBlock(j)' = TheBlock(j)
  BY DEF TheBlock
<1>7. /\ pos' = pos /\ at' = at /\ env' = env /\ updates' = updates
      /\ state' = state /\ log' = log
  BY DEF enclaveVars
<1>8. pos[j] <= Len(log[at[j]])
  BY <1>1, <1>2 DEF TypeOK
<1>9. ReaderInv(j)'
  BY <1>1, <1>5, <1>6, <1>7, <1>8, Zenon DEF ReaderInv
<1>10. \A i \in Joins \ {j} : pc'[i] = pc[i]
  BY <1>1 DEF TypeOK
<1> QED BY <1>1, <1>7, <1>9, <1>10, OneReaderMoves DEF enclaveVars

\* One envelope: the run grows by it, and what it adds has its version.
LEMMA ParseInv ==
  ASSUME LedgerInv, NEW j \in Joins, ParseEnvelope(j)
  PROVE  LedgerInv'
<1> USE DEF ParseEnvelope, AtEnvelope
<1> DEFINE new == ProcessEnvelope(state[at[j]], updates[j], Current(j), <<pos[j], env[j]>>)
<1>1. TypeOK /\ TypeOK' /\ ReaderInv(j)
  BY StepType, Zenon DEF LedgerInv, Step
<1>2. TheBlock(j) \in Block
  BY <1>1, BlockInHand, Zenon
<1>3. updates'[j] = new /\ env'[j] = env[j] + 1
  BY <1>1 DEF TypeOK
<1>4. /\ pc' = pc /\ pos' = pos /\ at' = at /\ chan' = chan /\ chain' = chain
      /\ state' = state /\ log' = log /\ sequence_number' = sequence_number
  BY DEF enclaveVars
<1>5. TheBlock(j)' = TheBlock(j)
  BY <1>4 DEF TheBlock
<1> HIDE DEF new
<1>6. ASSUME NEW k \in Key, new[k] # Absent PROVE new[k].ver[1] = pos[j]
  <2>1. new[k] = updates[j][k] \/ new[k].ver = <<pos[j], env[j]>>
    <3>1. updates[j] \in kvs_t
      BY <1>1 DEF TypeOK
    <3>2. ASSUME NEW st, NEW tx, NEW ver
          PROVE  \/ ProcessEnvelope(st, updates[j], tx, ver)[k] = updates[j][k]
                 \/ ProcessEnvelope(st, updates[j], tx, ver)[k].ver = ver
      BY ONLY <3>1, k \in Key, ProcessEnvelopeVersions
    <3> QED BY ONLY <3>2 DEF new
  <2>2. updates[j][k] # Absent => updates[j][k].ver[1] = pos[j]
    BY ONLY <1>1 DEF ReaderInv
  <2> QED BY ONLY <1>6, <2>1, <2>2
<1>7. ASSUME pos[j] = Len(log[at[j]])
      PROVE  RunsTo(env[j] + 1, new, state[at[j]], TheBlock(j), pos[j])
  <2>1. RunsTo(env[j], updates[j], state[at[j]], TheBlock(j), pos[j])
    BY <1>1, <1>7, Zenon DEF ReaderInv
  <2>2. env[j] \in Nat /\ pos[j] \in Nat
    BY <1>1 DEF TypeOK
  <2> QED BY <1>2, <2>1, <2>2, RunExtend, Zenon DEF Current, new
<1>8. ReaderInv(j)'
  BY <1>1, <1>3, <1>4, <1>5, <1>6, <1>7, Zenon DEF ReaderInv
<1>9. \A i \in Joins \ {j} : env'[i] = env[i] /\ updates'[i] = updates[i]
  BY <1>1 DEF TypeOK
<1> QED BY <1>1, <1>4, <1>8, <1>9, OneReaderMoves, Zenon

\* The commit: the enclave moves to the next number, and every other reader
\* inside it falls behind.
LEMMA CommitInv ==
  ASSUME LedgerInv, MaxHeight < SeqModulus, NEW j \in Joins, commit_state_updates(j)
  PROVE  LedgerInv'
<1> USE DEF commit_state_updates, AtCommit
<1>0. PICK e \in Joins : e = at[j]
  BY DEF Alive
<1>1. TypeOK /\ TypeOK' /\ ReaderInv(j) /\ EnclaveInv(e)
  BY StepType, Zenon DEF LedgerInv, Step
<1>2. /\ Truncated(pos[j]) = pos[j] /\ pos[j] \in 0..(MaxHeight - 1)
      /\ pos[j] = Len(log[e])
  BY <1>0, NumberCheck
<1>3. /\ log[e] \in Seq(Channels \X Nat)
      /\ log'[e] = Append(log[e], <<chan[j], pos[j]>>)
      /\ state'[e] = ApplyUpdates(state[e], updates[j])
      /\ sequence_number'[e] = pos[j]
  BY <1>0, <1>1, <1>2, Zenon DEF TypeOK
<1>4. ASSUME NEW d \in Joins \ {e}
      PROVE  log'[d] = log[d] /\ state'[d] = state[d] /\ sequence_number'[d] = sequence_number[d]
  BY <1>0, <1>1 DEF TypeOK
<1>5. Len(log'[e]) = Len(log[e]) + 1 /\ Len(log[e]) \in Nat
  BY ONLY <1>3
<1>6. EnclaveInv(e)'
  <2>1. Len(log'[e]) <= MaxHeight
    BY ONLY <1>2, <1>5, BoundsAssumption
  <2>2. NextSequenceNumber(pos[j]) = Len(log'[e])
    BY ONLY <1>2, <1>5, BoundsAssumption, MaxHeight < SeqModulus DEF NextSequenceNumber
  <2>3. ASSUME NEW i \in 1..Len(log'[e]) PROVE log'[e][i][2] = i - 1
    <3>1. CASE i \in 1..Len(log[e])
      <4>1. log'[e][i] = log[e][i]
        BY ONLY <1>3, <3>1
      <4> QED BY <1>1, <4>1, <3>1, Zenon DEF EnclaveInv
    <3>2. CASE i = Len(log[e]) + 1
      <4>1. log'[e][i] = <<chan[j], pos[j]>>
        <5> DEFINE last == <<chan[j], pos[j]>>
        <5> HIDE DEF last
        <5>1. log[e] \in Seq(Channels \X Nat) /\ log'[e] = Append(log[e], last)
          BY ONLY <1>3 DEF last
        <5>2. log'[e][i] = last
          BY ONLY <5>1, <3>2
        <5> QED BY ONLY <5>2 DEF last
      <4> QED BY ONLY <1>2, <4>1, <3>2, <1>5
    <3> QED BY ONLY <3>1, <3>2, <1>5
  <2>4. ASSUME NEW k \in Key, state'[e][k] # Absent
        PROVE  state'[e][k].ver[1] < Len(log'[e])
    <3>0. /\ \A v \in Nat : v < Len(log[e]) => v < Len(log'[e])
          /\ Len(log[e]) < Len(log'[e])
      BY ONLY <1>5
    <3>1. state'[e][k] = IF updates[j][k] = Absent THEN state[e][k] ELSE updates[j][k]
      BY <1>3 DEF ApplyUpdates
    <3>2. CASE updates[j][k] = Absent
      <4>0. state[e] \in kvs_t
        BY <1>1 DEF TypeOK
      <4>1. state[e][k] # Absent /\ state[e][k] \in kvs_value_t
        BY ONLY <4>0, <2>4, <3>1, <3>2 DEF kvs_t
      <4>2. state[e][k].ver[1] < Len(log[e]) /\ state[e][k].ver[1] \in Nat
        BY <1>1, <4>1 DEF EnclaveInv, kvs_value_t, version_t
      <4>3. state'[e][k] = state[e][k]
        BY ONLY <3>1, <3>2
      <4> QED BY ONLY <4>2, <4>3, <3>0, Zenon
    <3>3. CASE updates[j][k] # Absent
      <4>1. updates[j][k].ver[1] = pos[j]
        BY <1>1, <3>3, Zenon DEF ReaderInv
      <4>2. state'[e][k].ver[1] = Len(log[e])
        BY ONLY <4>1, <3>1, <3>3, <1>2
      <4> QED BY ONLY <4>2, <3>0, Zenon
    <3> QED BY <3>2, <3>3
  <2> QED BY <1>3, <2>1, <2>2, <2>3, <2>4, Zenon DEF EnclaveInv, NextSequenceNumber
<1>7. ASSUME NEW d \in Joins \ {e} PROVE EnclaveInv(d)'
  <2>1. EnclaveInv(d)
    BY DEF LedgerInv
  <2>2. log'[d] = log[d] /\ state'[d] = state[d] /\ sequence_number'[d] = sequence_number[d]
    BY <1>4
  <2> QED BY ONLY <2>1, <2>2 DEF EnclaveInv, NextSequenceNumber
<1>8. ChainInv'
  BY DEF LedgerInv, ChainInv
<1>9. ReaderInv(j)'
  BY <1>1, ReturnInv, Zenon
<1>10. ASSUME NEW i \in Joins \ {j} PROVE ReaderInv(i)'
  <2>1. /\ pc'[i] = pc[i] /\ pos'[i] = pos[i] /\ at'[i] = at[i]
        /\ env'[i] = env[i] /\ updates'[i] = updates[i]
    BY <1>1, ReturnInv, Zenon
  <2>2. ReaderInv(i) /\ TheBlock(i)' = TheBlock(i)
    BY <2>1, Zenon DEF LedgerInv, TheBlock, Return
  <2>3. CASE pc[i] = "parse" /\ at[i] = e
    <3>1. pos[i] <= Len(log[e]) /\ pos[i] \in Nat
      BY <1>1, <2>2, <2>3, Zenon DEF ReaderInv, TypeOK
    <3>2. pos[i] <= Len(log'[e]) /\ pos[i] # Len(log'[e])
      BY ONLY <3>1, <1>5
    <3> QED BY <2>1, <2>2, <2>3, <3>2, Zenon DEF ReaderInv
  <2>4. CASE pc[i] = "parse" /\ at[i] # e
    <3>1. at[i] \in Joins \ {e}
      BY <1>1, <2>4 DEF TypeOK, ReaderOK
    <3> QED BY <2>1, <2>2, <3>1, <1>4, ReaderFrame, Zenon
  <2>5. CASE pc[i] # "parse"
    BY <2>1, <2>2, <2>5, ReaderFrame, Zenon
  <2> QED BY <2>3, <2>4, <2>5, Zenon
<1> QED BY <1>1, <1>6, <1>7, <1>8, <1>9, <1>10 DEF LedgerInv

\* An abort changes nothing but the abort flag and its reader's place.
LEMMA CrashInv ==
  ASSUME LedgerInv, TypeOK', NEW j \in Joins, Crash(j), pc[j] = "parse"
  PROVE  LedgerInv'
<1> USE DEF Crash
<1>1. ReaderInv(j)'
  BY Zenon DEF LedgerInv, ReaderInv, TypeOK
<1>2. \A i \in Joins \ {j} : pc'[i] = pc[i]
  BY DEF LedgerInv, TypeOK
<1> QED BY <1>1, <1>2, OneReaderMoves, Zenon

\* An ecall that fails changes nothing in the enclave, only its reader's place.
LEMMA FailedCallInv ==
  ASSUME LedgerInv, TypeOK', NEW j \in Joins, Return(j),
         UNCHANGED <<chain, log, state, sequence_number>>
  PROVE  LedgerInv'
<1>1. TypeOK /\ UNCHANGED <<chain, chan, log, state, sequence_number>>
  BY DEF LedgerInv, Return
<1> QED BY <1>1, ReturnInv, OneReaderMoves, Zenon

\* Every step of a reader keeps the invariant.
LEMMA StepInv ==
  ASSUME LedgerInv, MaxHeight < SeqModulus, NEW j \in Joins, Step(j)
  PROVE  LedgerInv'
<1>1. TypeOK /\ TypeOK'
  BY StepType DEF LedgerInv
<1>2. CASE readBlocks(j)
  <2> USE <1>2 DEF readBlocks, enclaveVars
  <2>1. ReaderInv(j)'
    BY Zenon DEF LedgerInv, ReaderInv, TypeOK
  <2>2. \A i \in Joins \ {j} : pc'[i] = pc[i] /\ at'[i] = at[i]
    BY <1>1 DEF TypeOK
  <2> QED BY <1>1, <2>1, <2>2, OneReaderMoves
<1>3. CASE EnterParseBlock(j)
  BY <1>3, EnterInv
<1>4. CASE RefuseBlock(j)
  BY <1>1, <1>4, FailedCallInv, Zenon DEF RefuseBlock, enclaveVars
<1>10. CASE EcallFails(j)
  BY <1>1, <1>10, FailedCallInv, Zenon DEF EcallFails
<1>5. CASE ParseEnvelope(j)
  BY <1>5, ParseInv
<1>6. CASE DropBlock(j)
  BY <1>1, <1>6, FailedCallInv DEF DropBlock, enclaveVars
<1>7. CASE EnvelopeFault(j)
  BY <1>1, <1>7, CrashInv DEF EnvelopeFault, AtEnvelope
<1>8. CASE commit_state_updates(j)
  BY <1>8, CommitInv
<1>9. CASE AssertFails(j)
  BY <1>1, <1>9, CrashInv DEF AssertFails, AtCommit
<1> QED BY <1>2, <1>3, <1>4, <1>5, <1>6, <1>7, <1>8, <1>9, <1>10 DEF Step

\* A new block at the end of a chain is nobody's block in hand.
LEMMA AppendInv ==
  ASSUME LedgerInv, NEW c \in Channels, NEW b \in Block, AppendBlock(c, b)
  PROVE  LedgerInv'
<1> USE DEF AppendBlock, enclaveVars, readerVars
<1>1. TypeOK /\ TypeOK'
  BY AppendType, Zenon DEF LedgerInv
<1>2. ASSUME NEW d \in Channels
      PROVE  /\ Len(chain'[d]) \in 1..MaxHeight
             /\ Len(chain[d]) \in Nat
             /\ \A i \in 1..Len(chain[d]) : chain'[d][i] = chain[d][i]
  <2>1. chain[d] \in Seq(Block) /\ Len(chain[d]) \in 1..MaxHeight
    BY <1>1 DEF LedgerInv, ChainInv, TypeOK
  <2>2. chain'[d] = IF d = c THEN Append(chain[d], b) ELSE chain[d]
    BY <1>1 DEF TypeOK
  <2> QED BY <1>1, <2>1, <2>2, BoundsAssumption
<1>3. ChainInv'
  BY <1>2 DEF ChainInv
<1>4. ASSUME NEW e \in Joins PROVE EnclaveInv(e)'
  BY EnclaveFrame DEF LedgerInv
<1>5. ASSUME NEW i \in Joins PROVE ReaderInv(i)'
  <2>1. ASSUME pc[i] = "parse" PROVE TheBlock(i)' = TheBlock(i)
    <3>1. chan[i] \in Channels /\ pos[i] \in Nat /\ pos[i] < Len(chain[chan[i]])
      BY <1>1, <2>1 DEF TypeOK, ReaderOK
    <3>2. pos[i] + 1 \in 1..Len(chain[chan[i]])
      BY <3>1, <1>2
    <3>3. chain'[chan[i]][pos[i] + 1] = chain[chan[i]][pos[i] + 1]
      BY ONLY <3>1, <3>2, <1>2
    <3>4. chan' = chan /\ pos' = pos
      OBVIOUS
    <3> QED BY ONLY <3>3, <3>4 DEF TheBlock
  <2> QED BY <2>1, ReaderFrame DEF LedgerInv
<1> QED BY <1>1, <1>3, <1>4, <1>5 DEF LedgerInv

\* Every step of the specification keeps the invariant.
LEMMA NextInv ==
  ASSUME MaxHeight < SeqModulus
  PROVE  LedgerInv /\ [Next]_vars => LedgerInv'
<1> SUFFICES ASSUME LedgerInv, [Next]_vars PROVE LedgerInv'
  OBVIOUS
<1> USE DEF enclaveVars, readerVars
<1>1. TypeOK /\ TypeOK'
  BY NextType DEF LedgerInv
<1>2. ASSUME NEW c \in Channels, NEW b \in Blocks, AppendBlock(c, b) PROVE LedgerInv'
  BY <1>2, AppendInv, BlocksAssumption
<1>3. ASSUME NEW j \in Joins, NEW c \in Channels, joinChannel(j, c) PROVE LedgerInv'
  <2> USE <1>3 DEF joinChannel
  <2>1. ChainInv' /\ \A e \in Joins : EnclaveInv(e)'
    BY EnclaveFrame DEF LedgerInv, ChainInv
  <2>2. ReaderInv(j)'
    BY <1>1, Zenon DEF LedgerInv, ReaderInv, TypeOK
  <2>3. ASSUME NEW i \in Joins \ {j} PROVE ReaderInv(i)'
    <3>1. pc'[i] = pc[i] /\ TheBlock(i)' = TheBlock(i)
      BY <1>1 DEF TypeOK, TheBlock
    <3> QED BY <3>1, ReaderFrame, Zenon DEF LedgerInv
  <2> QED BY <1>1, <2>1, <2>2, <2>3 DEF LedgerInv
<1>4. ASSUME NEW j \in Joins, Step(j) PROVE LedgerInv'
  BY <1>4, StepInv
<1>5. ASSUME UNCHANGED <<chain, eid, enclaveVars, readerVars>> PROVE LedgerInv'
  <2>1. ChainInv' /\ \A e \in Joins : EnclaveInv(e)'
    BY <1>5, EnclaveFrame DEF LedgerInv, ChainInv
  <2>2. ASSUME NEW i \in Joins PROVE ReaderInv(i)'
    <3>1. TheBlock(i)' = TheBlock(i)
      BY <1>5 DEF TheBlock
    <3> QED BY <1>5, <3>1, ReaderFrame DEF LedgerInv
  <2> QED BY <1>1, <2>1, <2>2 DEF LedgerInv
<1>6. ASSUME NEW K \in Queries, getStateMetadata(K) PROVE LedgerInv'
  BY <1>5, <1>6 DEF getStateMetadata
<1>7. CASE UNCHANGED vars
  BY <1>5, <1>7 DEF vars
<1> QED BY <1>2, <1>3, <1>4, <1>6, <1>7 DEF Next

\* The invariant holds in every reachable state.
LEMMA InvHolds == ASSUME MaxHeight < SeqModulus PROVE Spec => []LedgerInv
BY InitInv, NextInv, PTL DEF Spec

----------------------------------------------------------------------------

\* However many readers feed an enclave, and however their unlocked number
\* checks interleave with each other's commits, the enclave commits blocks
\* 0, 1, 2, ... without skipping or repeating one.
THEOREM LogIsContiguous ==
  ASSUME MaxHeight < SeqModulus
  PROVE  Spec => []ContiguousLog
<1>1. LedgerInv => ContiguousLog
  BY DEF LedgerInv, EnclaveInv, ContiguousLog
<1> QED BY <1>1, InvHolds, PTL

\* No entry of an enclave's store has a version from a block that the enclave
\* has not committed.
THEOREM VersionsAreCommitted ==
  ASSUME MaxHeight < SeqModulus
  PROVE  Spec => []NoFutureVersions
<1>1. LedgerInv => NoFutureVersions
  BY DEF LedgerInv, EnclaveInv, NoFutureVersions
<1> QED BY <1>1, InvHolds, PTL

\* Only a commit changes a store.
LEMMA OnlyCommitsChangeState ==
  ASSUME [Next]_vars, state' # state
  PROVE  \E j \in Joins : commit_state_updates(j)
<1>1. ASSUME NEW j \in Joins, Step(j), ~commit_state_updates(j) PROVE state' = state
  BY <1>1, Zenon DEF Step, readBlocks, EnterParseBlock, EcallFails, RefuseBlock, ParseEnvelope,
              DropBlock, EnvelopeFault, AssertFails, Crash, enclaveVars
<1> QED BY <1>1 DEF Next, AppendBlock, joinChannel, getStateMetadata, vars, enclaveVars

\* A commit moves the version of every entry it changes to a later block.
LEMMA CommitAdvances ==
  ASSUME LedgerInv, MaxHeight < SeqModulus,
         NEW j \in Joins, commit_state_updates(j),
         NEW e \in Joins, NEW k \in Key, state'[e][k] # state[e][k]
  PROVE  cmp_version(state[e][k].ver, state'[e][k].ver) = -1 \/ state[e][k] = Absent
<1> USE DEF commit_state_updates, AtCommit
<1>1. TypeOK /\ ReaderInv(j) /\ EnclaveInv(e)
  BY Zenon DEF LedgerInv
<1>2. at[j] \in Joins /\ pos[j] = Len(log[at[j]])
  BY NumberCheck, Zenon DEF Alive
<1>3. e = at[j] /\ state'[e] = ApplyUpdates(state[e], updates[j])
  <2>1. state' = [state EXCEPT ![at[j]] = ApplyUpdates(state[at[j]], updates[j])]
    OBVIOUS
  <2>2. DOMAIN state = Joins
    BY <1>1 DEF TypeOK
  <2> QED BY ONLY e \in Joins, state'[e][k] # state[e][k], <1>2, <2>1, <2>2
<1>4. updates[j][k] # Absent /\ state'[e][k] = updates[j][k]
  BY ONLY k \in Key, state'[e][k] # state[e][k], <1>3 DEF ApplyUpdates
<1>5. updates[j] \in kvs_t /\ state[e] \in kvs_t
  BY <1>1 DEF TypeOK
<1>6. updates[j][k] \in kvs_value_t
  BY ONLY <1>4, <1>5 DEF kvs_t
<1>7. ASSUME state[e][k] # Absent PROVE cmp_version(state[e][k].ver, state'[e][k].ver) = -1
  <2>1. state[e][k] \in kvs_value_t
    BY ONLY <1>5, <1>7 DEF kvs_t
  <2>2. state[e][k].ver \in version_t /\ updates[j][k].ver \in version_t
    BY ONLY <1>6, <2>1 DEF kvs_value_t
  <2>3. state[e][k].ver[1] < Len(log[e])
    BY <1>1, <1>7, Zenon DEF EnclaveInv
  <2>4. updates[j][k].ver[1] = pos[j]
    BY <1>1, <1>4, Zenon DEF ReaderInv
  <2>5. state[e][k].ver[1] < updates[j][k].ver[1]
    BY <1>2, <1>3, <2>3, <2>4, Zenon
  <2> QED BY <1>4, <2>2, <2>5, EarlierBlockIsSmaller, Zenon
<1> QED BY <1>7, Zenon

\* A commit never puts an older entry in place of a newer one.
THEOREM EntriesOnlyAdvance ==
  ASSUME MaxHeight < SeqModulus
  PROVE  Spec => VersionsAdvance
<1> DEFINE A == \A e \in Joins, k \in Key :
                  state'[e][k] # state[e][k] =>
                    cmp_version(state[e][k].ver, state'[e][k].ver) = -1
                    \/ state[e][k] = Absent
<1>1. LedgerInv /\ [Next]_vars => A
  <2> SUFFICES ASSUME LedgerInv, [Next]_vars, state' # state PROVE A
    OBVIOUS
  <2>1. PICK j \in Joins : commit_state_updates(j)
    BY OnlyCommitsChangeState
  <2> QED BY <2>1, CommitAdvances
<1>2. LedgerInv /\ [Next]_vars => [A]_vars
  BY <1>1
<1> QED BY <1>2, InvHolds, PTL DEF Spec, VersionsAdvance

----------------------------------------------------------------------------
(***************************************************************************)
(* TrustedLedger implements AtomicLedger.  The mapping keeps chain, state, *)
(* log and answer and forgets the readers; a commit is ApplyBlock of the   *)
(* block the reader has in hand.                                           *)
(***************************************************************************)

\* The operators of AtomicLedger are those of LedgerRules.
LEMMA SameRules ==
  /\ Atomic!EmptyKvs = EmptyKvs
  /\ \A st, upd, tx, ver :
       Atomic!ProcessEnvelope(st, upd, tx, ver) = ProcessEnvelope(st, upd, tx, ver)
  /\ \A st, upd : Atomic!ApplyUpdates(st, upd) = ApplyUpdates(st, upd)
<1>1. Atomic!EmptyKvs = EmptyKvs /\ Atomic!Absent = Absent /\ Atomic!Key = Key
  BY DEF Atomic!EmptyKvs, Atomic!Absent, Atomic!Key, EmptyKvs, Absent, Key
<1>2. ASSUME NEW st, NEW upd PROVE Atomic!ApplyUpdates(st, upd) = ApplyUpdates(st, upd)
  BY <1>1 DEF Atomic!ApplyUpdates, ApplyUpdates
<1>3. ASSUME NEW k, NEW kvs, NEW v
      PROVE  Atomic!has_version_conflict(k, kvs, v) = has_version_conflict(k, kvs, v)
  BY <1>1 DEF Atomic!has_version_conflict, has_version_conflict,
              Atomic!cmp_version, cmp_version
<1>4. ASSUME NEW st, NEW upd, NEW tx
      PROVE  Atomic!ReadsValid(st, upd, tx) = ReadsValid(st, upd, tx)
  BY <1>3 DEF Atomic!ReadsValid, ReadsValid, Atomic!LookedUp, LookedUp
<1>5. ASSUME NEW upd, NEW p, NEW ver PROVE Atomic!Insert(upd, p, ver) = Insert(upd, p, ver)
  BY <1>1 DEF Atomic!Insert, Insert
<1>6. ASSUME NEW tx
      PROVE  /\ Atomic!LsccPairs(tx) = LsccPairs(tx)
             /\ Atomic!ErccPairs(tx) = ErccPairs(tx)
             /\ Atomic!EccPairs(tx) = EccPairs(tx)
             /\ Atomic!Executes(tx) = Executes(tx)
  BY DEF Atomic!LsccPairs, LsccPairs, Atomic!ErccPairs, ErccPairs, Atomic!EccPairs,
         EccPairs, Atomic!KeysOf, KeysOf, Atomic!Executes, Executes
<1>7. ASSUME NEW st, NEW upd, NEW tx, NEW ver
      PROVE  Atomic!ProcessEnvelope(st, upd, tx, ver) = ProcessEnvelope(st, upd, tx, ver)
  BY <1>4, <1>5, <1>6 DEF Atomic!ProcessEnvelope, ProcessEnvelope,
       Atomic!parse_endorser_transaction, parse_endorser_transaction
<1> QED BY <1>1, <1>2, <1>7

\* What AtomicLedger applies for a block is what a complete run ends in.
LEMMA AtomicUpdates ==
  ASSUME NEW st, NEW b \in Block, NEW n, NEW upd,
         RunsTo(Len(b.txs), upd, st, b, n)
  PROVE  Atomic!BlockUpdates(st, b, n) = upd
<1> DEFINE u == Atomic!BlockRun(st, b, n)
<1>1. \E h : IsRun(h, st, b, n)
  BY RunComplete, Zenon
<1>2. u = CHOOSE h : h = [i \in 0..Len(b.txs) |->
                            IF i = 0 THEN Atomic!EmptyKvs
                            ELSE Atomic!ProcessEnvelope(st, h[i-1], b.txs[i], <<n, i-1>>)]
  BY DEF Atomic!BlockRun
<1>3. u = CHOOSE h : IsRun(h, st, b, n)
  BY <1>2, SameRules, Zenon DEF IsRun
<1>4. IsRun(u, st, b, n)
  BY <1>1, <1>3
<1>5. u[Len(b.txs)] = upd
  BY <1>4 DEF RunsTo
<1> QED BY <1>5 DEF Atomic!BlockUpdates

\* A commit is one atomic application of the next block.
LEMMA CommitIsApplyBlock ==
  ASSUME LedgerInv, MaxHeight < SeqModulus, NEW j \in Joins, commit_state_updates(j)
  PROVE  Atomic!ApplyBlock(at[j], chan[j]) /\ at[j] \in Joins /\ chan[j] \in Channels
<1> USE DEF commit_state_updates, AtCommit
<1>1. TypeOK /\ ReaderInv(j) /\ ReaderOK(j)
  BY DEF LedgerInv, TypeOK
<1>2. at[j] \in Joins /\ pos[j] = Len(log[at[j]])
  BY NumberCheck, Zenon DEF Alive
<1>3. chan[j] \in Channels /\ pos[j] < Len(chain[chan[j]]) /\ TheBlock(j) \in Block
  BY <1>1, BlockInHand, Zenon DEF ReaderOK
<1>4. RunsTo(Len(TheBlock(j).txs), updates[j], state[at[j]], TheBlock(j), pos[j])
  BY <1>1, <1>2, Zenon DEF ReaderInv
<1>5. Atomic!BlockUpdates(state[at[j]], TheBlock(j), pos[j]) = updates[j]
  BY <1>3, <1>4, AtomicUpdates, Zenon
<1>6. Atomic!ApplyUpdates(state[at[j]], updates[j]) = ApplyUpdates(state[at[j]], updates[j])
  BY SameRules, Zenon
<1> QED BY <1>2, <1>3, <1>5, <1>6, Zenon DEF Atomic!ApplyBlock, TheBlock

\* Every other step of a reader leaves chain, state, log and answer alone.
LEMMA OtherStepsStutter ==
  ASSUME NEW j \in Joins, Step(j), ~commit_state_updates(j)
  PROVE  UNCHANGED <<chain, state, log, answer>>
BY Zenon DEF Step, readBlocks, EnterParseBlock, EcallFails, RefuseBlock, ParseEnvelope,
       DropBlock, EnvelopeFault, AssertFails, Crash, enclaveVars

\* Every step of the trusted ledger is a step of AtomicLedger or a stutter.
LEMMA StepsRefine ==
  ASSUME MaxHeight < SeqModulus
  PROVE  LedgerInv /\ [Next]_vars => [Atomic!Next]_(Atomic!vars)
<1> SUFFICES ASSUME LedgerInv, [Next]_vars PROVE Atomic!Next \/ UNCHANGED Atomic!vars
  OBVIOUS
<1>1. ASSUME NEW c \in Channels, NEW b \in Blocks, AppendBlock(c, b) PROVE Atomic!Next
  <2>1. Atomic!AppendBlock(c, b)
    BY <1>1 DEF AppendBlock, enclaveVars, Atomic!AppendBlock
  <2> QED BY <2>1 DEF Atomic!Next
<1>2. ASSUME NEW j \in Joins, NEW c \in Channels, joinChannel(j, c)
      PROVE  UNCHANGED Atomic!vars
  BY <1>2 DEF joinChannel, enclaveVars, Atomic!vars
<1>3. ASSUME NEW j \in Joins, Step(j) PROVE Atomic!Next \/ UNCHANGED Atomic!vars
  <2>1. CASE commit_state_updates(j)
    BY <2>1, CommitIsApplyBlock DEF Atomic!Next
  <2>2. CASE ~commit_state_updates(j)
    BY <1>3, <2>2, OtherStepsStutter DEF Atomic!vars
  <2> QED BY <2>1, <2>2
<1>4. ASSUME NEW K \in Queries, getStateMetadata(K) PROVE Atomic!Next
  <2> USE <1>4 DEF getStateMetadata, enclaveVars
  <2>1. CASE answer' # NoAnswer
    <3>1. eid \in Joins /\ Atomic!Answer(eid, K)
      BY <2>1 DEF Alive, Atomic!Answer
    <3> QED BY <3>1 DEF Atomic!Next
  <2>2. CASE answer' = NoAnswer
    <3>1. Atomic!NoReply
      BY <2>2 DEF Atomic!NoReply
    <3> QED BY <3>1 DEF Atomic!Next
  <2> QED BY <2>1, <2>2
<1>5. CASE UNCHANGED vars
  BY <1>5 DEF vars, enclaveVars, Atomic!vars
<1> QED BY <1>1, <1>2, <1>3, <1>4, <1>5 DEF Next

\* The trusted ledger with any number of readers, unlocked checks, dropped
\* errors and aborts implements the atomic one: every block takes effect in
\* one step on the state its predecessor left, or not at all, and every answer
\* of VERIFY_STATE is taken between two blocks.
THEOREM ImplementsAtomicLedger ==
  ASSUME MaxHeight < SeqModulus
  PROVE  Spec => AppliesBlocksAtomically
<1>1. Init => Atomic!Init
  BY SameRules DEF Init, Atomic!Init
<1> QED BY <1>1, StepsRefine, InvHolds, PTL DEF Spec, Atomic!Spec, AppliesBlocksAtomically

----------------------------------------------------------------------------
(***************************************************************************)
(* Aborts.  With one reader nobody commits between its number check and    *)
(* its commit, so the assertion of commit_state_updates repeats a check    *)
(* that still holds, also where the sequence number wraps around.          *)
(***************************************************************************)

OneReader == \A i, j \in Joins : i = j

CheckStillHolds == \A j \in Joins : pc[j] = "parse" => NumberExpected(j)

\* The number check of a single reader stays true until the block is committed.
LEMMA CheckHolds ==
  ASSUME OneReader
  PROVE  TypeOK /\ CheckStillHolds /\ [Next]_vars => CheckStillHolds'
<1> SUFFICES ASSUME TypeOK, CheckStillHolds, [Next]_vars, NEW j \in Joins, pc'[j] = "parse"
             PROVE  NumberExpected(j)'
  BY DEF CheckStillHolds
<1>1. ASSUME pc[j] = "parse", UNCHANGED <<pos, at, sequence_number>> PROVE NumberExpected(j)'
  BY <1>1, Zenon DEF CheckStillHolds, NumberExpected
<1>2. CASE Step(j)
  <2>1. CASE EnterParseBlock(j)
    BY <2>1, Zenon DEF EnterParseBlock, NumberExpected, enclaveVars
  <2>2. CASE ParseEnvelope(j)
    BY <1>1, <2>2, Zenon DEF ParseEnvelope, AtEnvelope, enclaveVars
  <2>3. CASE EcallFails(j) \/ RefuseBlock(j) \/ DropBlock(j) \/ commit_state_updates(j)
    BY <2>3 DEF EcallFails, RefuseBlock, DropBlock, commit_state_updates, Return, TypeOK
  <2>4. CASE EnvelopeFault(j) \/ AssertFails(j)
    BY <2>4 DEF EnvelopeFault, AssertFails, Crash, TypeOK
  <2>5. CASE readBlocks(j)
    BY <2>5 DEF readBlocks, TypeOK
  <2> QED BY <1>2, <2>1, <2>2, <2>3, <2>4, <2>5, Zenon DEF Step
<1>3. ASSUME NEW c \in Channels, joinChannel(j, c) PROVE NumberExpected(j)'
  BY <1>3 DEF joinChannel, TypeOK
<1>4. ASSUME NEW c \in Channels, NEW b \in Blocks, AppendBlock(c, b) PROVE NumberExpected(j)'
  BY <1>1, <1>4, Zenon DEF AppendBlock, enclaveVars, readerVars
<1>5. ASSUME NEW K \in Queries, getStateMetadata(K) PROVE NumberExpected(j)'
  BY <1>1, <1>5, Zenon DEF getStateMetadata, enclaveVars, readerVars
<1>6. CASE UNCHANGED vars
  BY <1>1, <1>6, Zenon DEF vars, enclaveVars, readerVars
<1> QED BY <1>2, <1>3, <1>4, <1>5, <1>6, Zenon DEF Next, OneReader

\* Only a fault or a failed assertion aborts an enclave.
LEMMA OnlyFaultsAbort ==
  ASSUME [Next]_vars, crashed' # crashed
  PROVE  \E j \in Joins : EnvelopeFault(j) \/ AssertFails(j)
<1>1. ASSUME NEW j \in Joins, Step(j), ~EnvelopeFault(j), ~AssertFails(j)
      PROVE  crashed' = crashed
  BY <1>1, Zenon DEF Step, readBlocks, EnterParseBlock, EcallFails, RefuseBlock, ParseEnvelope,
              DropBlock, commit_state_updates, enclaveVars
<1> QED BY <1>1, Zenon DEF Next, AppendBlock, joinChannel, getStateMetadata, vars, enclaveVars

\* An enclave that is fed by one reader aborts only when an envelope faults:
\* the assertion of commit_state_updates never fails, however long the chain.
THEOREM OneReaderNeverAborts ==
  ASSUME OneReader
  PROVE  Spec /\ [][\A j \in Joins : ~EnvelopeFault(j)]_vars => []NeverAborts
<1> DEFINE NoFault == \A j \in Joins : ~EnvelopeFault(j)
<1>1. Init => CheckStillHolds /\ NeverAborts
  BY DEF Init, CheckStillHolds, NeverAborts
<1>2. TypeOK /\ CheckStillHolds /\ NeverAborts /\ [Next]_vars /\ [NoFault]_vars => NeverAborts'
  <2> SUFFICES ASSUME CheckStillHolds, NeverAborts, [Next]_vars, [NoFault]_vars,
                      crashed' # crashed
               PROVE  FALSE
    BY Zenon DEF NeverAborts
  <2>1. NoFault
    BY Zenon DEF vars, enclaveVars
  <2>2. PICK j \in Joins : AssertFails(j)
    BY <2>1, OnlyFaultsAbort
  <2> QED BY <2>2 DEF AssertFails, AtCommit, CheckStillHolds
<1> HIDE DEF NoFault
<1>3. Spec /\ [][NoFault]_vars => []NeverAborts
  BY <1>1, <1>2, CheckHolds, TypeCorrect, PTL DEF Spec
<1> QED BY <1>3 DEF NoFault

\* Nothing is ever taken out of the log of an enclave.
LEMMA LogsGrow ==
  ASSUME LedgerInv, [Next]_vars, NEW e \in Joins
  PROVE  Len(log[e]) <= Len(log'[e]) /\ Len(log[e]) \in Nat /\ Len(log'[e]) \in Nat
<1>1. TypeOK /\ log[e] \in Seq(Channels \X Nat)
  BY DEF LedgerInv, TypeOK
<1>2. CASE log' = log
  BY <1>1, <1>2
<1>3. CASE log' # log
  <2>1. PICK j \in Joins : commit_state_updates(j)
    <3>1. ASSUME NEW j \in Joins, Step(j), ~commit_state_updates(j) PROVE log' = log
      BY <3>1, OtherStepsStutter
    <3> QED BY <1>3, <3>1, Zenon DEF Next, AppendBlock, joinChannel, getStateMetadata,
                                     vars, enclaveVars
  <2>2. log' = [log EXCEPT ![at[j]] = Append(log[at[j]], <<chan[j], pos[j]>>)]
    BY <2>1, Zenon DEF commit_state_updates
  <2>3. log'[e] = log[e] \/ log'[e] = Append(log[e], <<chan[j], pos[j]>>)
    BY <1>1, <2>2 DEF TypeOK
  <2>4. <<chan[j], pos[j]>> \in Channels \X Nat
    BY <1>1, <2>1 DEF commit_state_updates, AtCommit, TypeOK, ReaderOK
  <2> QED BY ONLY <1>1, <2>3, <2>4
<1> QED BY <1>2, <1>3

\* A reader that is dead stays where it is, with the block it has in hand.
LEMMA DeadReadersStay ==
  ASSUME LedgerInv, [Next]_vars, NEW j \in Joins, pc[j] = "dead"
  PROVE  /\ pos'[j] = pos[j] /\ at'[j] = at[j] /\ env'[j] = env[j]
         /\ TheBlock(j)' = TheBlock(j)
<1>1. TypeOK
  BY DEF LedgerInv
<1>2. /\ pos'[j] = pos[j] /\ at'[j] = at[j] /\ env'[j] = env[j] /\ chan'[j] = chan[j]
  <2>1. ASSUME NEW i \in Joins, Step(i)
        PROVE  /\ pos'[j] = pos[j] /\ at'[j] = at[j] /\ env'[j] = env[j]
               /\ chan'[j] = chan[j]
    <3>1. pc[i] \in {"reading", "call", "parse"}
      BY <2>1, Zenon DEF Step, readBlocks, EnterParseBlock, EcallFails, RefuseBlock,
           ParseEnvelope, DropBlock, EnvelopeFault, commit_state_updates, AssertFails,
           AtEnvelope, AtCommit
    <3>2. i # j
      BY <3>1
    <3> QED BY <1>1, <2>1, <3>2, Zenon DEF TypeOK, Step, readBlocks, EnterParseBlock,
              EcallFails, RefuseBlock, ParseEnvelope, DropBlock, EnvelopeFault,
              commit_state_updates, AssertFails, Crash, Return
  <2>2. ASSUME NEW i \in Joins, NEW c \in Channels, joinChannel(i, c)
        PROVE  /\ pos'[j] = pos[j] /\ at'[j] = at[j] /\ env'[j] = env[j]
               /\ chan'[j] = chan[j]
    BY <1>1, <2>2 DEF joinChannel, TypeOK
  <2> QED BY <2>1, <2>2, Zenon DEF Next, AppendBlock, getStateMetadata, vars, readerVars
<1>3. chan[j] \in Channels /\ pos[j] + 1 \in 1..Len(chain[chan[j]])
  BY <1>1 DEF TypeOK, ReaderOK
<1>4. chain'[chan[j]][pos[j] + 1] = chain[chan[j]][pos[j] + 1]
  <2>1. ASSUME NEW c \in Channels, NEW b \in Blocks, AppendBlock(c, b)
        PROVE  chain'[chan[j]][pos[j] + 1] = chain[chan[j]][pos[j] + 1]
    <3>1. /\ chain[chan[j]] \in Seq(Block) /\ b \in Block
          /\ chain'[chan[j]] = IF chan[j] = c THEN Append(chain[chan[j]], b)
                                              ELSE chain[chan[j]]
      BY <1>1, <1>3, <2>1, BlocksAssumption DEF TypeOK, AppendBlock
    <3> QED BY ONLY <1>3, <3>1
  <2>2. ASSUME NEW i \in Joins, Step(i) PROVE chain' = chain
    BY <2>2, OtherStepsStutter, Zenon DEF commit_state_updates
  <2> QED BY <2>1, <2>2, Zenon DEF Next, joinChannel, getStateMetadata, vars
<1> QED BY <1>2, <1>4 DEF TheBlock

\* With any number of readers the assertion of commit_state_updates fails only
\* on a block that another reader has committed between the unlocked number
\* check and the commit: what is aborted never is the first commit of a block.
THEOREM AbortsRepeatACommit ==
  ASSUME MaxHeight < SeqModulus
  PROVE  Spec => []AssertionFailsOnRepeats
<1>1. Init => AssertionFailsOnRepeats
  BY DEF Init, AssertionFailsOnRepeats
<1>2. LedgerInv /\ AssertionFailsOnRepeats /\ [Next]_vars => AssertionFailsOnRepeats'
  <2> SUFFICES ASSUME LedgerInv, AssertionFailsOnRepeats, [Next]_vars,
                      NEW j \in Joins, pc'[j] = "dead", env'[j] = Len(TheBlock(j)'.txs)
               PROVE  pos'[j] < Len(log'[at'[j]])
    BY Zenon DEF AssertionFailsOnRepeats
  <2>1. TypeOK
    BY DEF LedgerInv
  <2>2. CASE pc[j] = "dead"
    <3>1. at[j] \in Joins /\ pos[j] \in Nat
      BY <2>1, <2>2 DEF TypeOK, ReaderOK
    <3>2. pos[j] < Len(log[at[j]])
      BY <2>2, DeadReadersStay, Zenon DEF AssertionFailsOnRepeats
    <3>3. pos'[j] = pos[j] /\ at'[j] = at[j]
      BY <2>2, DeadReadersStay, Zenon
    <3>4. Len(log[at[j]]) <= Len(log'[at[j]]) /\ Len(log[at[j]]) \in Nat /\ Len(log'[at[j]]) \in Nat
      BY <3>1, LogsGrow, Zenon
    <3> QED BY ONLY <3>1, <3>2, <3>3, <3>4
  <2>3. CASE pc[j] # "dead"
    <3>1. EnvelopeFault(j) \/ AssertFails(j)
      <4>1. ASSUME NEW i \in Joins, Step(i) PROVE EnvelopeFault(j) \/ AssertFails(j)
        <5>1. CASE EnvelopeFault(i) \/ AssertFails(i)
          BY <2>1, <2>3, <5>1, Zenon DEF EnvelopeFault, AssertFails, Crash, TypeOK
        <5>2. CASE ~EnvelopeFault(i) /\ ~AssertFails(i)
          BY <2>1, <2>3, <4>1, <5>2 DEF TypeOK, Step, readBlocks, EnterParseBlock,
             EcallFails, RefuseBlock, ParseEnvelope, DropBlock, commit_state_updates, Return
        <5> QED BY <5>1, <5>2
      <4>2. ASSUME NEW i \in Joins, NEW c \in Channels, joinChannel(i, c) PROVE FALSE
        BY <2>1, <2>3, <4>2 DEF joinChannel, TypeOK
      <4> QED BY <2>3, <4>1, <4>2, Zenon DEF Next, AppendBlock, getStateMetadata, vars, readerVars
    <3>2. /\ pc[j] = "parse" /\ at[j] \in Joins /\ UNCHANGED <<pos, at, env, log, chain, chan>>
      BY <3>1, Zenon DEF EnvelopeFault, AssertFails, AtEnvelope, AtCommit, Alive, Crash
    <3>3. AssertFails(j)
      <4>1. env[j] = Len(TheBlock(j).txs)
        BY <3>2, Zenon DEF TheBlock
      <4>2. env[j] \in Nat
        BY <2>1 DEF TypeOK
      <4>3. ~(env[j] < Len(TheBlock(j).txs))
        BY ONLY <4>1, <4>2
      <4> QED BY <3>1, <4>3, Zenon DEF EnvelopeFault, AtEnvelope
    <3>4. pos[j] # Len(log[at[j]])
      BY <3>2, <3>3, NumberCheck, Zenon DEF AssertFails
    <3>5. pos[j] <= Len(log[at[j]])
      BY <3>2, Zenon DEF LedgerInv, ReaderInv
    <3>6. pos[j] \in Nat /\ Len(log[at[j]]) \in Nat
      BY <2>1, <3>2, LogsGrow DEF TypeOK
    <3> QED BY <3>2, <3>4, <3>5, <3>6
  <2> QED BY <2>2, <2>3
<1> QED BY <1>1, <1>2, InvHolds, PTL DEF Spec
=============================================================================
