------------------------ MODULE PeerAndLedgerProofs ------------------------
(***************************************************************************)
(* The ledger enclave agrees with its peer, on one channel, for every      *)
(* workload whose transactions are Compatible, any number of readers and   *)
(* enclaves, and blocks and chains of any length below 2^32 blocks; and    *)
(* the chaincode enclave may rely on what it verifies, for any lookups and *)
(* any number of reads.                                                    *)
(***************************************************************************)
EXTENDS VerifiedRead, BlockProofs

----------------------------------------------------------------------------
(***************************************************************************)
(* The inductive invariant: every block of the chain was made by the peer  *)
(* from transactions endorsed before it, and led from one of its states to *)
(* the next; every enclave agrees with the state after as many blocks as   *)
(* it has committed.                                                       *)
(***************************************************************************)

\* Block n of channel c came from the peer's state after n blocks.
FromBlock(c, n) ==
  \E ps \in Seq(Endorsed(c, n)) :
    /\ chain[c][n+1] = BlockOf(ps, PeerRun(ps, world[c][n], n))
    /\ world[c][n+1] = PeerRun(ps, world[c][n], n)[Len(ps)]

PeerInv(c) ==
  /\ Len(world[c]) = Len(chain[c])
  /\ chain[c][1] = Genesis /\ world[c][1] = EmptyKvs
  /\ \A n \in 1..Len(world[c]) : \A h \in 1..n : Earlier(world[c][h], world[c][n], n)
  /\ \A n \in 1..(Len(world[c]) - 1) : FromBlock(c, n)

EnclaveAgrees(e, c) ==
  LET n == Len(log[e])
  IN  /\ n <= Len(chain[c])
      /\ n = 0 => state[e] = EmptyKvs
      /\ n > 0 => Agrees(state[e], world[c][n])

SysInv ==
  /\ LedgerInv
  /\ world \in [Channels -> Seq(kvs_t)]
  /\ \A c \in Channels : PeerInv(c)
  /\ \A e \in Joins, c \in Channels : EnclaveAgrees(e, c)

\* The setting of the agreement: one channel, whose blocks are fewer than 2^32,
\* that starts with a configuration block and has a compatible workload.
Setting ==
  /\ \A c, d \in Channels : c = d
  /\ MaxHeight < SeqModulus
  /\ GenesisIsConfig
  /\ Compatible(Templates)

\* The initial state satisfies the invariant.
LEMMA SysInitInv == ASSUME Setting PROVE SysInit => SysInv
<1> SUFFICES ASSUME SysInit PROVE SysInv
  OBVIOUS
<1>1. LedgerInv
  BY InitInv DEF SysInit, Setting
<1>2. EmptyKvs \in kvs_t
  BY EmptyKvsType
<1>3. world \in [Channels -> Seq(kvs_t)]
  BY <1>2 DEF SysInit
<1>4. ASSUME NEW c \in Channels PROVE PeerInv(c)
  <2>1. chain[c] = <<Genesis>> /\ world[c] = <<EmptyKvs>>
    BY Zenon DEF SysInit, Init
  <2>2. Earlier(EmptyKvs, EmptyKvs, 1)
    BY DEF Earlier, EmptyKvs, Absent
  <2> QED BY <2>1, <2>2 DEF PeerInv
<1>5. ASSUME NEW e \in Joins, NEW c \in Channels PROVE EnclaveAgrees(e, c)
  BY DEF SysInit, Init, EnclaveAgrees
<1> QED BY <1>1, <1>3, <1>4, <1>5 DEF SysInv

\* The states of a channel are stores, one per block.
LEMMA WorldType ==
  ASSUME SysInv, NEW c \in Channels
  PROVE  /\ world[c] \in Seq(kvs_t) /\ chain[c] \in Seq(Block)
         /\ Len(world[c]) = Len(chain[c]) /\ Len(chain[c]) \in Nat \ {0}
         /\ \A n \in 1..Len(chain[c]) : world[c][n] \in kvs_t
         /\ Committed(c) = world[c][Len(chain[c])]
<1>1. world[c] \in Seq(kvs_t) /\ chain[c] \in Seq(Block) /\ Len(world[c]) = Len(chain[c])
  BY Zenon DEF SysInv, PeerInv, LedgerInv, TypeOK
<1>2. Len(chain[c]) \in 1..MaxHeight
  BY DEF SysInv, LedgerInv, ChainInv
<1>3. Len(chain[c]) \in Nat \ {0}
  BY <1>2, BoundsAssumption
<1> QED BY <1>1, <1>3 DEF Committed

\* What is endorsed by height n may be in block n.
LEMMA EndorsedAreProposals ==
  ASSUME SysInv, NEW c \in Channels, NEW n \in 1..Len(chain[c])
  PROVE  Endorsed(c, n) \subseteq Proposals(world[c][n], n)
<1>1. n \in Nat /\ n <= Len(chain[c])
  BY WorldType
<1>2. ASSUME NEW t \in Templates, NEW h \in 1..n
      PROVE  Simulate(t, world[c][h]) \in Proposals(world[c][n], n)
  <2>1. h \in 1..Len(chain[c])
    BY <1>1, WorldType
  <2>2. world[c][h] \in kvs_t
    BY <2>1, WorldType
  <2>3. Earlier(world[c][h], world[c][n], n)
    BY WorldType, Zenon DEF SysInv, PeerInv
  <2> QED BY <2>2, <2>3 DEF Proposals
<1> QED BY <1>2 DEF Endorsed

\* The parts of a commit of the peer.
LEMMA CommitParts ==
  ASSUME SysInv, NEW c \in Channels, CommitBlock(c)
  PROVE  LET n == Len(chain[c])
         IN  \E ps \in Seq(Endorsed(c, n)) :
               /\ ps \in Seq(Proposals(world[c][n], n))
               /\ AppendBlock(c, BlockOf(ps, PeerRun(ps, world[c][n], n)))
               /\ world' = [world EXCEPT ![c] =
                              Append(@, PeerRun(ps, world[c][n], n)[Len(ps)])]
<1> DEFINE n == Len(chain[c])
           w == world[c][n]
<1>1. Committed(c) = w /\ n \in Nat /\ n \in 1..Len(chain[c])
  BY WorldType
<1>2. PICK ps \in Orders(Endorsed(c, n)) :
        /\ chain' = [chain EXCEPT ![c] = Append(@, BlockOf(ps, PeerRun(ps, w, n)))]
        /\ world' = [world EXCEPT ![c] = Append(@, PeerRun(ps, w, n)[Len(ps)])]
  BY <1>1, Zenon DEF CommitBlock
<1>3. n < MaxHeight /\ UNCHANGED <<eid, enclaveVars, readerVars, answer>>
  BY Zenon DEF CommitBlock
<1> HIDE DEF n, w
<1>4. ps \in Seq(Endorsed(c, n))
  <2>1. PICK m \in 1..MaxBlockTxs : ps \in [1..m -> Endorsed(c, n)]
    BY DEF Orders
  <2>2. m \in Nat
    BY TemplatesAssumption
  <2> QED BY <2>1, <2>2, FunctionIsSeq
<1>5. Endorsed(c, n) \subseteq Proposals(w, n)
  BY <1>1, EndorsedAreProposals, Zenon DEF n, w
<1>6. ps \in Seq(Proposals(w, n))
  BY <1>4, <1>5, SeqOfSubset
<1>7. AppendBlock(c, BlockOf(ps, PeerRun(ps, w, n)))
  BY <1>2, <1>3 DEF AppendBlock, n
<1> QED BY <1>2, <1>4, <1>6, <1>7, Zenon DEF n, w

\* Chains and states of the other channels stay; those of c grow by one.
LEMMA PeerCommits ==
  ASSUME SysInv, NEW c \in Channels, CommitBlock(c)
  PROVE  /\ LedgerInv'
         /\ UNCHANGED <<log, state>>
         /\ world' \in [Channels -> Seq(kvs_t)]
         /\ \A d \in Channels : PeerInv(d)'
         /\ \A d \in Channels : /\ Len(chain'[d]) \in {Len(chain[d]), Len(chain[d]) + 1}
                                /\ \A h \in 1..Len(chain[d]) : world'[d][h] = world[d][h]
<1> DEFINE n == Len(chain[c])
           w == world[c][n]
<1>1. PICK ps \in Seq(Endorsed(c, n)) :
        /\ ps \in Seq(Proposals(w, n))
        /\ AppendBlock(c, BlockOf(ps, PeerRun(ps, w, n)))
        /\ world' = [world EXCEPT ![c] = Append(@, PeerRun(ps, w, n)[Len(ps)])]
  BY CommitParts, Zenon
<1> DEFINE b == BlockOf(ps, PeerRun(ps, w, n))
           w2 == PeerRun(ps, w, n)[Len(ps)]
<1>2. n \in Nat \ {0} /\ w \in kvs_t /\ Len(world[c]) = n
  BY WorldType
<1>3. \A p \in Proposals(w, n) : p.tmpl \in Template
  BY ProposalParts
<1>4. b \in Block
  BY <1>1, BlockOfType, Zenon
<1>5. w2 \in kvs_t
  <2>1. IsPeerRun(PeerRun(ps, w, n), Len(ps), ps, w, n)
    <3> HIDE DEF n, w
    <3> QED BY <1>1, <1>2, <1>3, PeerRunSteps, Zenon
  <2>2. Len(ps) \in 0..Len(ps)
    OBVIOUS
  <2> QED BY <2>1, <2>2, Zenon DEF IsPeerRun
<1>6. Grown(w, w2, n)
  <2> HIDE DEF n, w
  <2> QED BY <1>1, <1>2, <1>3, PeerGrows, Zenon
<1>7. chain' = [chain EXCEPT ![c] = Append(@, b)] /\ UNCHANGED <<log, state>>
  BY <1>1, Zenon DEF AppendBlock, enclaveVars
<1>8. world' = [world EXCEPT ![c] = Append(@, w2)]
  BY <1>1, Zenon
<1>9. LedgerInv'
  BY <1>1, <1>4, AppendInv, Zenon DEF SysInv
<1> HIDE DEF n, w, b, w2
<1>10. /\ world \in [Channels -> Seq(kvs_t)] /\ chain \in [Channels -> Seq(Block)]
       /\ chain[c] \in Seq(Block) /\ world[c] \in Seq(kvs_t)
  BY Zenon DEF SysInv, LedgerInv, TypeOK
<1>11. world' \in [Channels -> Seq(kvs_t)]
  BY <1>5, <1>8, <1>10
<1>12. /\ chain'[c] = Append(chain[c], b) /\ world'[c] = Append(world[c], w2)
       /\ \A d \in Channels \ {c} : chain'[d] = chain[d] /\ world'[d] = world[d]
  BY <1>7, <1>8, <1>10, Zenon
<1>13. /\ Len(chain'[c]) = n + 1 /\ Len(world'[c]) = n + 1
       /\ \A h \in 1..n : chain'[c][h] = chain[c][h] /\ world'[c][h] = world[c][h]
       /\ chain'[c][n+1] = b /\ world'[c][n+1] = w2
  BY <1>2, <1>4, <1>5, <1>10, <1>12 DEF n
<1>14. PeerInv(c)'
  <2>1. PeerInv(c)
    BY DEF SysInv
  <2>2. 1 \in 1..n
    BY <1>2
  <2>3. chain'[c][1] = Genesis /\ world'[c][1] = EmptyKvs
    BY <1>13, <2>1, <2>2, Zenon DEF PeerInv
  <2>4. ASSUME NEW m \in 1..(n+1), NEW h \in 1..m
        PROVE  Earlier(world'[c][h], world'[c][m], m)
    <3>1. CASE m \in 1..n
      <4>1. Earlier(world[c][h], world[c][m], m) /\ h \in 1..n
        BY <1>2, <2>1, <3>1 DEF PeerInv
      <4> QED BY <1>13, <3>1, <4>1, Zenon
    <3>2. CASE m = n + 1 /\ h \in 1..n
      <4>1. Earlier(world[c][h], w, n)
        BY <1>2, <2>1, <3>2 DEF PeerInv, w
      <4>2. world[c][h] \in kvs_t
        BY <1>2, <1>10, <3>2
      <4>3. Earlier(world[c][h], w2, n + 1)
        BY <1>2, <1>5, <1>6, <4>1, <4>2, StatesGetOlder, Zenon
      <4> QED BY <1>13, <3>2, <4>3, Zenon
    <3>3. CASE m = n + 1 /\ h = n + 1
      <4>1. Earlier(w, w, n)
        BY <1>2, <2>1 DEF PeerInv, w
      <4>2. Earlier(w2, w2, n + 1)
        BY <1>2, <1>5, <1>6, <4>1, StatesGetOlder, Zenon
      <4> QED BY <1>13, <3>3, <4>2, Zenon
    <3> QED BY <1>2, <3>1, <3>2, <3>3
  <2>5. ASSUME NEW m \in 1..n PROVE FromBlock(c, m)'
    <3>1. Endorsed(c, m)' = Endorsed(c, m)
      <4>1. \A h \in 1..m : world'[c][h] = world[c][h]
        BY <1>2, <1>13
      <4> QED BY <4>1 DEF Endorsed
    <3>2. m \in 1..(n-1) \/ m = n
      BY <1>2
    <3>3. CASE m \in 1..(n-1)
      <4>1. FromBlock(c, m)
        BY <1>2, <2>1, <3>3, Zenon DEF PeerInv
      <4>2. m + 1 \in 1..n
        BY <1>2, <3>3
      <4>3. /\ world'[c][m] = world[c][m] /\ world'[c][m+1] = world[c][m+1]
            /\ chain'[c][m+1] = chain[c][m+1]
        BY <1>13, <4>2, Zenon
      <4> QED BY <3>1, <4>1, <4>3, Zenon DEF FromBlock
    <3>4. CASE m = n
      <4>1. /\ chain'[c][m+1] = BlockOf(ps, PeerRun(ps, w, n))
            /\ world'[c][m+1] = PeerRun(ps, w, n)[Len(ps)] /\ world'[c][m] = w
        BY <1>13, <3>4, Zenon DEF b, w2, w
      <4>2. ps \in Seq(Endorsed(c, m)')
        BY <3>1, <3>4 
      <4> QED BY <3>4, <4>1, <4>2, Zenon DEF FromBlock
    <3> QED BY <3>2, <3>3, <3>4
  <2>6. (n + 1) - 1 = n
    BY <1>2
  <2> QED BY <1>13, <2>3, <2>4, <2>5, <2>6, Zenon DEF PeerInv
<1>15. ASSUME NEW d \in Channels \ {c} PROVE PeerInv(d)'
  <2>1. chain'[d] = chain[d] /\ world'[d] = world[d] /\ PeerInv(d)
    BY <1>12, Zenon DEF SysInv
  <2>2. ASSUME NEW m, FromBlock(d, m) PROVE FromBlock(d, m)'
    <3>1. Endorsed(d, m)' = Endorsed(d, m)
      BY <2>1 DEF Endorsed
    <3> QED BY <2>1, <2>2, <3>1, Zenon DEF FromBlock
  <2> QED BY <2>1, <2>2, Zenon DEF PeerInv
<1>16. ASSUME NEW d \in Channels
       PROVE  /\ Len(chain'[d]) \in {Len(chain[d]), Len(chain[d]) + 1}
              /\ \A h \in 1..Len(chain[d]) : world'[d][h] = world[d][h]
  <2>1. CASE d = c
    BY <1>2, <1>13, <2>1, Zenon DEF n
  <2>2. CASE d # c
    BY <1>12, <2>2, WorldType, Zenon
  <2> QED BY <2>1, <2>2, Zenon
<1> QED BY <1>7, <1>9, <1>11, <1>14, <1>15, <1>16, Zenon

\* A block that the peer commits keeps the invariant.
LEMMA CommitBlockKeeps ==
  ASSUME SysInv, NEW c \in Channels, CommitBlock(c)
  PROVE  SysInv'
<1>1. /\ LedgerInv' /\ UNCHANGED <<log, state>> /\ world' \in [Channels -> Seq(kvs_t)]
      /\ \A d \in Channels : PeerInv(d)'
      /\ \A d \in Channels : /\ Len(chain'[d]) \in {Len(chain[d]), Len(chain[d]) + 1}
                             /\ \A h \in 1..Len(chain[d]) : world'[d][h] = world[d][h]
  BY PeerCommits, Zenon
<1>2. ASSUME NEW e \in Joins, NEW d \in Channels PROVE EnclaveAgrees(e, d)'
  <2>1. EnclaveAgrees(e, d)
    BY DEF SysInv
  <2>2. Len(log[e]) \in Nat /\ Len(chain[d]) \in Nat /\ Len(chain'[d]) \in Nat
    <3>1. Len(chain'[d]) \in Nat
      BY SMTT(30), <1>1 DEF LedgerInv, TypeOK
    <3>2. Len(log[e]) \in Nat
      BY DEF SysInv, LedgerInv, TypeOK
    <3> QED BY <3>1, <3>2, WorldType, Zenon
  <2> QED BY SMTT(30), <1>1, <2>1, <2>2 DEF EnclaveAgrees
<1> QED BY <1>1, <1>2, Zenon DEF SysInv

\* A step that leaves blocks, logs, stores and states alone keeps what the
\* invariant says of them.
LEMMA SysFrame ==
  ASSUME SysInv, LedgerInv', UNCHANGED <<chain, log, state, world>>
  PROVE  SysInv'
<1>1. ASSUME NEW c \in Channels PROVE PeerInv(c)'
  <2>1. ASSUME NEW m, FromBlock(c, m) PROVE FromBlock(c, m)'
    <3>1. Endorsed(c, m)' = Endorsed(c, m)
      BY DEF Endorsed
    <3> QED BY <2>1, <3>1, Zenon DEF FromBlock
  <2> QED BY <2>1, Zenon DEF SysInv, PeerInv
<1>2. ASSUME NEW e \in Joins, NEW c \in Channels PROVE EnclaveAgrees(e, c)'
  BY Zenon DEF SysInv, EnclaveAgrees
<1> QED BY <1>1, <1>2 DEF SysInv

\* A block that an enclave commits takes it to the peer's next state.
LEMMA EnclaveCommits ==
  ASSUME Setting, SysInv, NEW j \in Joins, commit_state_updates(j), UNCHANGED world
  PROVE  SysInv'
<1> DEFINE e == at[j]
           c == chan[j]
           n == Len(log[e])
           b == TheBlock(j)
<1>1. LedgerInv /\ TypeOK /\ MaxHeight < SeqModulus /\ ReaderInv(j) /\ ReaderOK(j)
  BY Zenon DEF SysInv, LedgerInv, TypeOK, Setting
<1>2. LedgerInv'
  BY <1>1, CommitInv
<1>3. pc[j] = "parse" /\ e \in Joins /\ env[j] = Len(b.txs) /\ NumberExpected(j)
  BY Zenon DEF commit_state_updates, AtCommit, Alive
<1>4. pos[j] = n
  BY <1>1, <1>3, NumberCheck, Zenon
<1>5. c \in Channels /\ n < Len(chain[c]) /\ n \in Nat /\ b = chain[c][n+1]
  BY SMTT(30), <1>1, <1>3, <1>4 DEF ReaderOK, TypeOK, TheBlock
<1>6. RunsTo(Len(b.txs), updates[j], state[e], b, n)
  BY <1>1, <1>3, <1>4, Zenon DEF ReaderInv
<1>7. /\ state' = [state EXCEPT ![e] = ApplyUpdates(state[e], updates[j])]
      /\ log' = [log EXCEPT ![e] = Append(log[e], <<c, pos[j]>>)]
      /\ chain' = chain
  BY Zenon DEF commit_state_updates
<1> HIDE DEF e, c, n, b
<1>8. /\ state'[e] = ApplyUpdates(state[e], updates[j]) /\ Len(log'[e]) = n + 1
      /\ \A d \in Joins \ {e} : state'[d] = state[d] /\ log'[d] = log[d]
  <2>1. /\ state \in [Joins -> kvs_t] /\ log \in [Joins -> Seq(Channels \X Nat)]
        /\ log[e] \in Seq(Channels \X Nat) /\ Len(log[e]) = n
    BY <1>1, <1>3, Zenon DEF TypeOK, n
  <2> QED BY SMTT(30), <1>3, <1>7, <2>1
<1>9. PeerInv(c) /\ EnclaveAgrees(e, c)
  BY <1>3, <1>5, Zenon DEF SysInv
<1>10. Agrees(state'[e], world[c][n+1])
  <2>1. CASE n = 0
    <3>1. state[e] = EmptyKvs /\ b = Genesis /\ world[c][n+1] = EmptyKvs
      BY <1>5, <1>9, <2>1 DEF PeerInv, EnclaveAgrees, n
    <3>2. updates[j] = EmptyKvs
      BY <1>6, <3>1, GenesisAgrees, Zenon DEF Setting
    <3>3. state'[e] = EmptyKvs
      BY <1>8, <3>1, <3>2, Zenon DEF ApplyUpdates, EmptyKvs
    <3> QED BY <3>1, <3>3 DEF Agrees, SameEntry, EmptyKvs, Absent
  <2>2. CASE n > 0
    <3>1. Agrees(state[e], world[c][n])
      BY <1>9, <2>2, Zenon DEF EnclaveAgrees, n
    <3>2. n \in 1..Len(chain[c]) /\ Len(world[c]) = Len(chain[c]) /\ n \in 1..(Len(world[c]) - 1)
      BY <1>5, <2>2, WorldType
    <3>3. PICK ps \in Seq(Endorsed(c, n)) :
            /\ chain[c][n+1] = BlockOf(ps, PeerRun(ps, world[c][n], n))
            /\ world[c][n+1] = PeerRun(ps, world[c][n], n)[Len(ps)]
      BY <1>9, <3>2, Zenon DEF PeerInv, FromBlock
    <3>4. ps \in Seq(Proposals(world[c][n], n))
      BY <1>5, <3>2, EndorsedAreProposals, SeqOfSubset, Zenon
    <3>5. world[c][n] \in kvs_t /\ state[e] \in kvs_t
      BY <1>1, <1>3, <1>5, <3>2, WorldType, Zenon DEF TypeOK
    <3>6. b = BlockOf(ps, PeerRun(ps, world[c][n], n))
      BY <1>5, <3>3, Zenon
    <3> DEFINE w == world[c][n]
               st == state[e]
               upd == updates[j]
    <3>7. Agrees(ApplyUpdates(st, upd), PeerRun(ps, w, n)[Len(ps)])
      <4>1. /\ w \in kvs_t /\ st \in kvs_t /\ ps \in Seq(Proposals(w, n)) /\ Agrees(st, w)
            /\ b = BlockOf(ps, PeerRun(ps, w, n)) /\ RunsTo(Len(b.txs), upd, st, b, n)
        BY <1>6, <3>1, <3>4, <3>5, <3>6, Zenon
      <4> HIDE DEF w, st, upd
      <4> QED BY <1>5, <4>1, BlockAgrees, Zenon DEF Setting
    <3> QED BY <1>8, <3>3, <3>7, Zenon
  <2> QED BY <1>5, <2>1, <2>2
<1>11. ASSUME NEW d \in Joins, NEW k \in Channels PROVE EnclaveAgrees(d, k)'
  <2>1. k = c
    BY <1>5, Zenon DEF Setting
  <2>2. CASE d = e
    <3>1. n + 1 <= Len(chain[c]) /\ n + 1 > 0 /\ n + 1 # 0
      BY <1>5, WorldType
    <3> QED BY <1>7, <1>8, <1>10, <2>1, <2>2, <3>1, Zenon DEF EnclaveAgrees
  <2>3. CASE d # e
    <3>1. EnclaveAgrees(d, k) /\ state'[d] = state[d] /\ log'[d] = log[d]
      BY <1>8, <2>3, Zenon DEF SysInv
    <3> QED BY <1>7, <3>1, Zenon DEF EnclaveAgrees
  <2> QED BY <2>2, <2>3
<1>12. ASSUME NEW d \in Channels PROVE PeerInv(d)'
  <2>1. ASSUME NEW m, FromBlock(d, m) PROVE FromBlock(d, m)'
    <3>1. Endorsed(d, m)' = Endorsed(d, m)
      BY DEF Endorsed
    <3> QED BY <1>7, <2>1, <3>1, Zenon DEF FromBlock
  <2> QED BY <1>7, <2>1, Zenon DEF SysInv, PeerInv
<1> QED BY <1>2, <1>11, <1>12, Zenon DEF SysInv

\* Every step of a reader keeps the invariant.
LEMMA ReaderStepKeeps ==
  ASSUME Setting, SysInv, NEW j \in Joins, Step(j), UNCHANGED world
  PROVE  SysInv'
<1>1. CASE commit_state_updates(j)
  BY <1>1, EnclaveCommits
<1>2. CASE ~commit_state_updates(j)
  <2>1. LedgerInv'
    BY StepInv, Zenon DEF SysInv, Setting
  <2>2. UNCHANGED <<chain, log, state>>
    BY <1>2, OtherStepsStutter, Zenon
  <2> QED BY <2>1, <2>2, SysFrame
<1> QED BY <1>1, <1>2

\* So does a call of JOIN_CHANNEL.
LEMMA JoinKeeps ==
  ASSUME Setting, SysInv, NEW j \in Joins, NEW c \in Channels, joinChannel(j, c),
         UNCHANGED world
  PROVE  SysInv'
<1>1. LedgerInv'
  BY NextInv, Zenon DEF SysInv, Setting, Next
<1>2. UNCHANGED <<chain, log, state>>
  BY Zenon DEF joinChannel, enclaveVars
<1> QED BY <1>1, <1>2, SysFrame, Zenon

\* Every step of the peer and its trusted ledger keeps the invariant.
LEMMA SysNextInv == ASSUME Setting PROVE SysInv /\ [SysNext]_sysVars => SysInv'
<1> SUFFICES ASSUME SysInv, [SysNext]_sysVars PROVE SysInv'
  OBVIOUS
<1>1. CASE UNCHANGED sysVars
  <2>1. UNCHANGED vars /\ UNCHANGED world
    BY <1>1 DEF sysVars
  <2>2. LedgerInv'
    BY <2>1, NextInv, Zenon DEF SysInv, Setting
  <2>3. UNCHANGED <<chain, log, state>>
    BY <2>1, Zenon DEF vars, enclaveVars
  <2> QED BY <2>1, <2>2, <2>3, SysFrame, Zenon
<1> QED BY <1>1, CommitBlockKeeps, ReaderStepKeeps, JoinKeeps, Zenon DEF SysNext

\* What the invariant says of the enclaves is the agreement with the peer.
LEMMA SysInvAgrees == SysInv => AgreesWithPeer
<1> SUFFICES ASSUME SysInv, NEW e \in Joins, NEW c \in Channels, Len(log[e]) > 0,
                    NEW k \in Key \ OtherKeys
             PROVE  SameEntry(state[e][k], world[c][Len(log[e])][k])
  BY Zenon DEF AgreesWithPeer
<1>1. EnclaveAgrees(e, c)
  BY Zenon DEF SysInv
<1> QED BY <1>1, Zenon DEF EnclaveAgrees, Agrees

\* README: the ledger enclave "performs the same validation steps as the peer
\* when a new block arrives".  On a channel with a compatible workload it comes
\* to the same store: after any number of blocks of any length, whichever
\* readers feed it, an enclave holds for every key the value the peer holds,
\* from the same block.
THEOREM EnclaveAgreesWithPeer ==
  ASSUME Setting
  PROVE  SysSpec => []AgreesWithPeer
BY SysInitInv, SysNextInv, SysInvAgrees, PTL DEF SysSpec

----------------------------------------------------------------------------
(***************************************************************************)
(* What the chaincode enclave may conclude from a verified read.           *)
(***************************************************************************)

ReadRecord ==
  [chan : Channels, query : Lookups, height : Nat, verdict : {"none", "ok", "violation"},
   enclave : Joins \cup {NoEnclave}, upTo : Nat,
   view : UNION {[K -> Val \cup {NoVal}] : K \in SUBSET Key}]

\* What is known of a read: its values are those of the peer at its height; it
\* waits for at most one block; and its outcome has the reason it should have.
ReadOK(read) ==
  /\ read \in ReadRecord
  /\ read.height \in 1..Len(world[read.chan])
  /\ read.verdict = "none" => Len(world[read.chan]) <= read.height + 1
  /\ read.view = Values(read.chan, read.height, read.query.keys)
  /\ read.upTo <= Len(world[read.chan])
  /\ read.verdict = "ok" =>
       /\ read.upTo <= read.height + 1
       /\ read.view = Values(read.chan, read.upTo, read.query.keys)
  /\ read.verdict = "violation" =>
       \/ read.enclave = NoEnclave \/ CutShort(read.query)
       \/ read.view # Values(read.chan, read.upTo, read.query.keys)

ReadInv ==
  /\ SysInv
  /\ DOMAIN reads = Reads
  /\ \A i \in Reads : reads[i] # NoRead => ReadOK(reads[i])

\* The initial state satisfies the invariant.
LEMMA ReadInitInv == ASSUME Setting PROVE ReadInit => ReadInv
BY SysInitInv DEF ReadInit, ReadInv

\* Keys that are looked up are keys of the store.
LEMMA LookupKeys == ASSUME NEW q \in Lookups PROVE q.keys \subseteq Key
BY LookupsAssumption DEF Key

\* The values that the peer held at an earlier height stay what they were.
LEMMA ValuesStay ==
  ASSUME NEW c \in Channels, NEW n \in Nat, n <= Len(world[c]),
         Len(world[c]) \in Nat,
         \A h \in 1..Len(world[c]) : world'[c][h] = world[c][h], NEW K
  PROVE  Values(c, n, K)' = Values(c, n, K)
<1>1. n # 0 => world'[c][n] = world[c][n]
  OBVIOUS
<1> QED BY <1>1 DEF Values

\* The values that the ledger enclave holds are those of the peer, after as many
\* blocks as the enclave has committed.
LEMMA EnclaveValues ==
  ASSUME SysInv, NEW e \in Joins, NEW c \in Channels, NEW K, K \subseteq Key
  PROVE  /\ [k \in K |-> state[e][k].val] = Values(c, Len(log[e]), K)
         /\ Len(log[e]) \in Nat /\ Len(log[e]) <= Len(world[c])
<1>1. EnclaveAgrees(e, c)
  BY DEF SysInv
<1>2. Len(log[e]) \in Nat
  BY DEF SysInv, LedgerInv, TypeOK
<1>3. Len(log[e]) <= Len(world[c])
  BY <1>1, WorldType DEF EnclaveAgrees
<1>4. ASSUME NEW k \in K
      PROVE  state[e][k].val = IF Len(log[e]) = 0 THEN NoVal ELSE world[c][Len(log[e])][k].val
  <2>1. CASE Len(log[e]) = 0
    BY <1>1, <2>1 DEF EnclaveAgrees, EmptyKvs, Absent
  <2>2. CASE Len(log[e]) > 0
    BY SMTT(30), <1>1, <2>2 DEF EnclaveAgrees, Agrees, SameEntry
  <2> QED BY SMTT(30), <1>2, <2>1, <2>2
<1> QED BY <1>2, <1>3, <1>4, Zenon DEF Values

\* A read is not disturbed by a channel that grows, as long as the channel does
\* not grow beyond the one block that may wait for it.
LEMMA ReadStays ==
  ASSUME NEW read, ReadOK(read),
         Len(world[read.chan]) \in Nat, Len(world'[read.chan]) \in Nat,
         Len(world[read.chan]) <= Len(world'[read.chan]),
         \A h \in 1..Len(world[read.chan]) : world'[read.chan][h] = world[read.chan][h],
         read.verdict = "none" => Len(world'[read.chan]) <= read.height + 1
  PROVE  ReadOK(read)'
<1>1. /\ read.chan \in Channels /\ read.height \in Nat /\ read.upTo \in Nat
      /\ read.height <= Len(world[read.chan]) /\ read.upTo <= Len(world[read.chan])
  BY SMTT(30) DEF ReadOK, ReadRecord
<1>2. /\ Values(read.chan, read.height, read.query.keys)' =
           Values(read.chan, read.height, read.query.keys)
      /\ Values(read.chan, read.upTo, read.query.keys)' =
           Values(read.chan, read.upTo, read.query.keys)
  BY <1>1, ValuesStay, Zenon
<1>3. read.height \in 1..Len(world'[read.chan]) /\ read.upTo <= Len(world'[read.chan])
  BY SMTT(30), <1>1 DEF ReadOK
<1> QED BY <1>2, <1>3, Zenon DEF ReadOK

\* A step that changes neither the reads nor the peer's states.
LEMMA ReadsFrame ==
  ASSUME ReadInv, SysInv', UNCHANGED <<world, reads>>
  PROVE  ReadInv'
<1>1. ASSUME NEW i \in Reads, reads[i] # NoRead PROVE ReadOK(reads[i])'
  <2>1. ReadOK(reads[i])
    BY <1>1 DEF ReadInv
  <2> QED BY <2>1, Zenon DEF ReadOK, Values
<1> QED BY <1>1 DEF ReadInv

\* The peer commits a block: no read that waits is left behind further than one
\* block, because a read that has been left behind keeps the next block out.
LEMMA CommitKeepsReads ==
  ASSUME Setting, ReadInv, NEW c \in Channels, Settled(c), CommitBlock(c), UNCHANGED reads
  PROVE  ReadInv'
<1>1. SysInv /\ SysInv'
  BY CommitBlockKeeps DEF ReadInv
<1>2. /\ Len(world[c]) = Len(chain[c]) /\ Len(chain[c]) \in Nat
      /\ Len(world'[c]) = Len(chain'[c])
  <2>1. PeerInv(c)'
    BY <1>1 DEF SysInv
  <2> QED BY <1>1, <2>1, WorldType, Zenon DEF PeerInv
<1>3. /\ Len(chain'[c]) \in {Len(chain[c]), Len(chain[c]) + 1}
      /\ \A h \in 1..Len(chain[c]) : world'[c][h] = world[c][h]
  BY <1>1, PeerCommits, Zenon
<1>4. ASSUME NEW i \in Reads, reads[i] # NoRead PROVE ReadOK(reads[i])'
  <2> DEFINE read == reads[i]
  <2>1. ReadOK(read)
    BY <1>4 DEF ReadInv
  <2>2. read.chan = c /\ read.height \in Nat
    BY <2>1, Zenon DEF ReadOK, ReadRecord, Setting
  <2>3. read.verdict = "none" => read.height = Len(world[c])
    BY <1>4, <2>2, Zenon DEF Settled, Waiting
  <2>4. /\ Len(world'[c]) \in Nat /\ Len(world[c]) \in Nat
        /\ Len(world[c]) <= Len(world'[c]) /\ Len(world'[c]) <= Len(world[c]) + 1
    BY <1>2, <1>3
  <2>5. \A h \in 1..Len(world[c]) : world'[c][h] = world[c][h]
    BY <1>2, <1>3
  <2>6. read.verdict = "none" => Len(world'[c]) <= read.height + 1
    BY <2>3, <2>4
  <2> HIDE DEF read
  <2>7. ASSUME NEW x, x = read PROVE ReadOK(x)'
    BY <2>1, <2>2, <2>4, <2>5, <2>6, <2>7, ReadStays, Zenon
  <2>8. read' = read
    BY DEF read
  <2> QED BY <2>7, <2>8 DEF read
<1> QED BY <1>1, <1>4 DEF ReadInv

\* A query changes nothing that the ledger's invariant is about.
LEMMA AnswersKeep ==
  ASSUME LedgerInv, UNCHANGED <<chain, eid, enclaveVars, readerVars>>
  PROVE  LedgerInv'
<1> USE DEF enclaveVars, readerVars
<1>1. TypeOK'
  BY Zenon DEF LedgerInv, TypeOK, ReaderOK, TheBlock
<1>2. ChainInv' /\ \A e \in Joins : EnclaveInv(e)'
  BY EnclaveFrame DEF LedgerInv, ChainInv
<1>3. ASSUME NEW i \in Joins PROVE ReaderInv(i)'
  <2>1. TheBlock(i)' = TheBlock(i)
    BY DEF TheBlock
  <2> QED BY <2>1, ReaderFrame, Zenon DEF LedgerInv
<1> QED BY <1>1, <1>2, <1>3 DEF LedgerInv

\* The store's values, as a read sees them.
LEMMA ViewType ==
  ASSUME NEW s \in kvs_t, NEW K, K \subseteq Key
  PROVE  [k \in K |-> s[k].val] \in UNION {[J -> Val \cup {NoVal}] : J \in SUBSET Key}
<1>1. ASSUME NEW k \in K PROVE s[k].val \in Val \cup {NoVal}
  BY EntryType DEF kvs_value_t
<1>2. [k \in K |-> s[k].val] \in [K -> Val \cup {NoVal}]
  BY <1>1
<1> QED BY <1>2

\* A step that changes one read.
LEMMA OneReadChanges ==
  ASSUME ReadInv, SysInv', world' = world, NEW i \in Reads, NEW new,
         reads' = [reads EXCEPT ![i] = new], ReadOK(new)
  PROVE  ReadInv'
<1>1. ASSUME NEW r, ReadOK(r) PROVE ReadOK(r)'
  BY <1>1, ZenonT(40) DEF ReadOK, Values
<1>2. DOMAIN reads = Reads
  BY DEF ReadInv
<1>3. ASSUME NEW m \in Reads, reads'[m] # NoRead PROVE ReadOK(reads[m])'
  <2>1. CASE m = i
    BY <1>1, <1>2, <2>1
  <2>2. CASE m # i
    <3>1. PICK r : r = reads[m]
      OBVIOUS
    <3>2. reads'[m] = r
      BY <1>2, <2>2, <3>1
    <3>3. ReadOK(r)
      BY <1>3, <3>1, <3>2 DEF ReadInv
    <3> QED BY <1>1, <3>2, <3>3
  <2> QED BY <2>1, <2>2
<1> QED BY <1>2, <1>3 DEF ReadInv

\* The peer returns the values of its current state.
LEMMA FetchKeeps ==
  ASSUME ReadInv, NEW i \in Reads, NEW c \in Channels, NEW q \in Lookups, Fetch(i, c, q)
  PROVE  ReadInv'
<1>1. SysInv /\ UNCHANGED sysVars /\ DOMAIN reads = Reads
  BY Zenon DEF ReadInv, Fetch
<1>2. UNCHANGED vars /\ world' = world
  BY <1>1 DEF sysVars
<1>3. SysInv'
  <2>1. /\ UNCHANGED <<chain, log, state>>
        /\ LedgerInv /\ UNCHANGED <<chain, eid, enclaveVars, readerVars>>
    BY <1>1, <1>2, Zenon DEF vars, enclaveVars, SysInv
  <2>2. LedgerInv'
    BY <2>1, AnswersKeep
  <2> QED BY <1>1, <1>2, <2>1, <2>2, SysFrame, Zenon
<1> DEFINE n == Len(world[c])
           new == [chan |-> c, query |-> q, height |-> n, verdict |-> "none",
                   enclave |-> NoEnclave, upTo |-> 0,
                   view |-> [k \in q.keys |-> Committed(c)[k].val]]
<1>4. reads' = [reads EXCEPT ![i] = new]
  BY Zenon DEF Fetch
<1>5. n \in Nat \ {0} /\ Committed(c) = world[c][n] /\ Committed(c) \in kvs_t
  BY <1>1, WorldType
<1>6. q.keys \subseteq Key
  BY LookupKeys, Zenon
<1>7. new \in ReadRecord
  <2>1. [k \in q.keys |-> Committed(c)[k].val] \in
          UNION {[J -> Val \cup {NoVal}] : J \in SUBSET Key}
    BY <1>5, <1>6, ViewType, Zenon
  <2> QED BY <1>5, <2>1, Zenon DEF ReadRecord
<1>8. new.view = Values(c, n, q.keys)
  BY <1>5, Zenon DEF Values
<1>9. /\ new.chan = c /\ new.query = q /\ new.height = n /\ new.verdict = "none" /\ new.upTo = 0
  BY SMTT(30)
<1>10. ReadOK(new)
  <2> HIDE DEF new
  <2>1. /\ n \in 1..Len(world[c]) /\ Len(world[c]) <= n + 1 /\ 0 <= Len(world[c])
        /\ new.verdict # "ok" /\ new.verdict # "violation"
    BY SMTT(30), <1>5, <1>9
  <2> QED BY <1>7, <1>8, <1>9, <2>1, Zenon DEF ReadOK
<1> HIDE DEF new, n
<1>11. PICK r : r = new
  OBVIOUS
<1> QED BY <1>2, <1>3, <1>4, <1>10, <1>11, OneReadChanges, Zenon

\* The chaincode enclave verifies a read, whatever became of the ledger enclave
\* since the values were taken.
LEMMA VerifyKeeps ==
  ASSUME Setting, ReadInv, NEW i \in Reads, Verify(i)
  PROVE  ReadInv'
<1>1. PICK read : read = reads[i]
  OBVIOUS
<1>2. SysInv /\ ReadOK(read) /\ read.verdict = "none"
  BY <1>1 DEF ReadInv, Verify, Waiting
<1>3. SysInv'
  <2>1. /\ LedgerInv /\ UNCHANGED <<chain, eid, enclaveVars, readerVars>>
        /\ UNCHANGED <<chain, log, state, world>>
    BY <1>2, Zenon DEF Verify, getStateMetadata, SysInv, enclaveVars
  <2>2. LedgerInv'
    BY <2>1, AnswersKeep, Zenon
  <2> QED BY <1>2, <2>1, <2>2, SysFrame, Zenon
<1> DEFINE e == IF answer' = NoAnswer THEN NoEnclave ELSE eid
           ok == check_cmac(read.query, read.view, e)
           n == IF e = NoEnclave THEN 0 ELSE Len(log[e])
           new == [read EXCEPT !.verdict = IF ok THEN "ok" ELSE "violation",
                               !.enclave = e, !.upTo = n]
<1>4. reads' = [reads EXCEPT ![i] = new] /\ world' = world
  BY <1>1 DEF Verify
<1>5. /\ read.chan \in Channels /\ read.query.keys \subseteq Key
      /\ read \in ReadRecord /\ read.height \in Nat
  BY <1>2, LookupKeys, Zenon DEF ReadOK, ReadRecord
<1>6. /\ Len(world[read.chan]) \in Nat
      /\ read.height \in 1..Len(world[read.chan])
      /\ Len(world[read.chan]) <= read.height + 1
      /\ read.view = Values(read.chan, read.height, read.query.keys)
  BY <1>2, <1>5, WorldType, Zenon DEF ReadOK
<1>7. /\ n \in Nat /\ n <= Len(world[read.chan]) /\ e \in Joins \cup {NoEnclave}
      /\ ok => read.view = Values(read.chan, n, read.query.keys)
      /\ ~ok => \/ e = NoEnclave \/ CutShort(read.query)
                \/ read.view # Values(read.chan, n, read.query.keys)
  <2>1. CASE e # NoEnclave
    <3>1. eid \in Joins /\ n = Len(log[eid]) /\ e = eid
      BY <2>1 DEF Verify, getStateMetadata, Alive
    <3>2. /\ [k \in read.query.keys |-> state[eid][k].val] = Values(read.chan, n, read.query.keys)
          /\ n \in Nat /\ n <= Len(world[read.chan])
      BY SMTT(30), <1>2, <1>5, <3>1, EnclaveValues
    <3>3. ok <=> ~CutShort(read.query) /\ read.view = Values(read.chan, n, read.query.keys)
      BY <2>1, <3>1, <3>2, Zenon DEF check_cmac
    <3> QED BY <3>1, <3>2, <3>3, Zenon
  <2>2. CASE e = NoEnclave
    BY SMTT(30), <1>6, <2>2 DEF check_cmac
  <2> QED BY <2>1, <2>2, Zenon
<1> HIDE DEF ok, n, e
<1>8. /\ new \in ReadRecord
      /\ new.chan = read.chan /\ new.query = read.query /\ new.height = read.height
      /\ new.view = read.view /\ new.enclave = e /\ new.upTo = n
      /\ new.verdict = IF ok THEN "ok" ELSE "violation"
  BY <1>5, <1>7, Zenon DEF ReadRecord
<1> HIDE DEF new
<1>9. n <= read.height + 1
  BY SMTT(30), <1>5, <1>6, <1>7
<1>10. ReadOK(new)
  BY <1>6, <1>7, <1>8, <1>9, Zenon DEF ReadOK
<1>11. PICK r : r = new
  OBVIOUS
<1> QED BY <1>3, <1>4, <1>10, <1>11, OneReadChanges, Zenon

\* Every step keeps the invariant.
LEMMA ReadNextInv == ASSUME Setting PROVE ReadInv /\ [ReadNext]_readVars => ReadInv'
<1> SUFFICES ASSUME ReadInv, [ReadNext]_readVars PROVE ReadInv'
  OBVIOUS
<1>1. SysInv
  BY DEF ReadInv
<1>2. ASSUME NEW j \in Joins, NEW c \in Channels, joinChannel(j, c), UNCHANGED <<world, reads>>
      PROVE  ReadInv'
  BY <1>1, <1>2, JoinKeeps, ReadsFrame
<1>3. ASSUME NEW j \in Joins, Step(j), UNCHANGED <<world, reads>> PROVE ReadInv'
  BY <1>1, <1>3, ReaderStepKeeps, ReadsFrame
<1>4. CASE UNCHANGED readVars
  <2>1. UNCHANGED sysVars /\ UNCHANGED <<world, reads>>
    BY <1>4 DEF readVars, sysVars
  <2>2. SysInv'
    BY <1>1, <2>1, SysNextInv
  <2> QED BY <2>1, <2>2, ReadsFrame
<1> QED BY <1>2, <1>3, <1>4, CommitKeepsReads, FetchKeeps, VerifyKeeps, Zenon DEF ReadNext

\* The invariant holds in every reachable state.
LEMMA ReadInvHolds == ASSUME Setting PROVE ReadSpec => []ReadInv
BY ReadInitInv, ReadNextInv, PTL DEF ReadSpec

----------------------------------------------------------------------------

\* Reads of the chaincode enclave do not come between the ledger enclave and
\* the peer: they agree with them as well.
THEOREM AgreesWhileReading ==
  ASSUME Setting
  PROVE  ReadSpec => []AgreesWithPeer
<1>1. ReadInv => AgreesWithPeer
  BY SysInvAgrees DEF ReadInv
<1> QED BY <1>1, ReadInvHolds, PTL

\* "cmac correct" (ecc_enclave, get_state): the values of a verified read are
\* what the channel held after the blocks that the ledger enclave had committed,
\* at most one more than the peer's state had seen.
THEOREM VerifiedReadsAreCommitted ==
  ASSUME Setting
  PROVE  ReadSpec => []VerifiedValuesAreCommitted
<1>1. ReadInv => VerifiedValuesAreCommitted
  <2> SUFFICES ASSUME ReadInv, NEW i \in Reads, reads[i] # NoRead, reads[i].verdict = "ok"
               PROVE  /\ reads[i].upTo \in 0..(reads[i].height + 1)
                      /\ reads[i].view =
                           Values(reads[i].chan, reads[i].upTo, reads[i].query.keys)
    BY Zenon DEF VerifiedValuesAreCommitted
  <2>1. ReadOK(reads[i])
    BY Zenon DEF ReadInv
  <2> QED BY SMTT(30), <2>1 DEF ReadOK, ReadRecord
<1> QED BY <1>1, ReadInvHolds, PTL

\* "VIOLATION!!!" is reported of an honest peer only when the ledger enclave does
\* not answer, when the key was cut short, or when the enclave is at another
\* height, at which the values differ.
THEOREM HonestReadsAreVerified ==
  ASSUME Setting
  PROVE  ReadSpec => []HonestReadsVerify
<1>1. ReadInv => HonestReadsVerify
  <2> SUFFICES ASSUME ReadInv, NEW i \in Reads, reads[i] # NoRead,
                      reads[i].verdict = "violation"
               PROVE  \/ reads[i].enclave = NoEnclave \/ CutShort(reads[i].query)
                      \/ /\ reads[i].upTo # reads[i].height
                         /\ reads[i].view #
                              Values(reads[i].chan, reads[i].upTo, reads[i].query.keys)
    BY Zenon DEF HonestReadsVerify
  <2>1. ReadOK(reads[i])
    BY Zenon DEF ReadInv
  <2> QED BY <2>1, Zenon DEF ReadOK
<1> QED BY <1>1, ReadInvHolds, PTL
=============================================================================
