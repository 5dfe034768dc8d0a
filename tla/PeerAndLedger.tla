--------------------------- MODULE PeerAndLedger ---------------------------
(***************************************************************************)
(* A Fabric peer and its trusted ledger on one channel.  The peer is       *)
(* external code, modelled from how this repository uses it: it simulates  *)
(* proposals against its current state, orders the endorsed transactions   *)
(* into blocks, validates a block with the vscc plugins and MVCC, records  *)
(* the verdicts in the transactions filter, and stores the block, which    *)
(* the readers of TrustedLedger then pass to the ledger enclave.           *)
(***************************************************************************)
EXTENDS TrustedLedger

CONSTANTS
  Templates,   \* what a proposal reads, scans and writes
  MaxBlockTxs  \* bound on the transactions of a block

Template ==
  [gets : SUBSET Key, scans : SUBSET (SUBSET CompositeKeys),
   lscc : Seq(Write(LsccKeys)), ercc : Seq(Write(ErccKeys)),
   ecc : Seq(Write(EccKeys)),
   signed : BOOLEAN]   \* whether the vscc plugin of its namespace accepts it

ASSUME TemplatesAssumption ==
  /\ Templates \subseteq Template
  /\ MaxBlockTxs \in Nat \ {0}

VARIABLE world  \* world[c][h]: the peer's state after the first h blocks of c

sysVars == <<vars, world>>

Committed(c) == world[c][Len(world[c])]

SysInit ==
  /\ Init
  /\ world = [c \in Channels |-> <<EmptyKvs>>]

----------------------------------------------------------------------------

\* The rows a range query over the keys K returns, with their versions.
Rows(kvs, K) ==
  {[key |-> k, ver |-> kvs[k].ver, range |-> TRUE] :
     k \in {x \in K : kvs[x] # Absent}}

\* A read of a missing key carries no version, which decodes as <<0, 0>>.
Simulate(t, kvs) ==
  [tmpl |-> t,
   gets |-> {[key |-> k, ver |-> kvs[k].ver, range |-> FALSE] : k \in t.gets},
   scans |-> [K \in t.scans |-> Rows(kvs, K)]]

\* What a client may have submitted when the channel is at height n:
\* transactions endorsed at that height or before, each any number of times.
Endorsed(c, n) == {Simulate(t, world[c][h]) : t \in Templates, h \in 1..n}

ENDORSEMENT_POLICY_FAILURE == 10
MVCC_READ_CONFLICT == 11
PHANTOM_READ_CONFLICT == 12

\* The peer's verdict on p, given the state with the earlier valid writes of
\* the block: a read is good only if its version is unchanged.
Verdict(p, now) ==
  IF ~p.tmpl.signed THEN ENDORSEMENT_POLICY_FAILURE
  ELSE IF \E g \in p.gets : now[g.key].ver # g.ver THEN MVCC_READ_CONFLICT
  ELSE IF \E K \in DOMAIN p.scans : Rows(now, K) # p.scans[K]
       THEN PHANTOM_READ_CONFLICT
  ELSE 0

WritesOf(t) ==
  LET Of(ws) == {ws[i] : i \in 1..Len(ws)}
  IN  Of(t.lscc) \cup Of(t.ercc) \cup Of(t.ecc)

\* Every write of p with its own value; a write set holds a key once.
PeerWrites(p, now, ver) ==
  [k \in Key |-> IF \E x \in WritesOf(p.tmpl) : x.key = k
                 THEN [val |-> (CHOOSE x \in WritesOf(p.tmpl) : x.key = k).val, ver |-> ver]
                 ELSE now[k]]

AfterTx(p, now, ver) == IF Verdict(p, now) = 0 THEN PeerWrites(p, now, ver) ELSE now

\* The peer's state after each transaction of the block ps with number n.
PeerRun(ps, st, n) ==
  LET after[i \in 0..Len(ps)] ==
        IF i = 0 THEN st ELSE AfterTx(ps[i], after[i-1], <<n, i-1>>)
  IN  after

EnvelopeOf(p, flag) ==
  [flag |-> flag, form |-> "ok", type |-> "ENDORSER_TRANSACTION",
   reads |-> p.gets \cup UNION {p.scans[K] : K \in DOMAIN p.scans},
   lscc |-> p.tmpl.lscc, ercc |-> p.tmpl.ercc, ecc |-> p.tmpl.ecc]

\* The block of the transactions ps, with the peer's verdicts.
BlockOf(ps, after) ==
  [ok |-> TRUE,
   txs |-> [i \in 1..Len(ps) |-> EnvelopeOf(ps[i], Verdict(ps[i], after[i-1]))]]

Orders(S) == UNION {[1..n -> S] : n \in 1..MaxBlockTxs}

CommitBlock(c) ==
  LET n == Len(chain[c])
  IN  /\ n < MaxHeight
      /\ \E ps \in Orders(Endorsed(c, n)) :
           LET after == PeerRun(ps, Committed(c), n)
           IN  /\ chain' = [chain EXCEPT ![c] = Append(@, BlockOf(ps, after))]
               /\ world' = [world EXCEPT ![c] = Append(@, after[Len(ps)])]
      /\ UNCHANGED <<eid, enclaveVars, readerVars, answer>>

SysNext ==
  \/ \E c \in Channels : CommitBlock(c)
  \/ /\ \/ \E j \in Joins, c \in Channels : joinChannel(j, c)
        \/ \E j \in Joins : Step(j)
     /\ UNCHANGED world

SysSpec == SysInit /\ [][SysNext]_sysVars

----------------------------------------------------------------------------
(* Properties *)

\* Workloads on which the enclave's rules come to the peer's verdicts.  The
\* enclave does not look at the plugins' verdicts, finds no phantoms, does not
\* find composite keys that are read by themselves, stores the first ercc write
\* only and all the ecc writes with the value of the first, and of two writes
\* to a key in a block it keeps the first.
Compatible(T) ==
  \A t \in T :
    /\ t.signed
    /\ WritesOf(t) # {} => t.scans = {} /\ t.gets \cap CompositeKeys = {}
    /\ \A x, y \in WritesOf(t) : x.key = y.key => x = y
    /\ Len(t.ercc) <= 1
    /\ \A i \in 1..Len(t.ecc) : t.ecc[i].val = t.ecc[1].val
    /\ \A u \in T : \A x \in WritesOf(t), y \in WritesOf(u) :
         x.key = y.key => x.val = y.val \/ x.key \in t.gets \cap u.gets

\* Block 0 of a channel holds its configuration, no chaincode transactions.
GenesisIsConfig == \A i \in 1..Len(Genesis.txs) : ~Executes(Genesis.txs[i])

\* The enclave's entry e against the peer's entry p: the same value, written in
\* the same block, by the same transaction or by an earlier one that wrote the
\* same (of two equal writes in a block the enclave keeps the first).
SameEntry(e, p) ==
  e.val = p.val /\ e.ver[1] = p.ver[1] /\ e.ver[2] <= p.ver[2]

\* "It performs the same validation steps as the peer": after n blocks the
\* enclave's store equals the peer's store after those n blocks, entry by
\* entry, for the namespaces the enclave tracks.
AgreesWithPeer ==
  \A e \in Joins, c \in Channels :
    LET n == Len(log[e])
    IN  (n > 0 /\ chan[e] = c) =>
          \A k \in Key \ OtherKeys : SameEntry(state[e][k], world[c][n][k])
=============================================================================
