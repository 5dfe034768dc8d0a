---------------------------- MODULE BlockProofs ----------------------------
(***************************************************************************)
(* One block, at the peer and in the ledger enclave: both come to the same *)
(* verdict on each of its transactions, and to stores that correspond.     *)
(***************************************************************************)
EXTENDS PeerAndLedger, TrustedLedgerProofs, WellFoundedInduction

\* Blocks are built as functions on 1..m, and read as sequences.
LEMMA FunctionIsSeq ==
  ASSUME NEW S, NEW m \in Nat, NEW f \in [1..m -> S]
  PROVE  f \in Seq(S)
OBVIOUS

\* A block of endorsed proposals is a block of proposals.
LEMMA SeqOfSubset ==
  ASSUME NEW S, NEW T, NEW s \in Seq(S), S \subseteq T
  PROVE  s \in Seq(T)
OBVIOUS

----------------------------------------------------------------------------
(***************************************************************************)
(* The peer's side of a block.                                             *)
(***************************************************************************)

\* s is w or an earlier state of the peer, at height n: an entry that differs
\* has been replaced by one of a later block.
Earlier(s, w, n) ==
  \A k \in Key :
    /\ s[k].ver[1] < n
    /\ s[k] = w[k] \/ (w[k] # Absent /\ s[k].ver[1] < w[k].ver[1])

\* The transactions that block n may hold when the peer's state is w.
Proposals(w, n) ==
  {Simulate(t, s) : t \in Templates, s \in {x \in kvs_t : Earlier(x, w, n)}}

\* The parts of an entry, whether there is one or not.
LEMMA EntryType ==
  ASSUME NEW s \in kvs_t, NEW k \in Key
  PROVE  /\ s[k] = Absent \/ (s[k] \in kvs_value_t /\ s[k] # Absent)
         /\ s[k].ver \in version_t
         /\ s[k].val = NoVal <=> s[k] = Absent
<1>1. s[k] \in kvs_value_t \cup {Absent}
  BY DEF kvs_t
<1>2. Absent.ver \in version_t /\ Absent.val = NoVal
  BY DEF Absent, version_t
<1>3. ASSUME s[k] \in kvs_value_t
      PROVE  s[k].ver \in version_t /\ s[k].val # NoVal /\ s[k] # Absent
  BY <1>3, AbsentIsNoValue, KeysAssumption DEF kvs_value_t
<1> QED BY <1>1, <1>2, <1>3

\* What a template writes.
LEMMA WritesType ==
  ASSUME NEW t \in Template, NEW x \in WritesOf(t)
  PROVE  x.key \in Key /\ x.val \in Val /\ x.key \notin OtherKeys
<1>1. /\ t.lscc \in Seq(Write(LsccKeys))
      /\ t.ercc \in Seq(Write(ErccKeys))
      /\ t.ecc \in Seq(Write(EccKeys))
  BY DEF Template
<1>2. x \in Write(LsccKeys) \cup Write(ErccKeys) \cup Write(EccKeys)
  BY <1>1 DEF WritesOf
<1> QED BY <1>2, KeysAssumption DEF Write, Key

\* What a transaction leaves of an entry: a valid one replaces the entries it
\* writes, with its version; any other transaction leaves everything.
LEMMA AfterTxEntry ==
  ASSUME NEW p, p.tmpl \in Template, NEW now \in kvs_t, NEW ver \in version_t, NEW k \in Key
  PROVE  \/ /\ AfterTx(p, now, ver)[k] = now[k]
            /\ Verdict(p, now) = 0 => ~ \E x \in WritesOf(p.tmpl) : x.key = k
         \/ /\ Verdict(p, now) = 0
            /\ \E x \in WritesOf(p.tmpl) :
                 x.key = k /\ AfterTx(p, now, ver)[k] = [val |-> x.val, ver |-> ver]
<1>1. CASE Verdict(p, now) # 0
  BY <1>1 DEF AfterTx
<1>2. CASE Verdict(p, now) = 0
  <2>1. AfterTx(p, now, ver) = PeerWrites(p, now, ver)
    BY <1>2 DEF AfterTx
  <2>2. CASE ~ \E x \in WritesOf(p.tmpl) : x.key = k
    BY <2>1, <2>2 DEF PeerWrites
  <2>3. CASE \E x \in WritesOf(p.tmpl) : x.key = k
    <3> DEFINE x == CHOOSE y \in WritesOf(p.tmpl) : y.key = k
    <3>1. x \in WritesOf(p.tmpl) /\ x.key = k
      BY <2>3
    <3>2. PeerWrites(p, now, ver)[k] = [val |-> x.val, ver |-> ver]
      BY <2>3 DEF PeerWrites
    <3> HIDE DEF x
    <3> QED BY <1>2, <2>1, <3>1, <3>2
  <2> QED BY <2>2, <2>3
<1> QED BY <1>1, <1>2

\* A transaction turns a state of the peer into a state.
LEMMA AfterTxType ==
  ASSUME NEW p, p.tmpl \in Template, NEW now \in kvs_t, NEW ver \in version_t
  PROVE  AfterTx(p, now, ver) \in kvs_t
<1>1. ASSUME NEW k \in Key PROVE AfterTx(p, now, ver)[k] \in kvs_value_t \cup {Absent}
  <2>1. now[k] \in kvs_value_t \cup {Absent}
    BY DEF kvs_t
  <2>2. ASSUME NEW x \in WritesOf(p.tmpl) PROVE [val |-> x.val, ver |-> ver] \in kvs_value_t
    BY WritesType DEF kvs_value_t
  <2>3. \/ AfterTx(p, now, ver)[k] = now[k]
        \/ \E x \in WritesOf(p.tmpl) : AfterTx(p, now, ver)[k] = [val |-> x.val, ver |-> ver]
    BY AfterTxEntry
  <2> QED BY ONLY <2>1, <2>2, <2>3, Zenon
<1>2. CASE Verdict(p, now) # 0
  BY <1>2 DEF AfterTx
<1>3. CASE Verdict(p, now) = 0
  <2>1. AfterTx(p, now, ver) = [k \in Key |-> AfterTx(p, now, ver)[k]]
    BY <1>3 DEF AfterTx, PeerWrites
  <2> QED BY <1>1, <2>1 DEF kvs_t
<1> QED BY <1>2, <1>3

\* f is the peer's run of the first m transactions of ps.
IsPeerRun(f, m, ps, w, n) ==
  /\ f \in [0..m -> kvs_t]
  /\ f[0] = w
  /\ \A i \in 1..m : f[i] = AfterTx(ps[i], f[i-1], <<n, i-1>>)

\* One more transaction extends the run.
LEMMA PeerRunExtend ==
  ASSUME NEW P, \A p \in P : p.tmpl \in Template, NEW ps \in Seq(P),
         NEW w \in kvs_t, NEW n \in Nat,
         NEW m \in Nat, m < Len(ps), NEW f, IsPeerRun(f, m, ps, w, n)
  PROVE  \E h : IsPeerRun(h, m + 1, ps, w, n)
<1>1. m + 1 \in 1..Len(ps) /\ ps[m+1] \in P /\ ps[m+1].tmpl \in Template
  OBVIOUS
<1> DEFINE new == AfterTx(ps[m+1], f[m], <<n, m>>)
           h == [i \in 0..(m+1) |-> IF i <= m THEN f[i] ELSE new]
<1>2. new \in kvs_t
  <2>1. f[m] \in kvs_t
    BY DEF IsPeerRun
  <2>2. <<n, m>> \in version_t
    BY DEF version_t
  <2> QED BY <1>1, <2>1, <2>2, AfterTxType
<1> HIDE DEF new
<1>3. h \in [0..(m+1) -> kvs_t] /\ h[0] = w
  BY <1>2 DEF IsPeerRun
<1>4. ASSUME NEW i \in 1..(m+1) PROVE h[i] = AfterTx(ps[i], h[i-1], <<n, i-1>>)
  <2>1. CASE i <= m
    BY <2>1 DEF IsPeerRun
  <2>2. CASE i = m + 1
    <3>1. i - 1 = m /\ h[i] = new /\ h[m] = f[m]
      BY <2>2
    <3> HIDE DEF h
    <3> QED BY <2>2, <3>1 DEF new
  <2> QED BY <2>1, <2>2
<1> HIDE DEF h
<1>5. IsPeerRun(h, m + 1, ps, w, n)
  BY <1>3, <1>4 DEF IsPeerRun
<1> QED BY <1>5

\* A transaction was simulated from a template, at an earlier state.
LEMMA ProposalParts ==
  ASSUME NEW w, NEW n, NEW p \in Proposals(w, n)
  PROVE  /\ p.tmpl \in Templates /\ p.tmpl \in Template
         /\ \E s \in kvs_t : Earlier(s, w, n) /\ p = Simulate(p.tmpl, s)
<1>1. PICK t \in Templates, s \in {x \in kvs_t : Earlier(x, w, n)} : p = Simulate(t, s)
  BY DEF Proposals
<1>2. p.tmpl = t
  BY <1>1 DEF Simulate
<1> QED BY <1>1, <1>2, TemplatesAssumption

\* The codes of the transactions filter.
LEMMA VerdictCode ==
  ASSUME NEW p, NEW now
  PROVE  Verdict(p, now) \in {0, 10, 11, 12}
BY DEF Verdict, ENDORSEMENT_POLICY_FAILURE, MVCC_READ_CONFLICT, PHANTOM_READ_CONFLICT

\* The envelope of an endorsed transaction is one.
LEMMA EnvelopeType ==
  ASSUME NEW w, NEW n, NEW p \in Proposals(w, n), NEW flag \in 0..255
  PROVE  EnvelopeOf(p, flag) \in Envelope
<1>1. p.tmpl \in Template
  BY ProposalParts
<1>2. PICK s \in kvs_t : p = Simulate(p.tmpl, s)
  BY ProposalParts
<1>3. ASSUME NEW k \in Key, NEW b \in BOOLEAN
      PROVE  [key |-> k, ver |-> s[k].ver, range |-> b] \in Read
  BY EntryType DEF Read
<1>4. p.gets \subseteq Read
  <2>1. p.gets = {[key |-> k, ver |-> s[k].ver, range |-> FALSE] : k \in p.tmpl.gets}
    BY <1>2 DEF Simulate
  <2>2. p.tmpl.gets \subseteq Key
    BY <1>1 DEF Template
  <2> QED BY <1>3, <2>1, <2>2, Zenon
<1>5. ASSUME NEW K \in DOMAIN p.scans PROVE p.scans[K] \subseteq Read
  <2>1. K \in p.tmpl.scans /\ p.scans[K] = Rows(s, K)
    BY <1>2 DEF Simulate
  <2>2. K \subseteq Key
    BY <1>1, <2>1, KeysAssumption DEF Template, Key
  <2> QED BY <1>3, <2>1, <2>2, Zenon DEF Rows
<1>6. p.gets \cup UNION {p.scans[K] : K \in DOMAIN p.scans} \subseteq Read
  BY <1>4, <1>5
<1>7. /\ p.tmpl.lscc \in Seq(Write(LsccKeys)) /\ p.tmpl.ercc \in Seq(Write(ErccKeys))
      /\ p.tmpl.ecc \in Seq(Write(EccKeys))
  BY <1>1 DEF Template
<1> QED BY <1>6, <1>7, Zenon DEF EnvelopeOf, Envelope

\* The block that the peer stores for ps.
LEMMA BlockOfType ==
  ASSUME NEW w, NEW n, NEW ps \in Seq(Proposals(w, n)), NEW after
  PROVE  /\ BlockOf(ps, after) \in Block
         /\ Len(BlockOf(ps, after).txs) = Len(ps)
         /\ \A i \in 1..Len(ps) : BlockOf(ps, after).txs[i] =
                                    EnvelopeOf(ps[i], Verdict(ps[i], after[i-1]))
<1> DEFINE txs == [i \in 1..Len(ps) |-> EnvelopeOf(ps[i], Verdict(ps[i], after[i-1]))]
<1>1. Len(ps) \in Nat
  OBVIOUS
<1>2. ASSUME NEW i \in 1..Len(ps) PROVE txs[i] \in Envelope
  <2>1. ps[i] \in Proposals(w, n)
    OBVIOUS
  <2>2. Verdict(ps[i], after[i-1]) \in 0..255
    BY SMTT(30), VerdictCode
  <2> QED BY <2>1, <2>2, EnvelopeType, Zenon
<1>3. txs \in [1..Len(ps) -> Envelope]
  BY <1>2
<1> HIDE DEF txs
<1>4. txs \in Seq(Envelope)
  BY <1>1, <1>3, FunctionIsSeq
<1>5. Len(txs) = Len(ps)
  BY <1>1, <1>3, <1>4
<1>6. BlockOf(ps, after) = [ok |-> TRUE, txs |-> txs]
  BY DEF BlockOf, txs
<1>7. BlockOf(ps, after) \in Block /\ BlockOf(ps, after).txs = txs
  BY <1>4, <1>6 DEF Block
<1> QED BY <1>5, <1>7 DEF txs

\* Within block n an entry is the one before the block, or has its number.
Grown(w, now, n) ==
  \A k \in Key : now[k] = w[k] \/ (now[k] # Absent /\ now[k].ver[1] = n)

\* What was an earlier state stays one, and the state after a block is one.
LEMMA StatesGetOlder ==
  ASSUME NEW w \in kvs_t, NEW now \in kvs_t, NEW n \in Nat, Grown(w, now, n)
  PROVE  /\ \A s \in kvs_t : Earlier(s, w, n) => Earlier(s, now, n + 1)
         /\ Earlier(w, w, n) => Earlier(now, now, n + 1)
<1>1. ASSUME NEW s \in kvs_t, Earlier(s, w, n), NEW k \in Key
      PROVE  /\ s[k].ver[1] < n + 1
             /\ s[k] = now[k] \/ (now[k] # Absent /\ s[k].ver[1] < now[k].ver[1])
  <2>1. /\ s[k].ver[1] < n
        /\ s[k] = w[k] \/ (w[k] # Absent /\ s[k].ver[1] < w[k].ver[1])
    BY <1>1 DEF Earlier
  <2>2. s[k].ver[1] \in Nat
    BY EntryType DEF version_t
  <2>3. now[k] = w[k] \/ (now[k] # Absent /\ now[k].ver[1] = n)
    BY DEF Grown
  <2> QED BY <2>1, <2>2, <2>3
<1>2. ASSUME Earlier(w, w, n), NEW k \in Key PROVE now[k].ver[1] < n + 1
  <2>1. w[k].ver[1] < n /\ w[k].ver[1] \in Nat
    BY <1>2, EntryType DEF Earlier, version_t
  <2> QED BY <2>1 DEF Grown
<1> QED BY <1>1, <1>2, Zenon DEF Earlier

----------------------------------------------------------------------------
(***************************************************************************)
(* The enclave's side of a block, next to the peer's.                      *)
(***************************************************************************)

\* The enclave's store st against the peer's state w.
Agrees(st, w) == \A k \in Key : SameEntry(st[k], w[k])

\* An entry of the enclave's updates, e, against the peer's entry of the key k,
\* p, after i transactions of block n, which found the peer's entry q.
EntryInStep(q, e, p, k, n, i) ==
  \/ e = Absent /\ p = q
  \/ /\ e # Absent /\ SameEntry(e, p)
     /\ p.ver[1] = n /\ p.ver[2] < i
     /\ \E u \in Templates : \E y \in WritesOf(u) : y.key = k /\ y.val = p.val

\* The enclave's updates upd and the peer's state now, which was w before the
\* block.
InStep(w, upd, now, n, i) ==
  \A k \in Key : EntryInStep(w[k], upd[k], now[k], k, n, i)

\* A read of one key that was simulated at the earlier state s: the peer finds
\* its version unchanged if and only if the enclave finds no conflict, neither
\* in its store nor in what the block wrote so far.
LEMMA ConflictsAgree ==
  ASSUME NEW w \in kvs_t, NEW st \in kvs_t, NEW upd \in kvs_t, NEW now \in kvs_t,
         NEW s \in kvs_t, NEW n \in Nat, NEW i \in Nat, NEW k \in Key,
         Agrees(st, w), InStep(w, upd, now, n, i), Earlier(s, w, n)
  PROVE  now[k].ver = s[k].ver <=>
           /\ ~has_version_conflict(k, st, s[k].ver)
           /\ ~has_version_conflict(k, upd, s[k].ver)
<1>1. /\ s[k].ver \in version_t /\ st[k].ver \in version_t /\ upd[k].ver \in version_t
      /\ now[k].ver \in version_t /\ w[k].ver \in version_t
  BY EntryType
<1>2. SameEntry(st[k], w[k])
  BY DEF Agrees
<1>3. /\ s[k].ver[1] < n
      /\ s[k] = w[k] \/ (w[k] # Absent /\ s[k].ver[1] < w[k].ver[1])
  BY Zenon DEF Earlier
<1>4. CASE upd[k] = Absent /\ now[k] = w[k]
  <2>1. ~has_version_conflict(k, upd, s[k].ver)
    BY <1>4 DEF has_version_conflict
  <2>2. CASE s[k] = w[k]
    <3>1. cmp_version(s[k].ver, st[k].ver) # -1
      BY SMTT(30), <1>1, <1>2, <2>2 DEF cmp_version, version_t, SameEntry
    <3> QED BY <1>4, <2>1, <2>2, <3>1 DEF has_version_conflict
  <2>3. CASE w[k] # Absent /\ s[k].ver[1] < w[k].ver[1]
    <3>1. st[k] # Absent
      BY <1>2, <2>3, EntryType, Zenon DEF SameEntry
    <3>2. cmp_version(s[k].ver, st[k].ver) = -1
      BY <1>1, <1>2, <2>3, EarlierBlockIsSmaller, Zenon DEF SameEntry
    <3>3. now[k].ver # s[k].ver
      BY <1>1, <1>4, <2>3 DEF version_t
    <3> QED BY <3>1, <3>2, <3>3 DEF has_version_conflict
  <2> QED BY <1>3, <2>2, <2>3, Zenon
<1>5. CASE upd[k] # Absent /\ SameEntry(upd[k], now[k]) /\ now[k].ver[1] = n
  <2>1. cmp_version(s[k].ver, upd[k].ver) = -1
    BY <1>1, <1>3, <1>5, EarlierBlockIsSmaller, Zenon DEF SameEntry
  <2>2. now[k].ver # s[k].ver
    BY <1>1, <1>3, <1>5 DEF version_t
  <2> QED BY <1>5, <2>1, <2>2, Zenon DEF has_version_conflict
<1> QED BY <1>4, <1>5, Zenon DEF InStep, EntryInStep

\* The verdicts agree on every transaction that writes.
LEMMA VerdictsAgree ==
  ASSUME Compatible(Templates),
         NEW w \in kvs_t, NEW st \in kvs_t, NEW upd \in kvs_t, NEW now \in kvs_t,
         NEW n \in Nat, NEW i \in Nat, NEW p \in Proposals(w, n), NEW flag,
         Agrees(st, w), InStep(w, upd, now, n, i), WritesOf(p.tmpl) # {}
  PROVE  Verdict(p, now) = 0 <=> ReadsValid(st, upd, EnvelopeOf(p, flag))
<1>1. p.tmpl \in Templates /\ p.tmpl \in Template
  BY ProposalParts, Zenon
<1>2. PICK s \in kvs_t : Earlier(s, w, n) /\ p = Simulate(p.tmpl, s)
  BY ProposalParts
<1>3. /\ p.tmpl.signed /\ p.tmpl.scans = {}
      /\ p.tmpl.gets \cap CompositeKeys = {} /\ p.tmpl.gets \subseteq Key
  BY <1>1, Zenon DEF Compatible, Template
<1> DEFINE G(k) == [key |-> k, ver |-> s[k].ver, range |-> FALSE]
<1>4. p.gets = {G(k) : k \in p.tmpl.gets}
  BY <1>2 DEF Simulate
<1>5. \A k : G(k).key = k /\ G(k).ver = s[k].ver /\ G(k).range = FALSE
  OBVIOUS
<1> HIDE DEF G
<1>6. DOMAIN p.scans = {}
  BY <1>2, <1>3 DEF Simulate
<1>7. Verdict(p, now) = 0 <=> \A k \in p.tmpl.gets : now[k].ver = s[k].ver
  <2>1. Verdict(p, now) = 0 <=> \A g \in p.gets : now[g.key].ver = g.ver
    BY <1>3, <1>6 DEF Verdict, MVCC_READ_CONFLICT
  <2> QED BY ONLY SMTT(30), <1>4, <1>5, <2>1
<1>8. EnvelopeOf(p, flag).reads = p.gets
  BY <1>6, Zenon DEF EnvelopeOf
<1>9. ReadsValid(st, upd, EnvelopeOf(p, flag)) <=>
        \A k \in p.tmpl.gets : /\ ~has_version_conflict(k, st, s[k].ver)
                               /\ ~has_version_conflict(k, upd, s[k].ver)
  <2>1. ASSUME NEW k \in p.tmpl.gets
        PROVE  LookedUp(G(k))
    BY <1>3, <1>5, Zenon DEF LookedUp
  <2>2. ReadsValid(st, upd, EnvelopeOf(p, flag)) <=>
          \A r \in p.gets : LookedUp(r) => /\ ~has_version_conflict(r.key, st, r.ver)
                                           /\ ~has_version_conflict(r.key, upd, r.ver)
    BY <1>8, Zenon DEF ReadsValid
  <2> QED BY ONLY <1>4, <1>5, <2>1, <2>2
<1>10. ASSUME NEW k \in p.tmpl.gets
      PROVE  now[k].ver = s[k].ver <=> /\ ~has_version_conflict(k, st, s[k].ver)
                                       /\ ~has_version_conflict(k, upd, s[k].ver)
  BY SMTT(30), <1>2, <1>3, ConflictsAgree
<1> QED BY <1>7, <1>9, <1>10, Zenon

\* The enclave's three inserts of a valid transaction.
Inserted(upd, tx, ver) ==
  Insert(Insert(Insert(upd, EccPairs(tx), ver), ErccPairs(tx), ver), LsccPairs(tx), ver)

\* The pairs of a compatible transaction are its writes.
LEMMA PairsAreWrites ==
  ASSUME Compatible(Templates), NEW t \in Templates, NEW tx,
         tx.lscc = t.lscc, tx.ercc = t.ercc, tx.ecc = t.ecc, NEW k
  PROVE  /\ \A pairs \in {EccPairs(tx), ErccPairs(tx), LsccPairs(tx)} :
              k \in DOMAIN pairs =>
                \E x \in WritesOf(t) : x.key = k /\ x.val = pairs[k]
         /\ (\E x \in WritesOf(t) : x.key = k) =>
              k \in DOMAIN EccPairs(tx) \cup DOMAIN ErccPairs(tx) \cup DOMAIN LsccPairs(tx)
<1>1. /\ t.lscc \in Seq(Write(LsccKeys)) /\ t.ercc \in Seq(Write(ErccKeys))
      /\ t.ecc \in Seq(Write(EccKeys))
  BY TemplatesAssumption DEF Template
<1>2. Len(t.lscc) \in Nat /\ Len(t.ercc) \in Nat /\ Len(t.ecc) \in Nat
  BY <1>1
<1>3. WritesOf(t) = {t.lscc[i] : i \in 1..Len(t.lscc)} \cup {t.ercc[i] : i \in 1..Len(t.ercc)}
                    \cup {t.ecc[i] : i \in 1..Len(t.ecc)}
  BY DEF WritesOf
<1>4. ASSUME k \in DOMAIN EccPairs(tx)
      PROVE  \E x \in WritesOf(t) : x.key = k /\ x.val = EccPairs(tx)[k]
  <2>1. PICK i \in 1..Len(t.ecc) : t.ecc[i].key = k
    BY <1>4 DEF EccPairs, KeysOf
  <2>2. EccPairs(tx)[k] = t.ecc[1].val
    BY <1>4 DEF EccPairs
  <2>3. t.ecc[i].val = t.ecc[1].val
    BY DEF Compatible
  <2> QED BY <1>3, <2>1, <2>2, <2>3, Zenon
<1>5. ASSUME k \in DOMAIN ErccPairs(tx)
      PROVE  \E x \in WritesOf(t) : x.key = k /\ x.val = ErccPairs(tx)[k]
  <2>1. 1 \in 1..Len(t.ercc) /\ k = t.ercc[1].key /\ ErccPairs(tx)[k] = t.ercc[1].val
    BY <1>2, <1>5, Zenon DEF ErccPairs
  <2> QED BY <1>3, <2>1, Zenon
<1>6. ASSUME k \in DOMAIN LsccPairs(tx)
      PROVE  \E x \in WritesOf(t) : x.key = k /\ x.val = LsccPairs(tx)[k]
  <2> DEFINE i == CHOOSE j \in 1..Len(t.lscc) : t.lscc[j].key = k
  <2>1. k \in KeysOf(t.lscc) /\ LsccPairs(tx)[k] = t.lscc[i].val
    BY <1>6 DEF LsccPairs
  <2>2. i \in 1..Len(t.lscc) /\ t.lscc[i].key = k
    BY <2>1, Zenon DEF KeysOf
  <2> HIDE DEF i
  <2> QED BY <1>3, <2>1, <2>2, Zenon
<1>7. ASSUME NEW x \in WritesOf(t), x.key = k
      PROVE  k \in DOMAIN EccPairs(tx) \cup DOMAIN ErccPairs(tx) \cup DOMAIN LsccPairs(tx)
  <2>1. CASE x \in {t.lscc[i] : i \in 1..Len(t.lscc)}
    BY <1>7, <2>1, Zenon DEF LsccPairs, KeysOf
  <2>2. CASE x \in {t.ercc[i] : i \in 1..Len(t.ercc)}
    <3>1. PICK i \in 1..Len(t.ercc) : x = t.ercc[i]
      BY <2>2, Zenon
    <3>2. Len(t.ercc) <= 1
      BY Zenon DEF Compatible
    <3>3. i = 1
      BY <1>2, <3>1, <3>2
    <3> QED BY <1>7, <3>1, <3>3, Zenon DEF ErccPairs
  <2>3. CASE x \in {t.ecc[i] : i \in 1..Len(t.ecc)}
    BY <1>7, <2>3, Zenon DEF EccPairs, KeysOf
  <2> QED BY <1>3, <1>7, <2>1, <2>2, <2>3, Zenon
<1> QED BY <1>4, <1>5, <1>6, <1>7, Zenon

\* What a valid transaction leaves of an entry of the updates: its own write,
\* unless an earlier transaction of the block wrote the key.
LEMMA InsertedEntry ==
  ASSUME Compatible(Templates), NEW t \in Templates, NEW tx,
         tx.lscc = t.lscc, tx.ercc = t.ercc, tx.ecc = t.ecc,
         NEW upd \in kvs_t, NEW ver, NEW k \in Key
  PROVE  \/ /\ Inserted(upd, tx, ver)[k] = upd[k]
            /\ upd[k] # Absent \/ ~ \E x \in WritesOf(t) : x.key = k
         \/ /\ upd[k] = Absent
            /\ \E x \in WritesOf(t) :
                 x.key = k /\ Inserted(upd, tx, ver)[k] = [val |-> x.val, ver |-> ver]
<1> DEFINE u1 == Insert(upd, EccPairs(tx), ver)
           u2 == Insert(u1, ErccPairs(tx), ver)
           u3 == Insert(u2, LsccPairs(tx), ver)
           Mine(e) == \E x \in WritesOf(t) : x.key = k /\ e = [val |-> x.val, ver |-> ver]
<1>1. ASSUME NEW u, NEW pairs \in {EccPairs(tx), ErccPairs(tx), LsccPairs(tx)}
      PROVE  /\ u[k] # Absent => Insert(u, pairs, ver)[k] = u[k]
             /\ u[k] = Absent /\ k \in DOMAIN pairs => Mine(Insert(u, pairs, ver)[k])
             /\ k \notin DOMAIN pairs => Insert(u, pairs, ver)[k] = u[k]
  BY SMTT(30), PairsAreWrites DEF Insert
<1>2. \A e : Mine(e) => e # Absent
  <2>1. ASSUME NEW x \in WritesOf(t) PROVE x.val # NoVal
    BY WritesType, TemplatesAssumption, KeysAssumption, Zenon
  <2> QED BY <2>1 DEF Absent
<1>3. (\E x \in WritesOf(t) : x.key = k) =>
        k \in DOMAIN EccPairs(tx) \cup DOMAIN ErccPairs(tx) \cup DOMAIN LsccPairs(tx)
  BY PairsAreWrites, Zenon
<1>4. \A e : Mine(e) => \E x \in WritesOf(t) : x.key = k
  OBVIOUS
<1>5. /\ u1[k] = upd[k] \/ (upd[k] = Absent /\ Mine(u1[k]))
      /\ upd[k] = Absent /\ k \in DOMAIN EccPairs(tx) => Mine(u1[k])
  BY <1>1, Zenon
<1>6. /\ u2[k] = u1[k] \/ (u1[k] = Absent /\ Mine(u2[k]))
      /\ u1[k] = Absent /\ k \in DOMAIN ErccPairs(tx) => Mine(u2[k])
  <2> HIDE DEF u1, Mine
  <2> QED BY <1>1, Zenon
<1>7. /\ u3[k] = u2[k] \/ (u2[k] = Absent /\ Mine(u3[k]))
      /\ u2[k] = Absent /\ k \in DOMAIN LsccPairs(tx) => Mine(u3[k])
  <2> HIDE DEF u2, Mine
  <2> QED BY <1>1, Zenon
<1>8. Inserted(upd, tx, ver) = u3
  BY Zenon DEF Inserted
<1> HIDE DEF u1, u2, u3, Mine
<1>9. \/ u3[k] = upd[k] /\ (upd[k] # Absent \/ ~ \E x \in WritesOf(t) : x.key = k)
      \/ upd[k] = Absent /\ Mine(u3[k])
  BY <1>2, <1>3, <1>5, <1>6, <1>7, Zenon
<1> QED BY <1>8, <1>9, Zenon DEF Mine

\* A key that a transaction does not write keeps its entry, at the enclave
LEMMA InsertedKeeps ==
  ASSUME Compatible(Templates), NEW t \in Templates, NEW tx,
         tx.lscc = t.lscc, tx.ercc = t.ercc, tx.ecc = t.ecc,
         NEW upd \in kvs_t, NEW ver, NEW k \in Key,
         \A x \in WritesOf(t) : x.key # k
  PROVE  Inserted(upd, tx, ver)[k] = upd[k]
<1>1. \/ Inserted(upd, tx, ver)[k] = upd[k]
      \/ \E x \in WritesOf(t) :
           x.key = k /\ Inserted(upd, tx, ver)[k] = [val |-> x.val, ver |-> ver]
  BY InsertedEntry
<1> QED BY <1>1, Zenon

\* and at the peer.
LEMMA AfterTxKeeps ==
  ASSUME NEW p, NEW now, NEW ver, NEW k \in Key, \A x \in WritesOf(p.tmpl) : x.key # k
  PROVE  AfterTx(p, now, ver)[k] = now[k]
BY DEF AfterTx, PeerWrites

\* A write that the peer accepts replaces an entry of the same block only by
\* the same value: a template that writes another one reads the key first.
LEMMA SecondWriteIsEqual ==
  ASSUME Compatible(Templates),
         NEW w \in kvs_t, NEW now \in kvs_t, NEW n \in Nat,
         NEW p \in Proposals(w, n), Verdict(p, now) = 0,
         NEW x \in WritesOf(p.tmpl), now[x.key].ver[1] = n,
         NEW u \in Templates, NEW y \in WritesOf(u), y.key = x.key
  PROVE  x.val = y.val
<1>1. p.tmpl \in Templates /\ p.tmpl \in Template
  BY ProposalParts, Zenon
<1>2. PICK s \in kvs_t : Earlier(s, w, n) /\ p = Simulate(p.tmpl, s)
  BY ProposalParts
<1>3. x.key \in Key
  BY <1>1, WritesType, Zenon
<1>4. ASSUME x.key \in p.tmpl.gets PROVE FALSE
  <2>1. [key |-> x.key, ver |-> s[x.key].ver, range |-> FALSE] \in p.gets
    BY <1>2, <1>4 DEF Simulate
  <2>2. p.tmpl.signed
    BY <1>1, Zenon DEF Compatible
  <2>3. \A g \in p.gets : now[g.key].ver = g.ver
    BY <2>2 DEF Verdict, MVCC_READ_CONFLICT
  <2>4. now[x.key].ver = s[x.key].ver
    BY <2>1, <2>3, Zenon
  <2>5. s[x.key].ver[1] < n /\ s[x.key].ver[1] \in Nat
    BY <1>2, <1>3, EntryType, Zenon DEF Earlier, version_t
  <2> QED BY <2>4, <2>5
<1>5. x.val = y.val \/ x.key \in p.tmpl.gets \cap u.gets
  BY <1>1, Zenon DEF Compatible
<1> QED BY <1>4, <1>5, Zenon

\* An entry that a transaction leaves alone stays in step.
LEMMA EntryStays ==
  ASSUME NEW n \in Nat, NEW i \in Nat, NEW k, NEW q, NEW e, NEW p,
         p.ver \in version_t, EntryInStep(q, e, p, k, n, i)
  PROVE  EntryInStep(q, e, p, k, n, i + 1)
<1>1. p.ver[2] \in Nat
  BY Zenon DEF version_t
<1>2. p.ver[2] < i => p.ver[2] < i + 1
  BY <1>1
<1> QED BY <1>2, Zenon DEF EntryInStep

\* An entry that a transaction writes stays in step: the enclave keeps an update
\* it has, and by what Compatible demands that update has the same value.
LEMMA EntryWritten ==
  ASSUME NEW n \in Nat, NEW i \in Nat, NEW t \in Templates, NEW x \in WritesOf(t),
         NEW q, NEW e, NEW p, NEW new, NEW nxt,
         e.ver \in version_t, p.ver \in version_t, x.val # NoVal,
         EntryInStep(q, e, p, x.key, n, i),
         p.ver[1] = n =>
           \A u \in Templates : \A y \in WritesOf(u) : y.key = x.key => x.val = y.val,
         nxt = [val |-> x.val, ver |-> <<n, i>>],
         new = IF e = Absent THEN nxt ELSE e
  PROVE  EntryInStep(q, new, nxt, x.key, n, i + 1)
<1>1. /\ nxt.val = x.val /\ nxt.ver[1] = n /\ nxt.ver[2] = i /\ nxt.ver[2] < i + 1
      /\ nxt # Absent
  BY DEF Absent
<1>2. CASE e = Absent
  <2>1. new = nxt /\ SameEntry(nxt, nxt)
    BY <1>1, <1>2 DEF SameEntry
  <2> QED BY <1>1, <2>1, Zenon DEF EntryInStep
<1>3. CASE e # Absent
  <2>1. /\ new = e /\ SameEntry(e, p) /\ p.ver[1] = n /\ p.ver[2] < i
        /\ \E u \in Templates : \E y \in WritesOf(u) : y.key = x.key /\ y.val = p.val
    BY <1>3, Zenon DEF EntryInStep
  <2>2. x.val = p.val
    BY <2>1, Zenon
  <2>3. e.ver[2] <= i
    BY SMTT(30), <2>1 DEF SameEntry, version_t
  <2>4. SameEntry(e, nxt)
    BY <1>1, <2>1, <2>2, <2>3, Zenon DEF SameEntry
  <2> QED BY <1>1, <1>3, <2>1, <2>4, Zenon DEF EntryInStep
<1> QED BY <1>2, <1>3, Zenon

\* A transaction that both accept keeps the keys that it writes in step.
LEMMA WriteAgrees ==
  ASSUME Compatible(Templates),
         NEW w \in kvs_t, NEW upd \in kvs_t, NEW now \in kvs_t,
         NEW n \in Nat, NEW i \in Nat, NEW p \in Proposals(w, n),
         InStep(w, upd, now, n, i), Verdict(p, now) = 0,
         NEW tx, tx.lscc = p.tmpl.lscc, tx.ercc = p.tmpl.ercc, tx.ecc = p.tmpl.ecc,
         NEW k \in Key, \E x \in WritesOf(p.tmpl) : x.key = k
  PROVE  EntryInStep(w[k], Inserted(upd, tx, <<n, i>>)[k], AfterTx(p, now, <<n, i>>)[k],
                     k, n, i + 1)
<1> DEFINE t == p.tmpl
           ver == <<n, i>>
           new == Inserted(upd, tx, ver)[k]
           nxt == AfterTx(p, now, ver)[k]
<1>1. t \in Templates /\ t \in Template
  BY ProposalParts, Zenon
<1>2. ver \in version_t
  BY Zenon DEF version_t
<1> HIDE DEF ver
<1>3. PICK x \in WritesOf(t) : x.key = k /\ nxt = [val |-> x.val, ver |-> ver]
  BY SMTT(30), <1>1, <1>2, AfterTxEntry
<1>4. new = IF upd[k] = Absent THEN nxt ELSE upd[k]
  <2>1. \/ new = upd[k] /\ upd[k] # Absent
        \/ /\ upd[k] = Absent
           /\ \E z \in WritesOf(t) : z.key = k /\ new = [val |-> z.val, ver |-> ver]
    BY SMTT(30), <1>1, InsertedEntry
  <2>2. \A z \in WritesOf(t) : z.key = k => z = x
    BY <1>1, <1>3, ZenonT(40) DEF Compatible
  <2> QED BY <1>3, <2>1, <2>2, Zenon
<1>5. upd[k].ver \in version_t /\ now[k].ver \in version_t
  BY EntryType, Zenon
<1>6. x.val # NoVal
  BY <1>1, WritesType, KeysAssumption, Zenon
<1>7. ASSUME now[k].ver[1] = n, NEW u \in Templates, NEW y \in WritesOf(u), y.key = x.key
      PROVE  x.val = y.val
  BY SMTT(30), <1>3, <1>7, SecondWriteIsEqual
<1>8. EntryInStep(w[k], upd[k], now[k], x.key, n, i)
  BY <1>3, Zenon DEF InStep
<1> HIDE DEF t, new, nxt
<1>9. EntryInStep(w[k], new, nxt, x.key, n, i + 1)
  BY <1>1, <1>3, <1>4, <1>5, <1>6, <1>7, <1>8, EntryWritten, Zenon DEF ver
<1> QED BY <1>3, <1>9, Zenon DEF new, nxt, ver

\* One envelope of a block keeps the enclave in step with the peer.
LEMMA StepAgrees ==
  ASSUME Compatible(Templates),
         NEW w \in kvs_t, NEW st \in kvs_t, NEW upd \in kvs_t, NEW now \in kvs_t,
         NEW n \in Nat, NEW i \in Nat, NEW p \in Proposals(w, n),
         Agrees(st, w), InStep(w, upd, now, n, i)
  PROVE  InStep(w, ProcessEnvelope(st, upd, EnvelopeOf(p, Verdict(p, now)), <<n, i>>),
                AfterTx(p, now, <<n, i>>), n, i + 1)
<1> DEFINE tx == EnvelopeOf(p, Verdict(p, now))
           new == ProcessEnvelope(st, upd, tx, <<n, i>>)
           nxt == AfterTx(p, now, <<n, i>>)
<1>1. p.tmpl \in Templates
  BY ProposalParts, Zenon
<1>2. tx.lscc = p.tmpl.lscc /\ tx.ercc = p.tmpl.ercc /\ tx.ecc = p.tmpl.ecc
  BY Zenon DEF EnvelopeOf
<1>3. Executes(tx)
  <2>1. Verdict(p, now) # 1
    BY VerdictCode
  <2> QED BY <2>1, Zenon DEF Executes, EnvelopeOf
<1>4. new = IF ReadsValid(st, upd, tx) THEN Inserted(upd, tx, <<n, i>>) ELSE upd
  BY <1>3, Zenon DEF ProcessEnvelope, parse_endorser_transaction, Inserted
<1>5. WritesOf(p.tmpl) # {} => (Verdict(p, now) = 0 <=> ReadsValid(st, upd, tx))
  BY VerdictsAgree, Zenon
<1> HIDE DEF tx
<1>6. ASSUME NEW k \in Key PROVE EntryInStep(w[k], new[k], nxt[k], k, n, i + 1)
  <2>1. EntryInStep(w[k], upd[k], now[k], k, n, i) /\ now[k].ver \in version_t
    BY EntryType, Zenon DEF InStep
  <2>2. new[k] = upd[k] /\ nxt[k] = now[k] => EntryInStep(w[k], new[k], nxt[k], k, n, i + 1)
    BY <2>1, EntryStays, Zenon
  <2>3. CASE \A x \in WritesOf(p.tmpl) : x.key # k
    <3>1. nxt[k] = now[k] /\ Inserted(upd, tx, <<n, i>>)[k] = upd[k]
      BY SMTT(30), <1>1, <1>2, <2>3, AfterTxKeeps, InsertedKeeps
    <3>2. new[k] = upd[k]
      BY <1>4, <3>1, Zenon
    <3> QED BY <2>2, <3>1, <3>2, Zenon
  <2>4. CASE Verdict(p, now) # 0 /\ ~ReadsValid(st, upd, tx)
    <3>1. nxt[k] = now[k] /\ new[k] = upd[k]
      BY <1>4, <2>4, Zenon DEF AfterTx
    <3> QED BY <2>2, <3>1, Zenon
  <2>5. CASE /\ Verdict(p, now) = 0 /\ ReadsValid(st, upd, tx)
             /\ \E x \in WritesOf(p.tmpl) : x.key = k
    <3>1. new = Inserted(upd, tx, <<n, i>>)
      BY <1>4, <2>5, Zenon
    <3> HIDE DEF new, nxt
    <3> QED BY <1>2, <2>5, <3>1, WriteAgrees, Zenon DEF nxt
  <2> QED BY <1>5, <2>3, <2>4, <2>5, Zenon
<1> HIDE DEF new, nxt
<1>7. InStep(w, new, nxt, n, i + 1)
  BY <1>6, Zenon DEF InStep
<1> QED BY <1>7, Zenon DEF new, nxt, tx

----------------------------------------------------------------------------
(***************************************************************************)
(* Induction over the transactions of a block, by way of the least element *)
(* of a set of natural numbers.                                            *)
(***************************************************************************)

Smaller == {p \in Nat \X Nat : p[1] < p[2]}

\* The order of the natural numbers has no infinite descent.
LEMMA SmallerWF == IsWellFoundedOn(Smaller, Nat)
BY NatLessThanWellFounded DEF OpToRel, Smaller, IsWellFoundedOn

\* A set that holds 0 and with every number its successor holds them all: what
\* every transaction of a block keeps holds after any number of them.
LEMMA NatSets ==
  ASSUME NEW S, 0 \in S, \A n \in Nat : n \in S => n + 1 \in S
  PROVE  Nat \subseteq S
<1> DEFINE T == Nat \ S
<1>1. SUFFICES ASSUME T # {} PROVE FALSE
  OBVIOUS
<1>2. PICK x \in T : \A y \in T : ~ (<<y, x>> \in Smaller)
  BY <1>1, WFMin, SmallerWF, Zenon
<1>3. x - 1 \in Nat /\ x - 1 \in T
  BY <1>2
<1>4. <<x - 1, x>> \in Smaller
  BY <1>2, <1>3 DEF Smaller
<1> QED BY <1>2, <1>3, <1>4

----------------------------------------------------------------------------
(***************************************************************************)
(* The transactions of a block, one after the other.                       *)
(***************************************************************************)

\* The peer's validation of a block runs its transactions one after the other.
LEMMA PeerRunSteps ==
  ASSUME NEW P, \A p \in P : p.tmpl \in Template, NEW ps \in Seq(P),
         NEW w \in kvs_t, NEW n \in Nat
  PROVE  IsPeerRun(PeerRun(ps, w, n), Len(ps), ps, w, n)
<1> DEFINE L == Len(ps)
           Full(f) == f = [i \in 0..L |->
                             IF i = 0 THEN w ELSE AfterTx(ps[i], f[i-1], <<n, i-1>>)]
           Good == {m \in Nat : m <= L => \E f : IsPeerRun(f, m, ps, w, n)}
<1>1. L \in Nat
  OBVIOUS
<1>2. Nat \subseteq Good
  <2>1. 0 \in Good
    <3>1. IsPeerRun([i \in 0..0 |-> w], 0, ps, w, n)
      BY DEF IsPeerRun
    <3> QED BY <3>1
  <2>2. ASSUME NEW m \in Nat, m \in Good PROVE m + 1 \in Good
    <3>1. ASSUME m + 1 <= L PROVE \E f : IsPeerRun(f, m + 1, ps, w, n)
      <4>1. m < L
        BY <1>1, <3>1
      <4>2. PICK f : IsPeerRun(f, m, ps, w, n)
        BY <2>2, <4>1, <1>1
      <4> QED BY <4>1, <4>2, PeerRunExtend
    <3> QED BY <3>1
  <2> HIDE DEF Good
  <2> QED BY <2>1, <2>2, NatSets
<1>3. PICK f : IsPeerRun(f, L, ps, w, n)
  BY <1>1, <1>2
<1>4. Full(f)
  <2> DEFINE F == [i \in 0..L |-> IF i = 0 THEN w ELSE AfterTx(ps[i], f[i-1], <<n, i-1>>)]
  <2>1. ASSUME NEW i \in 0..L PROVE f[i] = F[i]
    <3>1. CASE i = 0
      BY <1>3, <3>1 DEF IsPeerRun
    <3>2. CASE i \in 1..L
      BY <1>3, <3>2 DEF IsPeerRun
    <3> QED BY <1>1, <3>1, <3>2
  <2>2. f = [i \in 0..L |-> f[i]]
    BY <1>3 DEF IsPeerRun
  <2>3. F = [i \in 0..L |-> F[i]]
    OBVIOUS
  <2>4. f = F
    <3> HIDE DEF F, L
    <3> QED BY <2>1, <2>2, <2>3
  <2> QED BY <2>4
<1> DEFINE a == PeerRun(ps, w, n)
<1>5. a = CHOOSE h : Full(h)
  BY DEF PeerRun
<1>6. Full(a)
  <2> HIDE DEF Full, a
  <2> QED BY <1>4, <1>5
<1>7. a[0] = w /\ \A i \in 1..L : a[i] = AfterTx(ps[i], a[i-1], <<n, i-1>>)
  <2> HIDE DEF a
  <2> QED BY <1>1, <1>6
<1>8. ASSUME NEW i \in 0..L PROVE a[i] \in kvs_t
  <2> DEFINE Typed == {m \in Nat : m <= L => a[m] \in kvs_t}
  <2> HIDE DEF a
  <2>1. 0 \in Typed
    BY <1>7
  <2>2. ASSUME NEW m \in Nat, m \in Typed PROVE m + 1 \in Typed
    <3>1. ASSUME m + 1 <= L PROVE a[m+1] \in kvs_t
      <4>1. m + 1 \in 1..L /\ (m + 1) - 1 = m /\ a[m] \in kvs_t
        BY <1>1, <2>2, <3>1
      <4>2. ps[m+1].tmpl \in Template
        BY <4>1
      <4>3. <<n, m>> \in version_t
        BY DEF version_t
      <4>4. a[m+1] = AfterTx(ps[m+1], a[m], <<n, m>>)
        BY <1>7, <4>1
      <4> QED BY <4>1, <4>2, <4>3, <4>4, AfterTxType
    <3> QED BY <3>1
  <2> HIDE DEF Typed
  <2>3. Nat \subseteq Typed
    BY <2>1, <2>2, NatSets
  <2> QED BY <1>1, <2>3 DEF Typed
<1>9. a = [i \in 0..L |-> a[i]]
  <2> HIDE DEF a
  <2> QED BY <1>6
<1> HIDE DEF a
<1>10. a \in [0..L -> kvs_t]
  BY <1>8, <1>9
<1>11. IsPeerRun(a, L, ps, w, n)
  BY <1>7, <1>10 DEF IsPeerRun
<1> QED BY <1>11 DEF a

\* The peer's state after a block: the old entries, or new ones of this block.
LEMMA PeerGrows ==
  ASSUME NEW P, \A p \in P : p.tmpl \in Template, NEW ps \in Seq(P),
         NEW w \in kvs_t, NEW n \in Nat
  PROVE  Grown(w, PeerRun(ps, w, n)[Len(ps)], n)
<1> DEFINE a == PeerRun(ps, w, n)
           Good == {m \in Nat : m <= Len(ps) => Grown(w, a[m], n)}
<1>1. IsPeerRun(a, Len(ps), ps, w, n)
  BY PeerRunSteps
<1> HIDE DEF a
<1>2. 0 \in Good
  BY <1>1 DEF IsPeerRun, Grown
<1>3. ASSUME NEW m \in Nat, m \in Good PROVE m + 1 \in Good
  <2>1. SUFFICES ASSUME m + 1 <= Len(ps), NEW k \in Key
                 PROVE  a[m+1][k] = w[k] \/ (a[m+1][k] # Absent /\ a[m+1][k].ver[1] = n)
    BY DEF Grown
  <2>2. Len(ps) \in Nat /\ m + 1 \in 1..Len(ps) /\ (m + 1) - 1 = m /\ m \in 0..Len(ps)
    BY <2>1
  <2>3. Grown(w, a[m], n)
    BY <1>3, <2>2
  <2>4. ps[m+1].tmpl \in Template /\ a[m] \in kvs_t /\ <<n, m>> \in version_t
    BY <1>1, <2>2 DEF IsPeerRun, version_t
  <2>5. a[m+1] = AfterTx(ps[m+1], a[m], <<n, m>>)
    BY <1>1, <2>2 DEF IsPeerRun
  <2>6. CASE a[m+1][k] = a[m][k]
    BY <2>3, <2>6 DEF Grown
  <2>7. CASE \E x \in WritesOf(ps[m+1].tmpl) : a[m+1][k] = [val |-> x.val, ver |-> <<n, m>>]
    <3>1. PICK x \in WritesOf(ps[m+1].tmpl) : a[m+1][k] = [val |-> x.val, ver |-> <<n, m>>]
      BY <2>7, Zenon
    <3>2. x.val # NoVal
      BY <2>4, WritesType, KeysAssumption
    <3> QED BY <3>1, <3>2 DEF Absent
  <2>8. \/ a[m+1][k] = a[m][k]
        \/ \E x \in WritesOf(ps[m+1].tmpl) : a[m+1][k] = [val |-> x.val, ver |-> <<n, m>>]
    <3> DEFINE p == ps[m+1]
               now == a[m]
               ver == <<n, m>>
    <3>1. p.tmpl \in Template /\ now \in kvs_t /\ ver \in version_t
      BY SMTT(30), <2>4
    <3>2. a[m+1] = AfterTx(p, now, ver)
      BY <2>5, Zenon
    <3> HIDE DEF p, now, ver
    <3>3. \/ AfterTx(p, now, ver)[k] = now[k]
          \/ \E x \in WritesOf(p.tmpl) : AfterTx(p, now, ver)[k] = [val |-> x.val, ver |-> ver]
      BY SMTT(30), <3>1, AfterTxEntry
    <3>4. a[m+1][k] = now[k] \/ \E x \in WritesOf(p.tmpl) : a[m+1][k] = [val |-> x.val, ver |-> ver]
      BY <3>2, <3>3, Zenon
    <3> QED BY <3>4, Zenon DEF p, now, ver
  <2> QED BY <2>6, <2>7, <2>8, Zenon
<1> HIDE DEF Good
<1>4. Nat \subseteq Good
  BY <1>2, <1>3, NatSets
<1>5. Len(ps) \in Nat
  OBVIOUS
<1> QED BY <1>4, <1>5 DEF Good, a

\* A whole block: the run of the enclave ends in step with the run of the peer.
LEMMA BlockAgrees ==
  ASSUME Compatible(Templates), NEW w \in kvs_t, NEW st \in kvs_t, NEW n \in Nat,
         NEW ps \in Seq(Proposals(w, n)), Agrees(st, w),
         NEW b, b = BlockOf(ps, PeerRun(ps, w, n)),
         NEW upd, RunsTo(Len(b.txs), upd, st, b, n)
  PROVE  Agrees(ApplyUpdates(st, upd), PeerRun(ps, w, n)[Len(ps)])
<1> DEFINE a == PeerRun(ps, w, n)
           L == Len(ps)
<1>1. /\ Len(b.txs) = L /\ L \in Nat
      /\ \A i \in 1..L : b.txs[i] = EnvelopeOf(ps[i], Verdict(ps[i], a[i-1]))
  BY SMTT(30), BlockOfType
<1>2. IsPeerRun(a, L, ps, w, n)
  BY ProposalParts, PeerRunSteps, Zenon
<1> HIDE DEF a, L
<1>3. PICK g : IsPrefixRun(g, L, upd, st, b, n)
  BY <1>1, Zenon DEF RunsTo
<1> DEFINE Good == {m \in Nat : m <= L => InStep(w, g[m], a[m], n, m)}
<1>4. 0 \in Good
  BY <1>2, <1>3, Zenon DEF IsPrefixRun, IsPeerRun, InStep, EntryInStep, EmptyKvs
<1>5. ASSUME NEW m \in Nat, m \in Good PROVE m + 1 \in Good
  <2>1. SUFFICES ASSUME m + 1 <= L PROVE InStep(w, g[m+1], a[m+1], n, m + 1)
    OBVIOUS
  <2>2. m + 1 \in 1..L /\ (m + 1) - 1 = m /\ m \in 0..L /\ m <= L
    BY SMTT(30), <1>1, <2>1
  <2>3. InStep(w, g[m], a[m], n, m)
    BY <1>5, <2>2, Zenon
  <2>4. ps[m+1] \in Proposals(w, n)
    BY <2>2 DEF L
  <2>5. g[m] \in kvs_t /\ a[m] \in kvs_t
    BY <1>2, <1>3, <2>2, Zenon DEF IsPeerRun, IsPrefixRun
  <2>6. a[m+1] = AfterTx(ps[m+1], a[m], <<n, m>>)
    BY <1>2, <2>2 DEF IsPeerRun
  <2>7. g[m+1] = ProcessEnvelope(st, g[m], b.txs[m+1], <<n, m>>)
    BY <1>3, <2>2, Zenon DEF IsPrefixRun
  <2>8. b.txs[m+1] = EnvelopeOf(ps[m+1], Verdict(ps[m+1], a[m]))
    BY <1>1, <2>2, Zenon
  <2> QED BY <2>3, <2>4, <2>5, <2>6, <2>7, <2>8, StepAgrees, ZenonT(40)
<1> HIDE DEF Good
<1>6. Nat \subseteq Good
  BY <1>4, <1>5, NatSets
<1>7. InStep(w, g[L], a[L], n, L)
  BY SMTT(30), <1>1, <1>6 DEF Good
<1>8. g[L] = upd
  BY <1>3, Zenon DEF IsPrefixRun
<1>9. Agrees(ApplyUpdates(st, upd), a[L])
  BY <1>7, <1>8, Zenon DEF InStep, EntryInStep, Agrees, ApplyUpdates
<1> QED BY <1>9 DEF a, L

\* The genesis block leaves the enclave's store empty.
LEMMA GenesisAgrees ==
  ASSUME GenesisIsConfig, NEW st, NEW n, NEW upd, RunsTo(Len(Genesis.txs), upd, st, Genesis, n)
  PROVE  upd = EmptyKvs
<1> DEFINE L == Len(Genesis.txs)
<1>1. L \in Nat
  BY BlocksAssumption DEF Block
<1>2. PICK g : IsPrefixRun(g, L, upd, st, Genesis, n)
  BY DEF RunsTo
<1> DEFINE Good == {m \in Nat : m <= L => g[m] = EmptyKvs}
<1>3. 0 \in Good
  BY SMTT(30), <1>2 DEF IsPrefixRun
<1>4. ASSUME NEW m \in Nat, m \in Good PROVE m + 1 \in Good
  <2>1. SUFFICES ASSUME m + 1 <= L PROVE g[m+1] = EmptyKvs
    OBVIOUS
  <2>2. m + 1 \in 1..L /\ (m + 1) - 1 = m /\ g[m] = EmptyKvs
    BY <1>1, <1>4, <2>1
  <2>3. g[m+1] = ProcessEnvelope(st, g[m], Genesis.txs[m+1], <<n, m>>)
    BY <1>2, <2>2, Zenon DEF IsPrefixRun
  <2>4. ~Executes(Genesis.txs[m+1])
    BY <2>2 DEF GenesisIsConfig
  <2> QED BY <2>2, <2>3, <2>4, Zenon DEF ProcessEnvelope
<1> HIDE DEF Good
<1>5. Nat \subseteq Good
  BY <1>3, <1>4, NatSets
<1>6. g[L] = EmptyKvs
  BY <1>1, <1>5 DEF Good
<1> QED BY <1>2, <1>6, Zenon DEF IsPrefixRun
=============================================================================
