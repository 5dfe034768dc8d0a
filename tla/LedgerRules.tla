---------------------------- MODULE LedgerRules ----------------------------
(***************************************************************************)
(* What one envelope of a block does to the ledger enclave's key-value     *)
(* store (tlcc_enclave/enclave/ledger.cpp).  Pure operators: the machine   *)
(* that runs them is TrustedLedger, its atomic counterpart AtomicLedger.   *)
(*                                                                         *)
(* Keys are abstract and split by the namespace the code dispatches on.    *)
(* A map lookup that finds nothing is the entry Absent.                    *)
(***************************************************************************)
EXTENDS Integers, Sequences

CONSTANTS
  LsccKeys, ErccKeys, EccKeys,  \* keys by the namespaces the enclave tracks
  OtherKeys,      \* keys of any other chaincode
  CompositeKeys,  \* the ecc keys that start with 0x00
  MRENCLAVE,      \* "ecc.MRENCLAVE"
  Val, NoVal      \* values; NoVal is no value

ASSUME KeysAssumption ==
  /\ MRENCLAVE \in EccKeys
  /\ CompositeKeys \subseteq EccKeys
  /\ LsccKeys \cap ErccKeys = {} /\ LsccKeys \cap EccKeys = {}
  /\ ErccKeys \cap EccKeys = {}
  /\ OtherKeys \cap (LsccKeys \cup ErccKeys \cup EccKeys) = {}
  /\ NoVal \notin Val

Key == LsccKeys \cup ErccKeys \cup EccKeys \cup OtherKeys

version_t == Nat \X Nat   \* <<block_num, tx_num>>

Absent == [val |-> NoVal, ver |-> <<0, 0>>]

kvs_value_t == [val : Val, ver : version_t]

kvs_t == [Key -> kvs_value_t \cup {Absent}]

EmptyKvs == [k \in Key |-> Absent]

(***************************************************************************)
(* An envelope: the peer's validation code (tx_filter), whether its outer  *)
(* protobuf layers and its transaction decode, its header type, and the    *)
(* read and write sets by namespace.  A read records the version it saw    *)
(* and whether it came from a range query.                                 *)
(***************************************************************************)
Read == [key : Key, ver : version_t, range : BOOLEAN]

Write(K) == [key : K, val : Val]

Envelope ==
  [flag  : 0..255,
   form  : {"ok", "badEnvelope", "badTransaction"},
   type  : {"CONFIG", "ENDORSER_TRANSACTION", "OTHER"},
   reads : SUBSET Read,
   lscc  : Seq(Write(LsccKeys)),
   ercc  : Seq(Write(ErccKeys)),
   ecc   : Seq(Write(EccKeys))]

Block == [ok : BOOLEAN, txs : Seq(Envelope)]

----------------------------------------------------------------------------

cmp_version(v1, v2) ==
  CASE v1[1] > v2[1] -> 1
    [] v1[1] < v2[1] -> -1
    [] v1[1] = v2[1] /\ v1[2] > v2[2] -> 1
    [] v1[1] = v2[1] /\ v1[2] < v2[2] -> -1
    [] OTHER -> 0

has_version_conflict(key, kvs, v) ==
  /\ kvs[key] # Absent
  /\ cmp_version(v, kvs[key].ver) = -1

\* A plain read of a composite key is looked up under the C string before
\* its leading 0x00, a key that no write ever stores.
LookedUp(r) == r.range \/ r.key \notin CompositeKeys

\* Mutant: reads are not checked against the earlier writes of the block.
MutantStateOnly(st, upd, tx) ==
  \A r \in tx.reads : LookedUp(r) => ~has_version_conflict(r.key, st, r.ver)

ReadsValid(st, upd, tx) ==
  \A r \in tx.reads :
    LookedUp(r) => /\ ~has_version_conflict(r.key, st, r.ver)
                   /\ ~has_version_conflict(r.key, upd, r.ver)

\* std::map::insert of several pairs: a key already present keeps its entry.
Insert(upd, pairs, ver) ==
  [k \in Key |-> IF k \in DOMAIN pairs /\ upd[k] = Absent
                 THEN [val |-> pairs[k], ver |-> ver] ELSE upd[k]]

KeysOf(ws) == {ws[i].key : i \in 1..Len(ws)}

\* every lscc write, with its own value
LsccPairs(tx) ==
  [k \in KeysOf(tx.lscc) |->
     tx.lscc[CHOOSE i \in 1..Len(tx.lscc) : tx.lscc[i].key = k].val]

\* the first ercc write only
ErccPairs(tx) ==
  [k \in {tx.ercc[i].key : i \in (1..Len(tx.ercc)) \cap {1}} |-> tx.ercc[1].val]

\* every ecc key, each with the value of the first write
EccPairs(tx) == [k \in KeysOf(tx.ecc) |-> tx.ecc[1].val]

parse_endorser_transaction(st, upd, tx, ver) ==
  IF ReadsValid(st, upd, tx)
  THEN Insert(Insert(Insert(upd, EccPairs(tx), ver), ErccPairs(tx), ver),
              LsccPairs(tx), ver)
  ELSE upd

\* The tx_filter test and the switch on the header type in parse_block.
Executes(tx) ==
  tx.flag # 1 /\ tx.type = "ENDORSER_TRANSACTION" /\ tx.form = "ok"

ProcessEnvelope(st, upd, tx, ver) ==
  IF Executes(tx) THEN parse_endorser_transaction(st, upd, tx, ver) ELSE upd

\* An undecodable envelope that is not skipped makes parse_block return.
RejectsBlock(tx) == tx.flag # 1 /\ tx.form = "badEnvelope"

ErccNamespacePresent(tx) ==
  tx.ercc # <<>> \/ \E r \in tx.reads : r.key \in ErccKeys

\* An ercc namespace without writes: writes[0] is read through a null pointer.
DereferencesNull(st, upd, tx) ==
  /\ Executes(tx) /\ ReadsValid(st, upd, tx)
  /\ ErccNamespacePresent(tx) /\ tx.ercc = <<>>

\* No MRENCLAVE in the updates or the state: the end() iterator is
\* dereferenced, which may fault or read garbage that is not used further.
DereferencesEnd(st, upd, tx) ==
  /\ Executes(tx) /\ ReadsValid(st, upd, tx) /\ ErccNamespacePresent(tx)
  /\ MRENCLAVE \notin KeysOf(tx.ecc)
  /\ upd[MRENCLAVE] = Absent /\ st[MRENCLAVE] = Absent

\* The loop of commit_state_updates over the updates of a block.
ApplyUpdates(st, upd) == [k \in Key |-> IF upd[k] = Absent THEN st[k] ELSE upd[k]]
=============================================================================
