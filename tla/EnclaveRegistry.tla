--------------------------- MODULE EnclaveRegistry ---------------------------
(***************************************************************************)
(* How an enclave comes to be trusted: setup in ecc creates and attests it *)
(* (enclave_chaincode.go, sgxcclib.c, common/enclave/common.cpp), ercc has *)
(* the quote confirmed by IAS and records the key, and the validators of   *)
(* ercc and ecc decide at commit, against the state before the block,      *)
(* which registrations and which invocations count.                        *)
(*                                                                         *)
(* Each installed version of the chaincode has its process and in it one   *)
(* enclave id, which concurrent calls share.  The errors the library loses *)
(* on the way are part of the model.                                       *)
(***************************************************************************)
EXTENDS KeyCodec, FiniteSets

CONSTANTS
  Setups,        \* calls of setup; each may create one enclave, named after it
  Invocations,   \* calls of invoke
  Keys,          \* the keys that sgx_ecc256_create_key_pair may create
  MaxVersion,    \* bound on the versions of the chaincode, by their MRENCLAVE
  MaxBlock,      \* bound on the transactions of a block
  None

ASSUME RegistryAssumption ==
  /\ Setups \cap Invocations = {} /\ None \notin Setups
  /\ Keys \subseteq [x : Coordinates, y : Coordinates] \ {ZeroKey}
  /\ MaxVersion \in Nat /\ MaxBlock \in Nat

Versions == 1..MaxVersion
NoVersion == 0

VARIABLES
  eid,        \* StubImpl.eid in the process of each version
  version,    \* the version whose process serves a call
  identity,   \* enclave_pk of each enclave
  ledgerKey,  \* enclave_pk of the ledger enclave
  bound,      \* tlcc_pk of each enclave
  pc,         \* how far each call is
  got,        \* what a setup got from its enclave: the quote and the key
  signer,     \* the enclave that signed an invocation's response
  attested,   \* enclaves whose quotes were in memory once
  pool,       \* endorsed transactions not yet in a block
  mrenclave,  \* the state of ecc under MrEnclaveStateKey
  registry,   \* the state of ercc, with the block and the MRENCLAVE it came under
  accepted,   \* the valid invocations, with their block
  height

ecc == <<eid, version, identity, ledgerKey, bound, pc, got, signer, attested>>
ledger == <<mrenclave, registry, accepted, height>>
vars == <<ecc, pool, ledger>>

Nothing == [quote |-> None, pk |-> ZeroKey]

\* sgx_get_quote over the report of enclave e.
Quote(e) == [enclave |-> e, mrenclave |-> version[e], data |-> ReportData(identity[e])]

Init ==
  /\ eid = [v \in Versions |-> None]
  /\ version = [c \in Setups \cup Invocations |-> NoVersion]
  /\ identity = [s \in Setups |-> ZeroKey]
  /\ ledgerKey \in Keys
  /\ bound = [s \in Setups |-> ZeroKey]
  /\ pc = [c \in Setups \cup Invocations |-> "start"]
  /\ got = [s \in Setups |-> Nothing]
  /\ signer = [i \in Invocations |-> None]
  /\ attested = {}
  /\ pool = {}
  /\ mrenclave = NoVersion
  /\ registry = {}
  /\ accepted = {}
  /\ height = 0

Goto(c, step) == pc' = [pc EXCEPT ![c] = step]

\* EnclaveChaincode.Init of the version that is instantiated or upgraded to.
Instantiate(v) ==
  /\ v = mrenclave + 1
  /\ pool' = pool \cup {[type |-> "init", mrenclave |-> v]}
  /\ UNCHANGED <<ecc, ledger>>

----------------------------------------------------------------------------
(* setup *)

\* The keys an enclave may have afterwards: a new one, or none on an error.
ecall_init == (Keys \ ({identity[e] : e \in Setups} \cup {ledgerKey})) \cup {ZeroKey}

\* Create fails, or the enclave starts; if ecall_init failed inside,
\* sgxcc_create_enclave returns success all the same.
Create(s) ==
  /\ pc[s] = "start" /\ mrenclave # NoVersion
  /\ \/ Goto(s, "failed") /\ UNCHANGED <<eid, version, identity>>
     \/ /\ Goto(s, "created")
        /\ version' = [version EXCEPT ![s] = mrenclave]
        /\ eid' = [eid EXCEPT ![mrenclave] = s]
        /\ \E key \in ecall_init : identity' = [identity EXCEPT ![s] = key]
  /\ UNCHANGED <<ledgerKey, bound, got, signer, attested, pool, ledger>>

\* What memory from malloc may hold in the process of version v: no key, or
\* one that an earlier call had there.
LeftKeys(v) ==
  {ZeroKey} \cup {ecall_get_pk(identity[a]) : a \in {e \in attested : version[e] = v}}

LeftQuotes(v) == {None} \cup {Quote(a) : a \in {e \in attested : version[e] = v}}

\* GetRemoteAttestationReport looks at no error: a buffer that the library
\* did not fill is used as malloc gave it.  The key is written before the quote.
GetRemoteAttestationReport(s) ==
  LET v == version[s]
      own == ecall_get_pk(identity[eid[v]])
      Answers == {[quote |-> Quote(eid[v]), pk |-> own]}
                   \cup [quote : LeftQuotes(v), pk : LeftKeys(v) \cup {own}]
  IN  /\ pc[s] = "created"
      /\ \/ Goto(s, "failed") /\ UNCHANGED <<got, attested>>   \* no SPID
         \/ \E a \in Answers :
              /\ \/ /\ IsOnCurve(a.pk)
                    /\ got' = [got EXCEPT ![s] = [a EXCEPT !.pk = MarshalEnclavePk(@)]]
                    /\ Goto(s, "attested")
                 \/ ~IsOnCurve(a.pk) /\ Goto(s, "failed") /\ UNCHANGED got
              /\ attested' = attested \cup {eid[v]}
      /\ UNCHANGED <<eid, version, identity, ledgerKey, bound, signer, pool, ledger>>

\* registerEnclave in ercc: IAS answers for a quote an enclave made, or fails.
RegisterEnclave(s) ==
  /\ pc[s] = "attested"
  /\ \/ Goto(s, "failed")
     \/ /\ got[s].quote # None
        /\ CheckEnclavePkHash(got[s].pk, got[s].quote.data)
        /\ Goto(s, "registered")
  /\ UNCHANGED <<eid, version, identity, ledgerKey, bound, got, signer, attested, pool, ledger>>

\* Mutant: the key of the ledger enclave is not compared with its report.
BindUnchecked(tlcc_pk, pk, data) == pk

\* The key of the ledger enclave that the enclave has afterwards.
ecall_bind_tlcc(tlcc_pk, pk, data) == IF pk.x \o pk.y = data THEN pk ELSE tlcc_pk

\* The report of the ledger enclave; an error leaves it empty.
tlcc_get_local_attestation_report == {ReportData(ledgerKey), <<>>}

\* The last steps of setup: the report of the ledger enclave, then the binding
\* of whichever enclave has the id.  Setup succeeds whatever Bind did, and its transaction is sent.
Bind(s) ==
  LET e == eid[version[s]]
      pk == UnmarshalEnclavePk(MarshalEnclavePk(ecall_get_pk(ledgerKey)))
  IN  /\ pc[s] = "registered"
      /\ \/ Goto(s, "failed") /\ UNCHANGED <<bound, pool>>   \* no key from tlcc
         \/ /\ \E report \in tlcc_get_local_attestation_report :
                 bound' = [bound EXCEPT ![e] = ecall_bind_tlcc(@, pk, report)]
            /\ pool' = pool \cup {[type |-> "register", pk |-> got[s].pk, quote |-> got[s].quote]}
            /\ Goto(s, "done")
      /\ UNCHANGED <<eid, version, identity, ledgerKey, got, signer, attested, ledger>>

----------------------------------------------------------------------------
(* invoke *)

\* The enclave that has the id now runs the call and signs.
Invoke(i) ==
  /\ pc[i] = "start" /\ mrenclave # NoVersion
  /\ \/ Goto(i, "failed") /\ UNCHANGED <<version, signer>>
     \/ /\ eid[mrenclave] # None
        /\ version' = [version EXCEPT ![i] = mrenclave]
        /\ signer' = [signer EXCEPT ![i] = eid[mrenclave]]
        /\ Goto(i, "signed")
  /\ UNCHANGED <<eid, identity, ledgerKey, bound, got, attested, pool, ledger>>

\* GetPublicKey asks the enclave that has the id by then, and takes what is in
\* the buffer if that fails.  The transaction has a set of the namespace ecc
\* when the call read or wrote state (touches); an unknown function does not.
GetPublicKey(i) ==
  LET v == version[i]
  IN  /\ pc[i] = "signed"
      /\ \E k \in {ecall_get_pk(identity[eid[v]])} \cup LeftKeys(v) :
           \/ ~IsOnCurve(k) /\ Goto(i, "failed") /\ UNCHANGED pool
           \/ /\ IsOnCurve(k)
              /\ \E touches \in BOOLEAN :
                   pool' = pool \cup {[type |-> "invoke", call |-> i, signer |-> signer[i],
                                       pk |-> MarshalEnclavePk(k), touches |-> touches]}
              /\ Goto(i, "done")
      /\ UNCHANGED <<eid, version, identity, ledgerKey, bound, got, signer, attested, ledger>>

----------------------------------------------------------------------------
(* Commit *)

\* Mutant: a version has one enclave.
AttestedOnce(tx) ==
  /\ CheckEnclavePkHash(tx.pk, tx.quote.data)
  /\ tx.quote.mrenclave = mrenclave
  /\ \A r \in registry : r.under # mrenclave

\* The validator of ercc.  The report in the transaction is IAS's answer.
checkAttestation(tx) ==
  /\ CheckEnclavePkHash(tx.pk, tx.quote.data)
  /\ mrenclave # NoVersion
  /\ tx.quote.mrenclave = mrenclave

\* Mutant: the signature is not verified.
EndorsedUnsigned(tx) == tx.touches => \E r \in registry : r.pk = tx.pk

\* The validator of ecc: for a set of the namespace ecc, the key is registered
\* and the signature is its.  Without one it has nothing to check.
checkEnclaveEndorsement(tx) ==
  tx.touches =>
    /\ \E r \in registry : r.pk = tx.pk
    /\ tx.pk = MarshalEnclavePk(ecall_get_pk(identity[tx.signer]))

\* A block of endorsed transactions.  All are validated against the state
\* before it.
Commit(block) ==
  LET inits == {tx \in block : tx.type = "init"}
      registers == {tx \in block : tx.type = "register"}
      invokes == {tx \in block : tx.type = "invoke"}
  IN  /\ block # {} /\ Cardinality(block) <= MaxBlock /\ Cardinality(inits) <= 1
      /\ pool' = pool \ block
      /\ height' = height + 1
      /\ mrenclave' = IF inits = {} THEN mrenclave ELSE (CHOOSE tx \in inits : TRUE).mrenclave
      /\ registry' = registry \cup {[pk |-> tx.pk, quote |-> tx.quote, under |-> mrenclave,
                                     block |-> height + 1] :
                                      tx \in {t \in registers : checkAttestation(t)}}
      /\ accepted' = accepted \cup {[pk |-> tx.pk, signer |-> tx.signer, touches |-> tx.touches,
                                     block |-> height + 1] :
                                      tx \in {t \in invokes : checkEnclaveEndorsement(t)}}
      /\ UNCHANGED ecc

Next ==
  \/ \E v \in Versions : Instantiate(v)
  \/ \E s \in Setups : Create(s)
  \/ \E s \in Setups : GetRemoteAttestationReport(s)
  \/ \E s \in Setups : RegisterEnclave(s)
  \/ \E s \in Setups : Bind(s)
  \/ \E i \in Invocations : Invoke(i)
  \/ \E i \in Invocations : GetPublicKey(i)
  \/ \E block \in SUBSET pool : Commit(block)

\* Blocks keep coming while transactions wait.
Fairness == WF_vars(\E block \in SUBSET pool : Commit(block))

Spec == Init /\ [][Next]_vars /\ Fairness

----------------------------------------------------------------------------
(* Properties *)

Calls == Setups \cup Invocations

\* The types of the variables; an enclave has no key or one that ecall_init
\* may create.
TypeOK ==
  /\ eid \in [Versions -> Setups \cup {None}]
  /\ version \in [Calls -> Versions \cup {NoVersion}]
  /\ identity \in [Setups -> Keys \cup {ZeroKey}]
  /\ ledgerKey \in Keys
  /\ DOMAIN pc = Calls
  /\ DOMAIN bound = Setups /\ DOMAIN got = Setups
  /\ signer \in [Invocations -> Setups \cup {None}]
  /\ attested \subseteq Setups
  /\ mrenclave \in Versions \cup {NoVersion}
  /\ height \in Nat

\* Whatever went wrong in setup (an enclave without a key, a buffer of an
\* earlier call, another setup's enclave, an upgrade on the way), a key that
\* ercc holds is the whole key of the enclave that its quote is of, and that
\* enclave runs the code whose MRENCLAVE the channel had before the block.
RegisteredKeysAreGenuine ==
  \A r \in registry :
    LET e == r.quote.enclave
    IN  /\ identity[e] \in Keys
        /\ r.pk = MarshalEnclavePk(ecall_get_pk(identity[e]))
        /\ version[e] = r.under

\* An invocation that the validator of ecc lets through and that read or wrote
\* state was signed by an enclave that an earlier block registered, although
\* invoke asks for the key in a second ecall, when a setup may have put another
\* enclave in its place.  Of one that touched no state it checks nothing.
AcceptedSignersAreRegistered ==
  \A a \in accepted :
    a.touches => \E r \in registry : r.block < a.block /\ r.quote.enclave = a.signer

\* Bind converts the ledger enclave's key back from DER, which shifts a
\* coordinate with leading zeros, and drops the error of the enclave; an
\* enclave is bound to the real key of the ledger enclave or to none.
BoundToTheLedger == \A e \in Setups : bound[e] \in {ZeroKey, ecall_get_pk(ledgerKey)}

\* What registerEnclave let through at endorsement, the validator lets through
\* at commit: a setup that succeeded has its key registered in the end, unless
\* the chaincode was upgraded.
SetupsTakeEffect ==
  \A s \in Setups :
    pc[s] = "done" ~> \/ \E r \in registry : r.pk = got[s].pk
                      \/ mrenclave # version[s]

\* verifier.go says that CheckEnclavePkHash "returns true if hash of enclave pk
\* in quote matches the expected value": it should for the key and the quote
\* that one enclave gave.
OwnKeyMatches ==
  \A s \in Setups :
    /\ pc[s] = "attested"
    /\ got[s].quote # None
    /\ got[s].pk = MarshalEnclavePk(ecall_get_pk(identity[got[s].quote.enclave]))
    => CheckEnclavePkHash(got[s].pk, got[s].quote.data)
=============================================================================
