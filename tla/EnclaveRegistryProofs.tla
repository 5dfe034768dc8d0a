----------------------- MODULE EnclaveRegistryProofs -----------------------
(***************************************************************************)
(* Proofs about EnclaveRegistry for any number of enclaves, calls and      *)
(* versions, and for keys of any width.                                    *)
(***************************************************************************)
EXTENDS EnclaveRegistry, SequenceTheorems, TLAPS

KeySet == [x : Coordinates, y : Coordinates]

----------------------------------------------------------------------------
(* The conversions of keys *)

\* big.Int.Bytes gives at most Width bytes, and all of them only when there is
\* nothing to lose.
LEMMA IntBytesLength ==
  ASSUME NEW b \in Coordinates
  PROVE  /\ IntBytes(b) \in Seq(0..255)
         /\ Len(IntBytes(b)) <= Width
         /\ Len(IntBytes(b)) = Width => IntBytes(b) = b
<1> DEFINE IsTop(i) == b[i] # 0 /\ \A j \in 1..(i - 1) : b[j] = 0
           top == CHOOSE i \in 1..Width : IsTop(i)
<1>1. b \in Seq(0..255) /\ Len(b) = Width
  BY WidthAssumption DEF Coordinates
<1>2. CASE ~\E i \in 1..Width : IsTop(i)
  <2>1. IntBytes(b) = <<>>
    BY <1>2 DEF IntBytes
  <2> QED
    BY <2>1, WidthAssumption
<1>3. CASE \E i \in 1..Width : IsTop(i)
  <2>1. top \in 1..Width
    BY <1>3
  <2>2. IntBytes(b) = SubSeq(b, top, Width)
    BY <1>3, Zenon DEF IntBytes
  <2> HIDE DEF top
  <2>3. /\ SubSeq(b, top, Width) \in Seq(0..255)
        /\ Len(SubSeq(b, top, Width)) = Width - top + 1
    <3>1. top \in Int /\ Width \in Int /\ top <= Width
      BY <2>1, WidthAssumption
    <3>2. \A i \in top..Width : b[i] \in 0..255
      BY <2>1, WidthAssumption DEF Coordinates
    <3> QED
      BY ONLY <3>1, <3>2, SubSeqProperties
  <2>4. ASSUME top = 1 PROVE SubSeq(b, top, Width) = b
    BY <1>1, <2>4, SubSeqFull
  <2> QED
    BY <2>1, <2>2, <2>3, <2>4, WidthAssumption
<1> QED
  BY <1>2, <1>3

\* Coordinates with the same bytes are the same.
LEMMA SameBytes ==
  ASSUME NEW b \in Coordinates, NEW c \in Coordinates, \A i \in 1..Width : b[i] = c[i]
  PROVE  b = c
<1>1. b = [i \in 1..Width |-> b[i]] /\ c = [i \in 1..Width |-> c[i]]
  BY DEF Coordinates
<1> QED
  BY <1>1, Zenon

\* A key is one in either byte order.
LEMMA BigEndianKey ==
  ASSUME NEW d \in KeySet
  PROVE  /\ ecall_get_pk(d) \in KeySet
         /\ \A i \in 1..Width : /\ ecall_get_pk(d).x[i] = d.x[Width + 1 - i]
                                /\ ecall_get_pk(d).y[i] = d.y[Width + 1 - i]
<1>1. ASSUME NEW b \in Coordinates
      PROVE  /\ bytes_swap(b) \in Coordinates
             /\ \A i \in 1..Width : bytes_swap(b)[i] = b[Width + 1 - i]
  <2>1. Len(b) = Width
    BY WidthAssumption DEF Coordinates
  <2>2. \A i \in 1..Width : Width + 1 - i \in 1..Width
    BY WidthAssumption
  <2> QED
    BY <2>1, <2>2, Zenon DEF bytes_swap, Coordinates
<1> QED
  BY <1>1 DEF ecall_get_pk, KeySet

\* bytes_swap loses nothing: enclaves with different keys give out different ones.
LEMMA BigEndianInjective ==
  ASSUME NEW d \in KeySet, NEW e \in KeySet, ecall_get_pk(d) = ecall_get_pk(e)
  PROVE  d = e
<1>1. \A i \in 1..Width : d.x[Width + 1 - i] = e.x[Width + 1 - i]
                          /\ d.y[Width + 1 - i] = e.y[Width + 1 - i]
  BY BigEndianKey
<1>2. \A j \in 1..Width : Width + 1 - j \in 1..Width /\ Width + 1 - (Width + 1 - j) = j
  BY WidthAssumption
<1>3. \A j \in 1..Width : d.x[j] = e.x[j] /\ d.y[j] = e.y[j]
  BY <1>1, <1>2
<1>4. d.x = e.x /\ d.y = e.y
  BY <1>3, SameBytes DEF KeySet
<1> QED
  BY <1>4 DEF KeySet

\* enclave_pk is a key of zeros before ecall_init.
LEMMA ZeroKeyIsKey == ZeroKey \in KeySet
<1>1. Zeros \in Coordinates
  BY DEF Zeros, Coordinates
<1> QED
  BY <1>1 DEF ZeroKey, KeySet

\* An enclave without a key gives out zeros, which IsOnCurve refuses.
LEMMA ZeroBigEndian == ecall_get_pk(ZeroKey) = ZeroKey
<1>1. Len(Zeros) = Width
  BY WidthAssumption DEF Zeros
<1>2. bytes_swap(Zeros) = Zeros
  BY <1>1, WidthAssumption DEF bytes_swap, Zeros
<1> QED
  BY <1>2 DEF ecall_get_pk, ZeroKey

\* The length of two strings, one after the other.
LEMMA ConcatLength ==
  ASSUME NEW a \in Seq(0..255), NEW b \in Seq(0..255)
  PROVE  Len(a \o b) = Len(a) + Len(b)
OBVIOUS

\* Two strings that are as long as two coordinates are equal only if the
\* coordinates are.
LEMMA SplitInHalves ==
  ASSUME NEW a \in Seq(0..255), NEW b \in Seq(0..255), NEW c \in Coordinates, NEW d \in Coordinates,
         Len(a) <= Width, Len(b) <= Width, a \o b = c \o d
  PROVE  a = c /\ b = d
<1>1. c \in Seq(0..255) /\ d \in Seq(0..255) /\ Len(c) = Width /\ Len(d) = Width
  BY WidthAssumption DEF Coordinates
<1>2. Len(a \o b) = Len(a) + Len(b) /\ Len(c \o d) = Width + Width
  <2>1. Len(a \o b) = Len(a) + Len(b)
    BY ConcatLength
  <2>2. Len(c \o d) = Len(c) + Len(d)
    BY ONLY <1>1, ConcatLength, Zenon
  <2> QED
    BY <1>1, <2>1, <2>2
<1>3. Len(a) = Width /\ Len(b) = Width
  BY <1>2, WidthAssumption
<1>4. \A i \in 1..Width : (a \o b)[i] = a[i] /\ (c \o d)[i] = c[i]
  BY <1>1, <1>3, WidthAssumption
<1>5. \A i \in 1..Width : (a \o b)[Width + i] = b[i] /\ (c \o d)[Width + i] = d[i]
  <2> SUFFICES ASSUME NEW i \in 1..Width
               PROVE  (a \o b)[Width + i] = b[i] /\ (c \o d)[Width + i] = d[i]
    BY Zenon
  <2>1. /\ Width + i \in 1..(Width + Width) /\ ~(Width + i <= Width)
        /\ Width + i - Width = i
    BY WidthAssumption
  <2> QED
    BY <1>1, <1>3, <2>1, WidthAssumption, ConcatProperties
<1>6. \A i \in 1..Width : a[i] = c[i] /\ b[i] = d[i]
  BY <1>4, <1>5, Zenon
<1> QED
  BY <1>1, <1>3, <1>6, SeqEqual

\* The check of ercc compares all of the key: only the key of the enclave that
\* made the quote passes, and only if no byte of it was lost.
LEMMA HashTellsKeysApart ==
  ASSUME NEW k \in KeySet, NEW d \in KeySet,
         CheckEnclavePkHash(MarshalEnclavePk(k), ReportData(d))
  PROVE  /\ k = ecall_get_pk(d)
         /\ Len(IntBytes(k.x)) = Width /\ Len(IntBytes(k.y)) = Width
<1> DEFINE e == ecall_get_pk(d)
<1>1. e \in KeySet /\ ReportData(d) = e.x \o e.y
  BY BigEndianKey DEF ReportData
<1>2. IntBytes(k.x) \o IntBytes(k.y) = e.x \o e.y
  BY <1>1, Zenon DEF CheckEnclavePkHash, MarshalEnclavePk
<1> HIDE DEF e
<1>3. e.x \in Coordinates /\ e.y \in Coordinates /\ k.x \in Coordinates /\ k.y \in Coordinates
  BY <1>1 DEF KeySet
<1>4. IntBytes(k.x) = e.x /\ IntBytes(k.y) = e.y
  <2>1. /\ IntBytes(k.x) \in Seq(0..255) /\ Len(IntBytes(k.x)) <= Width
        /\ IntBytes(k.y) \in Seq(0..255) /\ Len(IntBytes(k.y)) <= Width
    BY <1>3, IntBytesLength
  <2> QED
    BY ONLY <1>2, <1>3, <2>1, SplitInHalves, Zenon
<1>5. Len(e.x) = Width /\ Len(e.y) = Width
  BY <1>3, WidthAssumption DEF Coordinates
<1>6. k.x = e.x /\ k.y = e.y
  BY <1>3, <1>4, <1>5, IntBytesLength
<1>7. k = e
  BY <1>1, <1>6 DEF KeySet
<1> QED
  BY <1>4, <1>5, <1>7 DEF e

\* A key with all its bytes has a DER form of its own.
LEMMA WholeKeysMarshalApart ==
  ASSUME NEW k \in KeySet, NEW l \in KeySet, MarshalEnclavePk(k) = MarshalEnclavePk(l),
         Len(IntBytes(k.x)) = Width, Len(IntBytes(k.y)) = Width
  PROVE  k = l
<1>1. IntBytes(k.x) = IntBytes(l.x) /\ IntBytes(k.y) = IntBytes(l.y)
  BY DEF MarshalEnclavePk
<1>2. k.x = l.x /\ k.y = l.y
  BY <1>1, IntBytesLength DEF KeySet
<1> QED
  BY <1>2 DEF KeySet
\* Bind keeps a key only if converting it back gave the ledger enclave's.
LEMMA BindKeepsTheKey ==
  ASSUME NEW d \in KeySet, NEW old, NEW report \in {ReportData(d), <<>>}
  PROVE  ecall_bind_tlcc(old, UnmarshalEnclavePk(MarshalEnclavePk(ecall_get_pk(d))), report)
           \in {old, ecall_get_pk(d)}
<1> DEFINE e == ecall_get_pk(d)
           pk == UnmarshalEnclavePk(MarshalEnclavePk(e))
<1>1. e \in KeySet /\ ReportData(d) = e.x \o e.y
  BY BigEndianKey DEF ReportData
<1>2. pk \in KeySet
  <2>1. ASSUME NEW b \in Coordinates
        PROVE  [i \in 1..Width |-> IF i <= Len(IntBytes(b)) THEN IntBytes(b)[i] ELSE 0] \in Coordinates
    <3>1. IntBytes(b) \in Seq(0..255)
      BY IntBytesLength
    <3>2. \A i \in 1..Width : i <= Len(IntBytes(b)) => IntBytes(b)[i] \in 0..255
      <4>1. Len(IntBytes(b)) \in Nat
        BY ONLY <3>1
      <4>2. \A i \in 1..Width : i <= Len(IntBytes(b)) => i \in 1..Len(IntBytes(b))
        BY ONLY <4>1, WidthAssumption
      <4>3. \A i \in 1..Len(IntBytes(b)) : IntBytes(b)[i] \in 0..255
        BY ONLY <3>1, ElementOfSeq, Zenon
      <4> QED
        BY ONLY <4>2, <4>3
    <3>3. \A i \in 1..Width : (IF i <= Len(IntBytes(b)) THEN IntBytes(b)[i] ELSE 0) \in 0..255
      BY <3>2
    <3> QED
      BY <3>3, Zenon DEF Coordinates
  <2> HIDE DEF e
  <2> QED
    BY <1>1, <2>1, Zenon DEF UnmarshalEnclavePk, MarshalEnclavePk, KeySet
<1> HIDE DEF e, pk
<1>3. /\ pk.x \in Coordinates /\ pk.y \in Coordinates
      /\ e.x \in Coordinates /\ e.y \in Coordinates
  BY <1>1, <1>2 DEF KeySet
<1>4. /\ pk.x \in Seq(0..255) /\ Len(pk.x) = Width
      /\ pk.y \in Seq(0..255) /\ Len(pk.y) = Width
  BY <1>3, WidthAssumption DEF Coordinates
<1>5. ASSUME pk.x \o pk.y = report PROVE pk = e
  <2>1. Len(pk.x \o pk.y) = Len(pk.x) + Len(pk.y)
    BY ONLY <1>4, ConcatLength, Zenon
  <2>2. report # <<>>
    BY <1>4, <1>5, <2>1, WidthAssumption
  <2>3. pk.x \o pk.y = e.x \o e.y
    BY <1>1, <1>5, <2>2, Zenon
  <2>4. Len(pk.x) <= Width /\ Len(pk.y) <= Width
    BY <1>4, WidthAssumption
  <2>5. pk.x = e.x /\ pk.y = e.y
    BY ONLY <1>3, <1>4, <2>3, <2>4, SplitInHalves, Zenon
  <2> QED
    BY <1>1, <1>2, <2>5 DEF KeySet
<1>6. ecall_bind_tlcc(old, pk, report) \in {old, e}
  BY <1>5, Zenon DEF ecall_bind_tlcc
<1> QED
  BY <1>6 DEF pk, e

----------------------------------------------------------------------------
(* The inductive invariant *)

\* A quote that an enclave which started made, and a key that was on the curve.
IsQuote(q) == \E e \in Setups : version[e] \in Versions /\ q = Quote(e)
IsPk(pk) == \E k \in KeySet : k # ZeroKey /\ pk = MarshalEnclavePk(k)

\* What a call relies on at its next step.
CallsInv ==
  /\ \A s \in Setups : pc[s] = "start" => version[s] = NoVersion
  /\ \A s \in Setups : pc[s] \in {"created", "attested", "registered"} =>
                         version[s] \in Versions /\ eid[version[s]] # None
  /\ \A i \in Invocations : pc[i] = "signed" =>
                              /\ version[i] \in Versions /\ eid[version[i]] # None
                              /\ signer[i] \in Setups /\ version[signer[i]] \in Versions
  /\ \A v \in Versions : eid[v] # None => version[eid[v]] = v
  /\ \A a \in attested : version[a] \in Versions

\* No two enclaves have the same key.
KeysInv ==
  \A e, f \in Setups : identity[e] = identity[f] /\ identity[e] # ZeroKey => e = f

\* What a setup got, and what registerEnclave let through.
QuotesInv ==
  /\ \A s \in Setups : got[s].quote = None \/ IsQuote(got[s].quote)
  /\ \A s \in Setups : pc[s] \in {"attested", "registered"} => IsPk(got[s].pk)
  /\ \A s \in Setups : pc[s] = "registered" => IsQuote(got[s].quote)

\* What waits to be committed.
PoolInv ==
  \A tx \in pool :
    /\ tx.type = "init" => tx.mrenclave \in Versions
    /\ tx.type = "register" => IsQuote(tx.quote) /\ IsPk(tx.pk)
    /\ tx.type = "invoke" => tx.signer \in Setups /\ version[tx.signer] \in Versions

\* What checkAttestation let through.
RegistryInv ==
  \A r \in registry :
    /\ IsQuote(r.quote) /\ IsPk(r.pk)
    /\ CheckEnclavePkHash(r.pk, r.quote.data)
    /\ r.under = r.quote.mrenclave
    /\ r.block \in Nat /\ r.block <= height

\* What checkEnclaveEndorsement let through.
AcceptedInv ==
  \A a \in accepted : a.touches =>
    /\ a.signer \in Setups /\ version[a.signer] \in Versions
    /\ a.pk = MarshalEnclavePk(ecall_get_pk(identity[a.signer]))
    /\ \E r \in registry : r.pk = a.pk /\ r.block < a.block

TrustInv ==
  /\ TypeOK /\ CallsInv /\ KeysInv /\ QuotesInv /\ PoolInv /\ RegistryInv /\ AcceptedInv
  /\ BoundToTheLedger

\* What an enclave has as enclave_pk is a key it was given, or zeros.
LEMMA IdentitiesAreKeys ==
  ASSUME TypeOK, NEW e \in Setups
  PROVE  identity[e] \in Keys \cup {ZeroKey} /\ identity[e] \in KeySet
<1>1. Keys \subseteq KeySet
  BY RegistryAssumption DEF KeySet
<1> QED
  BY <1>1, ZeroKeyIsKey DEF TypeOK

----------------------------------------------------------------------------
(* A step keeps it *)

\* An enclave that started keeps its version and its key, so its quote says
\* the same as before.
LEMMA EnclavesStay ==
  ASSUME TypeOK, CallsInv, [Next]_vars
  PROVE  /\ \A e \in Setups : version[e] \in Versions =>
                              version'[e] = version[e] /\ identity'[e] = identity[e]
         /\ \A q : IsQuote(q) => IsQuote(q)'
<1>1. ASSUME NEW e \in Setups, version[e] \in Versions
      PROVE  version'[e] = version[e] /\ identity'[e] = identity[e]
  <2> USE <1>1
  <2>1. pc[e] # "start"
    BY DEF CallsInv, Versions, NoVersion
  <2>2. ASSUME NEW s \in Setups, Create(s) PROVE version'[e] = version[e] /\ identity'[e] = identity[e]
    BY <2>1, <2>2 DEF Create, TypeOK, Calls
  <2>3. ASSUME NEW i \in Invocations, Invoke(i) PROVE version'[e] = version[e] /\ identity'[e] = identity[e]
    <3>1. e # i
      BY RegistryAssumption
    <3> QED
      BY <2>3, <3>1 DEF Invoke, TypeOK, Calls
  <2>4. \/ \E s \in Setups : Create(s)
        \/ \E i \in Invocations : Invoke(i)
        \/ UNCHANGED <<version, identity>>
    BY Zenon DEF Next, vars, ecc, Instantiate, GetRemoteAttestationReport, RegisterEnclave, Bind,
           GetPublicKey, Commit
  <2> QED
    BY <2>2, <2>3, <2>4
<1>2. ASSUME NEW q, IsQuote(q) PROVE IsQuote(q)'
  <2>1. PICK e \in Setups : version[e] \in Versions /\ q = Quote(e)
    BY <1>2 DEF IsQuote
  <2>2. version'[e] = version[e] /\ identity'[e] = identity[e]
    BY <1>1, <2>1
  <2>3. Quote(e)' = Quote(e)
    BY <2>2 DEF Quote
  <2> QED
    BY <2>1, <2>2, <2>3 DEF IsQuote
<1> QED
  BY <1>1, <1>2

\* Every action keeps the types.
LEMMA TypeStep ==
  ASSUME TypeOK, CallsInv, PoolInv, [Next]_vars
  PROVE  TypeOK'
<1>1. ASSUME NEW v \in Versions, Instantiate(v) PROVE TypeOK'
  BY <1>1 DEF Instantiate, ecc, ledger, TypeOK
<1>2. ASSUME NEW s \in Setups, Create(s) PROVE TypeOK'
  <2>1. mrenclave \in Versions
    BY <1>2 DEF Create, TypeOK
  <2>2. DOMAIN pc' = Calls
    BY <1>2 DEF Create, TypeOK, Goto
  <2> QED
    BY <1>2, <2>1, <2>2 DEF Create, ecall_init, ledger, TypeOK, Calls
<1>3. ASSUME NEW s \in Setups, GetRemoteAttestationReport(s) PROVE TypeOK'
  <2>1. eid[version[s]] \in Setups
    BY <1>3 DEF GetRemoteAttestationReport, CallsInv, TypeOK
  <2>2. DOMAIN pc' = Calls /\ DOMAIN got' = Setups /\ attested' \subseteq Setups
    BY <1>3, <2>1 DEF GetRemoteAttestationReport, TypeOK, Goto
  <2> QED
    BY <1>3, <2>2 DEF GetRemoteAttestationReport, ledger, TypeOK
<1>4. ASSUME NEW s \in Setups, RegisterEnclave(s) PROVE TypeOK'
  BY <1>4 DEF RegisterEnclave, Goto, ledger, TypeOK
<1>5. ASSUME NEW s \in Setups, Bind(s) PROVE TypeOK'
  BY <1>5 DEF Bind, Goto, ledger, TypeOK
<1>6. ASSUME NEW i \in Invocations, Invoke(i) PROVE TypeOK'
  BY <1>6 DEF Invoke, Goto, ledger, TypeOK, Calls
<1>7. ASSUME NEW i \in Invocations, GetPublicKey(i) PROVE TypeOK'
  BY <1>7 DEF GetPublicKey, Goto, ledger, TypeOK
<1>8. ASSUME NEW block \in SUBSET pool, Commit(block) PROVE TypeOK'
  <2> DEFINE inits == {tx \in block : tx.type = "init"}
  <2>1. inits # {} => (CHOOSE tx \in inits : TRUE) \in inits
    OBVIOUS
  <2>2. \A tx \in inits : tx.mrenclave \in Versions
    BY DEF PoolInv
  <2>3. mrenclave' \in Versions \cup {NoVersion}
    BY <1>8, <2>1, <2>2 DEF Commit, TypeOK
  <2>4. height' \in Nat
    BY <1>8 DEF Commit, TypeOK
  <2> QED
    BY <1>8, <2>3, <2>4 DEF Commit, ecc, TypeOK
<1>9. CASE UNCHANGED vars
  BY <1>9 DEF vars, ecc, ledger, TypeOK
<1> QED
  BY <1>1, <1>2, <1>3, <1>4, <1>5, <1>6, <1>7, <1>8, <1>9 DEF Next

\* The steps of setup and invoke find what they rely on: in particular an
\* enclave id, once set, is replaced and never lost.
LEMMA CallsStep ==
  ASSUME TypeOK, CallsInv, [Next]_vars
  PROVE  CallsInv'
<1>2. ASSUME NEW s \in Setups, Create(s) PROVE CallsInv'
  <2>1. version[s] = NoVersion /\ s \notin attested /\ \A v \in Versions : eid[v] # s
    BY <1>2, RegistryAssumption DEF Create, CallsInv, Versions, NoVersion
  <2>2. \A i \in Invocations : i # s /\ pc'[i] = pc[i]
    BY <1>2, RegistryAssumption DEF Create, Goto, TypeOK, Calls
  <2>3. CASE pc' = [pc EXCEPT ![s] = "failed"] /\ UNCHANGED <<eid, version, identity>>
    BY <1>2, <2>2, <2>3 DEF Create, CallsInv, TypeOK, Calls
  <2>4. CASE /\ pc' = [pc EXCEPT ![s] = "created"]
             /\ version' = [version EXCEPT ![s] = mrenclave]
             /\ eid' = [eid EXCEPT ![mrenclave] = s]
    <3>1. mrenclave \in Versions
      BY <1>2 DEF Create, TypeOK
    <3>2. /\ version'[s] = mrenclave /\ eid'[mrenclave] = s /\ s # None
          /\ \A c \in Calls : c # s => version'[c] = version[c]
          /\ \A v \in Versions : v # mrenclave => eid'[v] = eid[v]
          /\ pc'[s] = "created" /\ \A c \in Calls : c # s => pc'[c] = pc[c]
          /\ UNCHANGED <<signer, attested>>
      BY <1>2, <2>4, <3>1, RegistryAssumption DEF Create, TypeOK, Calls
    <3>3. \A v \in Versions : eid[v] # None => eid'[v] # None
      BY <3>2
    <3>4. \A v \in Versions : eid'[v] # None => version'[eid'[v]] = v
      BY <2>1, <3>1, <3>2 DEF CallsInv, TypeOK, Calls
    <3>5. \A e \in Setups : version[e] \in Versions => version'[e] \in Versions
      BY <3>1, <3>2 DEF Calls
    <3> QED
      BY <2>1, <2>2, <3>1, <3>2, <3>3, <3>4, <3>5 DEF CallsInv, TypeOK, Calls
  <2> QED
    BY <1>2, <2>3, <2>4 DEF Create, Goto
<1>3. ASSUME NEW s \in Setups, GetRemoteAttestationReport(s) PROVE CallsInv'
  <2>1. /\ version[s] \in Versions /\ eid[version[s]] # None
        /\ version[eid[version[s]]] = version[s]
    BY <1>3 DEF GetRemoteAttestationReport, CallsInv
  <2>2. /\ attested' \subseteq attested \cup {eid[version[s]]}
        /\ pc'[s] \in {"attested", "failed"} /\ \A c \in Calls : c # s => pc'[c] = pc[c]
        /\ UNCHANGED <<eid, version, signer>>
    BY <1>3 DEF GetRemoteAttestationReport, Goto, TypeOK, Calls
  <2>3. \A i \in Invocations : i # s
    BY RegistryAssumption
  <2> QED
    BY <2>1, <2>2, <2>3 DEF CallsInv, Calls
<1>4. ASSUME NEW s \in Setups, RegisterEnclave(s) \/ Bind(s) PROVE CallsInv'
  <2>1. /\ pc[s] \in {"attested", "registered"}
        /\ pc'[s] \in {"registered", "done", "failed"} /\ \A c \in Calls : c # s => pc'[c] = pc[c]
        /\ UNCHANGED <<eid, version, signer, attested>>
    BY <1>4 DEF RegisterEnclave, Bind, Goto, TypeOK, Calls
  <2>2. \A i \in Invocations : i # s
    BY RegistryAssumption
  <2> QED
    BY <2>1, <2>2 DEF CallsInv, Calls
<1>6. ASSUME NEW i \in Invocations, Invoke(i) PROVE CallsInv'
  <2>1. /\ pc[i] = "start" /\ mrenclave \in Versions
        /\ \A c \in Calls : c # i => pc'[c] = pc[c] /\ version'[c] = version[c]
        /\ \A j \in Invocations : j # i => signer'[j] = signer[j]
        /\ UNCHANGED <<eid, attested>>
    BY <1>6 DEF Invoke, Goto, TypeOK, Calls
  <2>2. pc'[i] = "signed" => /\ version'[i] = mrenclave /\ signer'[i] = eid[mrenclave]
                             /\ eid[mrenclave] # None
    BY <1>6 DEF Invoke, Goto, TypeOK, Calls
  <2>3. \A s \in Setups : s # i
    BY RegistryAssumption
  <2>4. eid[mrenclave] # None => eid[mrenclave] \in Setups /\ version[eid[mrenclave]] = mrenclave
    BY <2>1 DEF CallsInv, TypeOK
  <2>5. \A s \in Setups : version'[s] = version[s] /\ pc'[s] = pc[s]
    BY <2>1, <2>3 DEF Calls
  <2>6. \A a \in attested : a \in Setups
    BY DEF TypeOK
  <2>7. \A j \in Invocations : pc'[j] = "signed" =>
                              /\ version'[j] \in Versions /\ eid'[version'[j]] # None
                              /\ signer'[j] \in Setups /\ version'[signer'[j]] \in Versions
    BY <2>1, <2>2, <2>3, <2>4, <2>5 DEF CallsInv, Calls
  <2>8. \A v \in Versions : eid'[v] # None => version'[eid'[v]] = v
    BY <2>1, <2>5 DEF CallsInv, TypeOK
  <2>9. \A s \in Setups : pc'[s] = "start" => version'[s] = NoVersion
    BY ONLY CallsInv, <2>5 DEF CallsInv
  <2>10. \A s \in Setups : pc'[s] \in {"created", "attested", "registered"} =>
                              version'[s] \in Versions /\ eid'[version'[s]] # None
    BY ONLY CallsInv, <2>1, <2>5 DEF CallsInv
  <2>11. \A a \in attested' : version'[a] \in Versions
    BY ONLY CallsInv, <2>1, <2>5, <2>6 DEF CallsInv
  <2> QED
    BY ONLY <2>7, <2>8, <2>9, <2>10, <2>11 DEF CallsInv
<1>7. ASSUME NEW i \in Invocations, GetPublicKey(i) PROVE CallsInv'
  <2>1. /\ pc'[i] \in {"done", "failed"} /\ \A c \in Calls : c # i => pc'[c] = pc[c]
        /\ UNCHANGED <<eid, version, signer, attested>>
    BY <1>7 DEF GetPublicKey, Goto, TypeOK, Calls
  <2>2. \A s \in Setups : s # i
    BY RegistryAssumption
  <2> QED
    BY <2>1, <2>2 DEF CallsInv, Calls
<1>8. CASE UNCHANGED ecc
  BY <1>8 DEF ecc, CallsInv
<1> QED
  BY <1>2, <1>3, <1>4, <1>6, <1>7, <1>8, Zenon DEF Next, vars, Instantiate, Commit

\* ecall_init never gives an enclave the key of another one.
LEMMA KeysStep ==
  ASSUME TypeOK, KeysInv, [Next]_vars
  PROVE  KeysInv'
<1>1. ASSUME NEW s \in Setups, Create(s) PROVE KeysInv'
  <2>1. CASE UNCHANGED identity
    BY <2>1 DEF KeysInv
  <2>2. CASE \E key \in ecall_init : identity' = [identity EXCEPT ![s] = key]
    BY <2>2 DEF ecall_init, KeysInv, TypeOK
  <2> QED
    BY <1>1, <2>1, <2>2 DEF Create
<1>2. (\E s \in Setups : Create(s)) \/ UNCHANGED identity
  BY Zenon DEF Next, vars, ecc, Instantiate, GetRemoteAttestationReport, RegisterEnclave, Bind,
         Invoke, GetPublicKey, Commit
<1> QED
  BY <1>1, <1>2 DEF KeysInv
\* Whatever is in the buffers, a quote that setup reads is one an enclave made.
LEMMA QuotesStep ==
  ASSUME TypeOK, CallsInv, QuotesInv, [Next]_vars
  PROVE  QuotesInv'
<1> USE EnclavesStay
<1>1. \A pk : IsPk(pk)' <=> IsPk(pk)
  BY DEF IsPk
<1>2. ASSUME NEW s \in Setups, GetRemoteAttestationReport(s) PROVE QuotesInv'
  <2> DEFINE v == version[s]
             own == ecall_get_pk(identity[eid[v]])
             Answers == {[quote |-> Quote(eid[v]), pk |-> own]}
                          \cup [quote : LeftQuotes(v), pk : LeftKeys(v) \cup {own}]
  <2>1. v \in Versions /\ eid[v] \in Setups /\ version[eid[v]] = v
    BY <1>2 DEF GetRemoteAttestationReport, CallsInv, TypeOK
  <2>2. /\ \A c \in Setups : c # s => pc'[c] = pc[c] /\ got'[c] = got[c]
        /\ \/ pc'[s] = "failed" /\ got'[s] = got[s]
           \/ /\ pc'[s] = "attested"
              /\ \E a \in Answers : /\ IsOnCurve(a.pk)
                                    /\ got'[s] = [a EXCEPT !.pk = MarshalEnclavePk(@)]
    BY <1>2, Zenon DEF GetRemoteAttestationReport, Goto, TypeOK, Calls
  <2>3. ASSUME NEW e \in Setups PROVE ecall_get_pk(identity[e]) \in KeySet
    BY IdentitiesAreKeys, BigEndianKey
  <2>4. ASSUME NEW a \in Answers
        PROVE  (a.quote = None \/ IsQuote(a.quote)) /\ a.pk \in KeySet
    <3>1. IsQuote(Quote(eid[v])) /\ own \in KeySet
      BY <2>1, <2>3 DEF IsQuote
    <3>2. \A q \in LeftQuotes(v) : q = None \/ IsQuote(q)
      BY DEF LeftQuotes, IsQuote, CallsInv, TypeOK
    <3>3. LeftKeys(v) \subseteq KeySet
      BY <2>3, ZeroKeyIsKey DEF LeftKeys, TypeOK
    <3> HIDE DEF own
    <3> QED
      BY <3>1, <3>2, <3>3
  <2>5. CASE pc'[s] = "failed" /\ got'[s] = got[s]
    BY <1>1, <2>2, <2>5 DEF QuotesInv
  <2>6. ASSUME NEW a \in Answers, IsOnCurve(a.pk), pc'[s] = "attested",
               got'[s] = [a EXCEPT !.pk = MarshalEnclavePk(@)]
        PROVE  QuotesInv'
    <3>1. got'[s].quote = a.quote /\ got'[s].pk = MarshalEnclavePk(a.pk)
      <4>1. DOMAIN a = {"quote", "pk"}
        OBVIOUS
      <4> HIDE DEF Answers
      <4> QED
        BY <2>6, <4>1
    <3>2. IsPk(got'[s].pk) /\ (got'[s].quote = None \/ IsQuote(got'[s].quote))
      BY <2>4, <2>6, <3>1 DEF IsPk, IsOnCurve
    <3> QED
      BY <1>1, <2>2, <2>6, <3>2 DEF QuotesInv
  <2> QED
    BY <2>2, <2>5, <2>6, Zenon
<1>3. ASSUME NEW s \in Setups, RegisterEnclave(s) PROVE QuotesInv'
  BY <1>1, <1>3 DEF RegisterEnclave, Goto, QuotesInv, TypeOK, Calls
<1>4. ASSUME /\ UNCHANGED got
             /\ \A s \in Setups : pc'[s] = pc[s] \/ pc'[s] \in {"created", "failed", "done"}
      PROVE  QuotesInv'
  BY <1>1, <1>4 DEF QuotesInv
<1>5. ASSUME NEW s \in Setups, Create(s) \/ Bind(s) PROVE QuotesInv'
  <2>1. /\ UNCHANGED got
        /\ \A t \in Setups : pc'[t] = pc[t] \/ pc'[t] \in {"created", "failed", "done"}
    BY <1>5 DEF Create, Bind, Goto, TypeOK, Calls
  <2> QED
    BY <1>4, <2>1
<1>6. ASSUME NEW i \in Invocations, Invoke(i) \/ GetPublicKey(i) PROVE QuotesInv'
  <2>1. UNCHANGED got /\ \A t \in Setups : pc'[t] = pc[t]
    BY <1>6, RegistryAssumption DEF Invoke, GetPublicKey, Goto, TypeOK, Calls
  <2> QED
    BY <1>4, <2>1
<1>7. CASE UNCHANGED ecc
  BY <1>4, <1>7 DEF ecc
<1> QED
  BY <1>2, <1>3, <1>5, <1>6, <1>7, Zenon DEF Next, vars, Instantiate, Commit

\* What setup and invoke send to be committed is well formed: a quote some
\* enclave made, a key on the curve, a signer that exists.
LEMMA PoolStep ==
  ASSUME TypeOK, CallsInv, QuotesInv, PoolInv, [Next]_vars
  PROVE  PoolInv'
<1> DEFINE Sound(tx) == /\ tx.type = "init" => tx.mrenclave \in Versions
                        /\ tx.type = "register" => IsQuote(tx.quote) /\ IsPk(tx.pk)
                        /\ tx.type = "invoke" => tx.signer \in Setups /\ version[tx.signer] \in Versions
<1>1. ASSUME \A tx \in pool' : Sound(tx) PROVE PoolInv'
  <2>1. \A e \in Setups : version[e] \in Versions => version'[e] \in Versions
    BY EnclavesStay
  <2>2. \A q : IsQuote(q) => IsQuote(q)'
    BY EnclavesStay
  <2>3. \A pk : IsPk(pk) => IsPk(pk)'
    BY DEF IsPk
  <2>4. ASSUME NEW tx \in pool'
        PROVE  /\ tx.type = "init" => tx.mrenclave \in Versions
               /\ tx.type = "register" => IsQuote(tx.quote)' /\ IsPk(tx.pk)'
               /\ tx.type = "invoke" => tx.signer \in Setups /\ version'[tx.signer] \in Versions
    BY <1>1, <2>1, <2>2, <2>3
  <2> QED
    BY <2>4 DEF PoolInv
<1>2. \A tx \in pool : Sound(tx)
  BY DEF PoolInv
<1>3. ASSUME NEW v \in Versions, Instantiate(v) PROVE \A tx \in pool' : Sound(tx)
  BY <1>2, <1>3 DEF Instantiate
<1>4. ASSUME NEW s \in Setups, Bind(s) PROVE \A tx \in pool' : Sound(tx)
  <2>1. IsQuote(got[s].quote) /\ IsPk(got[s].pk)
    BY <1>4 DEF Bind, QuotesInv
  <2>2. pool' \subseteq pool \cup {[type |-> "register", pk |-> got[s].pk, quote |-> got[s].quote]}
    BY <1>4 DEF Bind
  <2> QED
    BY <1>2, <2>1, <2>2
<1>5. ASSUME NEW i \in Invocations, GetPublicKey(i) PROVE \A tx \in pool' : Sound(tx)
  <2>1. signer[i] \in Setups /\ version[signer[i]] \in Versions
    BY <1>5 DEF GetPublicKey, CallsInv
  <2>2. \A tx \in pool' : tx \in pool \/ \E pk, t : tx = [type |-> "invoke", call |-> i, signer |-> signer[i],
                                                       pk |-> pk, touches |-> t]
    BY <1>5 DEF GetPublicKey
  <2> QED
    BY <1>2, <2>1, <2>2
<1>6. ASSUME pool' \subseteq pool PROVE \A tx \in pool' : Sound(tx)
  BY <1>2, <1>6
<1>7. \/ \E v \in Versions : Instantiate(v)
      \/ \E t \in Setups : Bind(t)
      \/ \E i \in Invocations : GetPublicKey(i)
      \/ pool' \subseteq pool
  BY Zenon DEF Next, vars, Create, GetRemoteAttestationReport, RegisterEnclave, Invoke, Commit
<1>8. \A tx \in pool' : Sound(tx)
  <2> HIDE DEF Sound
  <2> QED
    BY ONLY <1>3, <1>4, <1>5, <1>6, <1>7
<1> QED
  BY ONLY <1>1, <1>8

\* The validators look at the state before the block, so a registration came
\* under the MRENCLAVE it was compared with, and an accepted invocation has its
\* registration in an earlier block.
LEMMA LedgerStep ==
  ASSUME TypeOK, CallsInv, PoolInv, RegistryInv, AcceptedInv, [Next]_vars
  PROVE  RegistryInv' /\ AcceptedInv'
<1> USE EnclavesStay
<1>1. CASE UNCHANGED ledger
  BY <1>1 DEF ledger, RegistryInv, AcceptedInv, IsPk
<1>2. ASSUME NEW block \in SUBSET pool, Commit(block) PROVE RegistryInv' /\ AcceptedInv'
  <2>1. /\ height \in Nat /\ height' = height + 1
        /\ registry \subseteq registry'
        /\ \A r \in registry' : r \in registry \/ \E tx \in pool :
             /\ tx.type = "register" /\ checkAttestation(tx)
             /\ r = [pk |-> tx.pk, quote |-> tx.quote, under |-> mrenclave, block |-> height + 1]
    BY <1>2 DEF Commit, TypeOK
  <2>2. \A a \in accepted' : a \in accepted \/ \E tx \in pool :
             /\ tx.type = "invoke" /\ checkEnclaveEndorsement(tx)
             /\ a = [pk |-> tx.pk, signer |-> tx.signer, touches |-> tx.touches, block |-> height + 1]
    BY <1>2, Zenon DEF Commit
  <2>3. ASSUME NEW r \in registry'
        PROVE  /\ IsQuote(r.quote)' /\ IsPk(r.pk)'
               /\ CheckEnclavePkHash(r.pk, r.quote.data)
               /\ r.under = r.quote.mrenclave
               /\ r.block \in Nat /\ r.block <= height'
    <3>1. CASE r \in registry
      <4>1. /\ IsQuote(r.quote) /\ IsPk(r.pk)
            /\ CheckEnclavePkHash(r.pk, r.quote.data)
            /\ r.under = r.quote.mrenclave
            /\ r.block \in Nat /\ r.block <= height
        BY ONLY <3>1, RegistryInv DEF RegistryInv
      <4>2. IsQuote(r.quote)' /\ IsPk(r.pk)'
        BY <4>1 DEF IsPk
      <4> QED
        BY ONLY <2>1, <4>1, <4>2
    <3>2. CASE \E tx \in pool :
             /\ tx.type = "register" /\ checkAttestation(tx)
             /\ r = [pk |-> tx.pk, quote |-> tx.quote, under |-> mrenclave, block |-> height + 1]
      <4>1. PICK tx \in pool :
              /\ tx.type = "register" /\ checkAttestation(tx)
              /\ r = [pk |-> tx.pk, quote |-> tx.quote, under |-> mrenclave, block |-> height + 1]
        BY <3>2
      <4>2. IsQuote(tx.quote) /\ IsPk(tx.pk)
        BY <4>1 DEF PoolInv
      <4>3. IsQuote(tx.quote)' /\ IsPk(tx.pk)'
        BY <4>2 DEF IsPk
      <4>4. /\ CheckEnclavePkHash(tx.pk, tx.quote.data)
            /\ mrenclave = tx.quote.mrenclave
        BY <4>1 DEF checkAttestation
      <4> QED
        BY ONLY <2>1, <4>1, <4>3, <4>4
    <3> QED
      BY <2>1, <3>1, <3>2
  <2>4. ASSUME NEW a \in accepted', a.touches
        PROVE  /\ a.signer \in Setups /\ version'[a.signer] \in Versions
               /\ a.pk = MarshalEnclavePk(ecall_get_pk(identity'[a.signer]))
               /\ \E r \in registry' : r.pk = a.pk /\ r.block < a.block
    <3>1. CASE a \in accepted
      BY <2>1, <2>4, <3>1 DEF AcceptedInv
    <3>2. ASSUME NEW tx \in pool, tx.type = "invoke", checkEnclaveEndorsement(tx),
                 a = [pk |-> tx.pk, signer |-> tx.signer, touches |-> tx.touches, block |-> height + 1]
          PROVE  /\ a.signer \in Setups /\ version'[a.signer] \in Versions
                 /\ a.pk = MarshalEnclavePk(ecall_get_pk(identity'[a.signer]))
                 /\ \E r \in registry' : r.pk = a.pk /\ r.block < a.block
      <4>1. /\ tx.signer \in Setups /\ version[tx.signer] \in Versions
            /\ tx.pk = MarshalEnclavePk(ecall_get_pk(identity[tx.signer]))
        BY <2>4, <3>2 DEF PoolInv, checkEnclaveEndorsement
      <4>2. PICK r \in registry : r.pk = tx.pk
        BY <2>4, <3>2 DEF checkEnclaveEndorsement
      <4>3. r \in registry' /\ r.block < height + 1
        <5>1. r.block \in Nat /\ r.block <= height
          BY ONLY <4>2, RegistryInv DEF RegistryInv
        <5> QED
          BY ONLY <2>1, <4>2, <5>1
      <4> QED
        BY <3>2, <4>1, <4>2, <4>3
    <3> QED
      BY <2>2, <3>1, <3>2
  <2> QED
    BY <2>3, <2>4 DEF RegistryInv, AcceptedInv
<1> QED
  BY <1>1, <1>2, Zenon DEF Next, vars, Instantiate, Create, GetRemoteAttestationReport,
                    RegisterEnclave, Bind, Invoke, GetPublicKey

\* ecall_bind_tlcc keeps the binding: only Bind changes tlcc_pk.
LEMMA BoundStep ==
  ASSUME TypeOK, BoundToTheLedger, [Next]_vars
  PROVE  BoundToTheLedger'
<1>1. UNCHANGED ledgerKey
  BY Zenon DEF Next, vars, ecc, Instantiate, Create, GetRemoteAttestationReport, RegisterEnclave, Bind,
         Invoke, GetPublicKey, Commit
<1>2. ASSUME NEW s \in Setups, Bind(s) PROVE BoundToTheLedger'
  <2> DEFINE e == eid[version[s]]
             pk == UnmarshalEnclavePk(MarshalEnclavePk(ecall_get_pk(ledgerKey)))
  <2>1. ledgerKey \in KeySet
    BY RegistryAssumption DEF TypeOK, KeySet
  <2>2. CASE UNCHANGED bound
    BY <1>1, <2>2 DEF BoundToTheLedger
  <2>3. ASSUME NEW report \in {ReportData(ledgerKey), <<>>},
               bound' = [bound EXCEPT ![e] = ecall_bind_tlcc(@, pk, report)]
        PROVE  BoundToTheLedger'
    <3>1. ecall_bind_tlcc(bound[e], pk, report) \in {bound[e], ecall_get_pk(ledgerKey)}
      BY <2>1, BindKeepsTheKey
    <3> HIDE DEF pk, e
    <3> QED
      BY <1>1, <2>3, <3>1 DEF BoundToTheLedger, TypeOK
  <2> QED
    BY <1>2, <2>2, <2>3 DEF Bind, tlcc_get_local_attestation_report
<1>3. CASE UNCHANGED bound
  BY <1>1, <1>3 DEF BoundToTheLedger
<1> QED
  BY <1>2, <1>3, Zenon DEF Next, vars, ecc, Instantiate, Create, GetRemoteAttestationReport,
                    RegisterEnclave, Invoke, GetPublicKey, Commit

----------------------------------------------------------------------------
(* The theorems *)

\* TrustInv holds initially and every action of the specification keeps it.
LEMMA TrustIsInductive == Spec => []TrustInv
<1>1. Init => TrustInv
  <2> SUFFICES ASSUME Init
               PROVE  TrustInv
    OBVIOUS
  <2>1. TypeOK
    BY DEF Init, TypeOK, Calls, NoVersion
  <2>2. CallsInv
    BY DEF Init, CallsInv, Calls
  <2>3. KeysInv
    BY RegistryAssumption DEF Init, KeysInv
  <2>4. QuotesInv
    BY DEF Init, QuotesInv, Nothing
  <2>5. PoolInv /\ RegistryInv /\ AcceptedInv
    BY DEF Init, PoolInv, RegistryInv, AcceptedInv
  <2>6. BoundToTheLedger
    BY DEF Init, BoundToTheLedger
  <2> QED
    BY <2>1, <2>2, <2>3, <2>4, <2>5, <2>6 DEF TrustInv
<1>2. TrustInv /\ [Next]_vars => TrustInv'
  BY TypeStep, CallsStep, KeysStep, QuotesStep, PoolStep, LedgerStep, BoundStep DEF TrustInv
<1> QED
  BY <1>1, <1>2, PTL DEF Spec

\* What a registration says of the enclave its quote is of.
LEMMA RegistrationsAreWhole ==
  ASSUME TypeOK, RegistryInv, NEW r \in registry
  PROVE  LET e == r.quote.enclave
             k == ecall_get_pk(identity[e])
         IN  /\ e \in Setups /\ version[e] = r.under
             /\ identity[e] \in KeySet /\ identity[e] \in Keys
             /\ r.pk = MarshalEnclavePk(k)
             /\ Len(IntBytes(k.x)) = Width /\ Len(IntBytes(k.y)) = Width
<1>1. PICK e \in Setups : version[e] \in Versions /\ r.quote = Quote(e)
  BY DEF RegistryInv, IsQuote
<1>2. r.quote.enclave = e /\ r.quote.mrenclave = version[e] /\ r.quote.data = ReportData(identity[e])
  BY <1>1 DEF Quote
<1>3. PICK k \in KeySet : k # ZeroKey /\ r.pk = MarshalEnclavePk(k)
  BY DEF RegistryInv, IsPk
<1>4. identity[e] \in Keys \cup {ZeroKey} /\ identity[e] \in KeySet
  BY IdentitiesAreKeys
<1>5. CheckEnclavePkHash(MarshalEnclavePk(k), ReportData(identity[e]))
  BY <1>2, <1>3 DEF RegistryInv
<1>6. /\ k = ecall_get_pk(identity[e])
      /\ Len(IntBytes(k.x)) = Width /\ Len(IntBytes(k.y)) = Width
  BY <1>4, <1>5, HashTellsKeysApart
<1>7. identity[e] # ZeroKey
  BY <1>3, <1>6, ZeroBigEndian
<1> QED
  BY <1>1, <1>2, <1>3, <1>4, <1>6, <1>7 DEF RegistryInv

\* For every number of enclaves, calls and upgrades and every key: a key that
\* ercc holds is the whole key of the enclave whose quote it came with, and
\* that enclave had the MRENCLAVE of the channel when the block was validated.
THEOREM RegistrationsAreGenuine == Spec => []RegisteredKeysAreGenuine
<1>1. TrustInv => RegisteredKeysAreGenuine
  BY RegistrationsAreWhole DEF TrustInv, RegisteredKeysAreGenuine
<1> QED
  BY <1>1, TrustIsInductive, PTL

\* An invocation that touched state and was accepted by the validator of ecc was
\* signed by an enclave that an earlier block registered, whatever invoke and setup did in between.
THEOREM SignersAreRegistered == Spec => []AcceptedSignersAreRegistered
<1>1. TrustInv => AcceptedSignersAreRegistered
  <2> SUFFICES ASSUME TrustInv, NEW a \in accepted, a.touches
               PROVE  \E r \in registry : r.block < a.block /\ r.quote.enclave = a.signer
    BY DEF AcceptedSignersAreRegistered
  <2>1. /\ a.signer \in Setups
        /\ a.pk = MarshalEnclavePk(ecall_get_pk(identity[a.signer]))
    BY DEF TrustInv, AcceptedInv
  <2>2. PICK r \in registry : r.pk = a.pk /\ r.block < a.block
    BY DEF TrustInv, AcceptedInv
  <2> DEFINE e == r.quote.enclave
             k == ecall_get_pk(identity[e])
  <2>3. /\ e \in Setups /\ identity[e] \in KeySet /\ identity[e] \in Keys
        /\ r.pk = MarshalEnclavePk(k)
        /\ Len(IntBytes(k.x)) = Width /\ Len(IntBytes(k.y)) = Width
    BY RegistrationsAreWhole DEF TrustInv
  <2>4. identity[a.signer] \in KeySet
    BY <2>1, IdentitiesAreKeys DEF TrustInv
  <2>5. k \in KeySet /\ ecall_get_pk(identity[a.signer]) \in KeySet
    BY <2>3, <2>4, BigEndianKey
  <2>6. k = ecall_get_pk(identity[a.signer])
    BY <2>1, <2>2, <2>3, <2>5, WholeKeysMarshalApart, Zenon
  <2>7. identity[e] = identity[a.signer]
    BY <2>3, <2>4, <2>6, BigEndianInjective
  <2>8. identity[e] # ZeroKey
    BY <2>3, RegistryAssumption
  <2> HIDE DEF e
  <2>9. e = a.signer
    BY <2>1, <2>3, <2>7, <2>8 DEF TrustInv, KeysInv
  <2> QED
    BY <2>2, <2>9 DEF e
<1> QED
  BY <1>1, TrustIsInductive, PTL

\* An enclave is bound to the ledger enclave's own key or to none, however
\* often setup binds it and whichever of its errors are dropped.
THEOREM BindingsAreGenuine == Spec => []BoundToTheLedger
<1>1. TrustInv => BoundToTheLedger
  BY DEF TrustInv
<1> QED
  BY <1>1, TrustIsInductive, PTL
=============================================================================
