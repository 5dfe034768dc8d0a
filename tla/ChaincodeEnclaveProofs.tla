----------------------- MODULE ChaincodeEnclaveProofs -----------------------
(***************************************************************************)
(* Proofs about ChaincodeEnclave for any number of invocations, setups,    *)
(* addresses and permits, and for programs of any length.                  *)
(***************************************************************************)
EXTENDS ChaincodeEnclave, FiniteSetTheorems, TLAPS

----------------------------------------------------------------------------
(* Permits *)

Holding == {"inside", "signed", "failed"}
Creating == {"creating"}

Callers(S, f, P) == {c \in S : f[c] \in P}

\* How the number of callers at the places P changes when c moves to v.
Counted(S, f, g, c, v, P) ==
  LET n == Cardinality(Callers(S, f, P))
      m == Cardinality(Callers(S, g, P))
  IN  /\ n \in Nat /\ m \in Nat
      /\ (f[c] \in P /\ v \in P) \/ (f[c] \notin P /\ v \notin P) => m = n
      /\ f[c] \notin P /\ v \in P => m = n + 1
      /\ f[c] \in P /\ v \notin P => m = n - 1

\* A caller that moves comes to P, leaves it, or neither.
LEMMA Counting ==
  ASSUME NEW S, IsFiniteSet(S), NEW T, NEW f \in [S -> T], NEW c \in S, NEW v, NEW P,
         NEW g, g = [f EXCEPT ![c] = v]
  PROVE  Counted(S, f, g, c, v, P)
<1> DEFINE A == Callers(S, f, P)
           B == Callers(S, g, P)
<1>1. g[c] = v /\ \A d \in S : d # c => g[d] = f[d]
  OBVIOUS
<1>2. IsFiniteSet(A) /\ IsFiniteSet(B)
  BY FS_Subset DEF Callers
<1>3. Cardinality(A) \in Nat /\ Cardinality(B) \in Nat
  BY <1>2, FS_CardinalityType
<1>4. ASSUME (f[c] \in P /\ v \in P) \/ (f[c] \notin P /\ v \notin P) PROVE A = B
  BY <1>1, <1>4 DEF Callers
<1>5. ASSUME f[c] \notin P, v \in P PROVE Cardinality(B) = Cardinality(A) + 1
  <2>1. B = A \cup {c} /\ c \notin A
    BY <1>1, <1>5 DEF Callers
  <2> QED
    BY ONLY <1>2, <2>1, FS_AddElement
<1>6. ASSUME f[c] \in P, v \notin P PROVE Cardinality(B) = Cardinality(A) - 1
  <2>1. B = A \ {c} /\ c \in A
    BY <1>1, <1>6 DEF Callers
  <2> QED
    BY ONLY <1>2, <2>1, FS_RemoveElement
<1> HIDE DEF A, B
<1> QED
  BY <1>3, <1>4, <1>5, <1>6 DEF A, B, Counted

\* The places of all callers, and the permits.
PermitsInv ==
  /\ pc \in [Invs -> InvPlaces] /\ spc \in [Setups -> SetupPlaces]
  /\ free \in Int /\ lost \in Nat
  /\ free + Cardinality(Callers(Invs, pc, Holding))
          + Cardinality(Callers(Setups, spc, Creating)) + lost = Permits

\* Nobody holds a permit at first.
LEMMA InitPermits == Init => PermitsInv
<1> SUFFICES ASSUME Init
             PROVE  PermitsInv
  OBVIOUS
<1>1. Callers(Invs, pc, Holding) = {} /\ Callers(Setups, spc, Creating) = {}
  BY DEF Init, Callers, Holding, Creating
<1>2. free + 0 + 0 + lost = Permits /\ free \in Int /\ lost \in Nat
  BY CallsAssumption DEF Init
<1> QED
  BY <1>1, <1>2, FS_EmptySet, Zenon DEF PermitsInv, Init, InvPlaces, SetupPlaces

\* A step of an invocation takes a permit when it comes to hold one, and
\* releases one when it ceases to.
LEMMA MovePermits ==
  ASSUME PermitsInv, NEW i \in Invs, NEW v \in InvPlaces, GoTo(i, v), spc' = spc, lost' = lost,
         \/ pc[i] \in Holding /\ v \in Holding /\ free' = free
         \/ pc[i] \notin Holding /\ v \notin Holding /\ free' = free
         \/ pc[i] \notin Holding /\ v \in Holding /\ free' = free - 1
         \/ pc[i] \in Holding /\ v \notin Holding /\ free' = free + 1
  PROVE  PermitsInv'
<1>1. pc \in [Invs -> InvPlaces] /\ pc' = [pc EXCEPT ![i] = v] /\ IsFiniteSet(Invs)
  BY CallsAssumption DEF PermitsInv, GoTo
<1>2. IsFiniteSet(Callers(Setups, spc, Creating))
  BY CallsAssumption, FS_Subset DEF Callers
<1> DEFINE n == Cardinality(Callers(Invs, pc, Holding))
           m == Cardinality(Callers(Invs, pc', Holding))
           k == Cardinality(Callers(Setups, spc, Creating))
<1>3. k \in Nat
  BY <1>2, FS_CardinalityType
<1>4. Counted(Invs, pc, pc', i, v, Holding)
  BY ONLY <1>1, i \in Invs, Counting, Zenon
<1>5. free \in Int /\ lost \in Nat /\ free + n + k + lost = Permits
  BY DEF PermitsInv
<1> HIDE DEF n, m, k
<1>6. free' \in Int /\ lost' \in Nat /\ free' + m + k + lost' = Permits
  BY <1>3, <1>4, <1>5 DEF Counted, n, m
<1> QED
  BY <1>1, <1>6 DEF PermitsInv, n, m, k

\* Likewise a setup.
LEMMA SetupPermits ==
  ASSUME PermitsInv, NEW s \in Setups, NEW v \in SetupPlaces, SetupGoTo(s, v), pc' = pc,
         \/ spc[s] \notin Creating /\ v \notin Creating /\ free' = free /\ lost' = lost
         \/ spc[s] \notin Creating /\ v \in Creating /\ free' = free - 1 /\ lost' = lost
         \/ spc[s] \in Creating /\ v \notin Creating /\ free' = free + 1 /\ lost' = lost
         \/ spc[s] \in Creating /\ v \notin Creating /\ free' = free /\ lost' = lost + 1
  PROVE  PermitsInv'
<1>1. spc \in [Setups -> SetupPlaces] /\ spc' = [spc EXCEPT ![s] = v] /\ IsFiniteSet(Setups)
  BY CallsAssumption DEF PermitsInv, SetupGoTo
<1>2. IsFiniteSet(Callers(Invs, pc, Holding))
  BY CallsAssumption, FS_Subset DEF Callers
<1> DEFINE n == Cardinality(Callers(Setups, spc, Creating))
           m == Cardinality(Callers(Setups, spc', Creating))
           k == Cardinality(Callers(Invs, pc, Holding))
<1>3. k \in Nat
  BY <1>2, FS_CardinalityType
<1>4. Counted(Setups, spc, spc', s, v, Creating)
  BY ONLY <1>1, s \in Setups, Counting, Zenon
<1>5. free \in Int /\ lost \in Nat /\ free + k + n + lost = Permits
  BY DEF PermitsInv
<1> HIDE DEF n, m, k
<1>6. free' \in Int /\ lost' \in Nat /\ free' + k + m + lost' = Permits
  BY <1>3, <1>4, <1>5 DEF Counted, n, m
<1> QED
  BY <1>1, <1>6 DEF PermitsInv, n, m, k

\* Every action keeps the account of permits.
LEMMA NextPermits == PermitsInv /\ [Next]_vars => PermitsInv'
<1> SUFFICES ASSUME PermitsInv, [Next]_vars
             PROVE  PermitsInv'
  OBVIOUS
<1> USE DEF At, SetupAt, Holding, Creating, InvPlaces, SetupPlaces, setupVars
<1>1. ASSUME NEW i \in Invs, Register(i) \/ RegisterReturns(i) \/ InvokeFails(i) \/ GetPublicKey(i)
      PROVE  PermitsInv'
  BY <1>1, MovePermits DEF Register, RegisterReturns, InvokeFails, GetPublicKey
<1>2. ASSUME NEW i \in Invs, Enter(i) PROVE PermitsInv'
  BY <1>2, MovePermits DEF Enter
<1>3. ASSUME NEW i \in Invs, Sign(i) PROVE PermitsInv'
  BY <1>3, MovePermits DEF Sign
<1>4. ASSUME NEW i \in Invs, Leave(i) PROVE PermitsInv'
  BY <1>4, MovePermits DEF Leave
<1>5. ASSUME NEW i \in Invs, Access(i) \/ CallbackPanics(i) \/ EnclaveFault(i) \/ ChaincodeAborts(i)
      PROVE  PermitsInv'
  <2>1. UNCHANGED <<pc, spc, free, lost>>
    BY <1>5 DEF Access, CallbackPanics, EnclaveFault, ChaincodeAborts
  <2> QED
    BY <2>1 DEF PermitsInv
<1>6. ASSUME NEW s \in Setups, SetupStart(s) \/ SetupStep(s) PROVE PermitsInv'
  BY <1>6, SetupPermits
  DEF SetupStart, SetupStep, CreateSucceeds, CreateFails, Attest, Bind, SetupFails
<1>7. CASE UNCHANGED vars
  BY <1>7 DEF vars, PermitsInv
<1> QED
  BY <1>1, <1>2, <1>3, <1>4, <1>5, <1>6, <1>7 DEF Next, InvStep, Ended

\* StubImpl.sem: whatever overlaps and whatever fails, every permit is free,
\* with a call inside an enclave, or lost by a Create that failed.
THEOREM PermitsAreAccounted == Spec => []PermitsAccounted
<1>1. PermitsInv => PermitsAccounted
  BY DEF PermitsInv, PermitsAccounted, Callers, Holding, Creating
<1> QED
  BY <1>1, InitPermits, NextPermits, PTL DEF Spec

----------------------------------------------------------------------------
(* Contexts and sets *)

\* A program does not put two different values under one key.
WritesAgree(p) ==
  \A m, n \in DOMAIN p :
    p[m].kind # "get" /\ p[n].kind # "get" /\ p[m].key = p[n].key => p[m].val = p[n].val

\* The parts of the state that are read at an invocation or an address.
ShapeInv ==
  /\ pc \in [Invs -> InvPlaces]
  /\ at \in [Invs -> Setups \cup {NoEnclave}] /\ eid \in Setups \cup {NoEnclave}
  /\ addr \in [Invs -> Addrs]
  /\ context \in [Setups -> [Addrs -> Invs \cup {Nobody}]]
  /\ index \in Nat /\ idx \in [Invs -> 0..index]
  /\ DOMAIN internal = 1..Cardinality(Invs)
  /\ DOMAIN prog = Invs /\ DOMAIN rs = Invs /\ DOMAIN ws = Invs
  /\ DOMAIN txr = Invs /\ DOMAIN txw = Invs

\* The ctx addresses of running invocations differ.
AddrsApart == \A i, k \in Invs : HoldsCtx(i) /\ HoldsCtx(k) /\ addr[i] = addr[k] => i = k

\* The registry of the wrapper gives each invocation its own shim.
OwnShims ==
  \A i \in Invs : pc[i] \in {"acquire", "inside", "signed", "failed"} =>
                    idx[i] \in DOMAIN internal /\ internal[idx[i]] = i

\* The context map of a live enclave has the sets of invocations that are inside.
LiveContexts ==
  \A e \in Setups \ crashed, x \in Addrs :
    context[e][x] # Nobody =>
      /\ pc[context[e][x]] = "inside" /\ at[context[e][x]] = e
      /\ addr[context[e][x]] = x

\* It has those of all of them.
HaveContexts ==
  \A i \in Invs : pc[i] = "inside" => at[i] \in Setups /\ context[at[i]][addr[i]] = i

OwnContexts == LiveContexts /\ HaveContexts

\* What invocation i has left to write agrees with what it has written.
WritesFit(i) ==
  /\ WritesAgree(prog[i])
  /\ \A w \in ws[i] : w = <<w[1], w[2]>>
  /\ \A n \in DOMAIN prog[i], w \in ws[i] :
       prog[i][n].kind # "get" /\ prog[i][n].key = w[1] => prog[i][n].val = w[2]
  /\ pc[i] = "idle" => ws[i] = {}

\* The enclave and the peer have collected the same.
SameSets == \A i \in Invs : rs[i] = txr[i] /\ ws[i] = txw[i] /\ WritesFit(i)

\* The inductive invariant, for programs that are sequences over Ops.
CallsInv(Ops) ==
  /\ ShapeInv /\ AddrsApart
  /\ \A i \in Invs : prog[i] \in Seq(Ops)
  /\ clean => OwnShims /\ OwnContexts /\ SameSets

\* Nothing has been collected before the first call.
LEMMA InitCalls == ASSUME NEW Ops PROVE Init => CallsInv(Ops)
<1> SUFFICES ASSUME Init
             PROVE  CallsInv(Ops)
  OBVIOUS
<1>1. ShapeInv
  BY DEF Init, ShapeInv, InvPlaces
<1>2. AddrsApart
  BY DEF Init, AddrsApart, HoldsCtx, Active
<1>3. \A i \in Invs : prog[i] = <<>> /\ <<>> \in Seq(Ops)
  BY DEF Init
<1>4. OwnShims /\ OwnContexts
  BY DEF Init, OwnShims, OwnContexts, LiveContexts, HaveContexts
<1>5. SameSets
  BY <1>3 DEF Init, SameSets, WritesFit, WritesAgree
<1> QED
  BY <1>1, <1>2, <1>3, <1>4, <1>5, Zenon DEF CallsInv

\* std::map::insert keeps the first value of a key and the peer the last one;
\* they end up the same when there is one value.
LEMMA InsertIsLast ==
  ASSUME NEW S, NEW k, NEW v, \A w \in S : w = <<w[1], w[2]>> /\ (w[1] = k => w[2] = v)
  PROVE  InsertPair(S, k, v) = LastWrite(S, k, v)
<1>1. CASE \E p \in S : p[1] = k
  <2>1. \A p \in S : p[1] = k => p = <<k, v>>
    OBVIOUS
  <2>2. <<k, v>> \in S
    BY <1>1, <2>1
  <2>3. {p \in S : p[1] # k} \cup {<<k, v>>} = S
    BY <2>1, <2>2
  <2> QED
    BY <1>1, <2>3 DEF InsertPair, LastWrite
<1>2. CASE ~\E p \in S : p[1] = k
  <2>1. {p \in S : p[1] # k} = S
    BY <1>2
  <2> QED
    BY <1>2, <2>1 DEF InsertPair, LastWrite
<1> QED
  BY <1>1, <1>2

\* The operations that are left after the first one are operations of before.
LEMMA TailOps ==
  ASSUME NEW Ops, NEW p \in Seq(Ops), p # <<>>
  PROVE  /\ Tail(p) \in Seq(Ops)
         /\ 1 \in DOMAIN p /\ Head(p) = p[1]
         /\ \A n \in DOMAIN Tail(p) : n + 1 \in DOMAIN p /\ Tail(p)[n] = p[n + 1]
OBVIOUS

Started == InvPlaces \ {"idle"}

\* The registry has given out one index per invocation that has begun.
IndexInv ==
  pc \in [Invs -> InvPlaces] /\ index = Cardinality(Callers(Invs, pc, Started))

\* No index at first.
LEMMA InitIndex == Init => IndexInv
<1> SUFFICES ASSUME Init
             PROVE  IndexInv
  OBVIOUS
<1>1. Callers(Invs, pc, Started) = {}
  BY DEF Init, Callers, Started
<1> QED
  BY <1>1, FS_EmptySet, Zenon DEF IndexInv, Init, InvPlaces

\* Only Register begins an invocation, and nothing takes it back.
LEMMA NextIndex == IndexInv /\ [Next]_vars => IndexInv'
<1> SUFFICES ASSUME IndexInv, [Next]_vars
             PROVE  IndexInv'
  OBVIOUS
<1>1. ASSUME NEW i \in Invs, NEW v \in Started, pc' = [pc EXCEPT ![i] = v],
             \/ pc[i] = "idle" /\ index' = index + 1
             \/ pc[i] # "idle" /\ index' = index
      PROVE  IndexInv'
  <2>1. pc \in [Invs -> InvPlaces] /\ IsFiniteSet(Invs)
    BY CallsAssumption DEF IndexInv
  <2>2. Counted(Invs, pc, pc', i, v, Started)
    BY ONLY <1>1, <2>1, Counting, Zenon
  <2>3. pc[i] \in Started <=> pc[i] # "idle"
    BY <2>1 DEF Started
  <2>4. index' = Cardinality(Callers(Invs, pc', Started))
    BY <1>1, <2>2, <2>3 DEF IndexInv, Counted
  <2> QED
    BY <1>1, <2>1, <2>4 DEF IndexInv, Started
<1>2. ASSUME NEW i \in Invs, Register(i) PROVE IndexInv'
  BY <1>1, <1>2, Zenon DEF Register, At, GoTo, Started, InvPlaces
<1>3. ASSUME NEW i \in Invs,
             \/ RegisterReturns(i) \/ Enter(i) \/ InvokeFails(i) \/ Sign(i)
             \/ Leave(i) \/ GetPublicKey(i)
      PROVE  IndexInv'
  BY <1>1, <1>3, Zenon DEF RegisterReturns, Enter, InvokeFails, Sign, Leave, GetPublicKey, At, GoTo,
                    regVars, Started, InvPlaces
<1>4. CASE UNCHANGED <<pc, index>>
  BY <1>4 DEF IndexInv
<1> QED
  BY <1>2, <1>3, <1>4
  DEF Next, InvStep, SetupStep, Access, CallbackPanics, EnclaveFault, ChaincodeAborts, SetupStart,
      CreateSucceeds,
      CreateFails, Attest, Bind, SetupFails, Ended, vars, regVars

\* While an invocation registers, the last index is one that was given out.
LEMMA RegisteringIndex ==
  ASSUME IndexInv, NEW i \in Invs, pc[i] = "registering"
  PROVE  index \in 1..Cardinality(Invs)
<1> DEFINE A == Callers(Invs, pc, Started)
<1>1. A \subseteq Invs /\ i \in A /\ IsFiniteSet(Invs)
  BY CallsAssumption DEF Callers, Started, InvPlaces
<1>2. IsFiniteSet(A) /\ Cardinality(A) <= Cardinality(Invs) /\ A # {}
  BY ONLY <1>1, FS_Subset
<1>3. Cardinality(A) \in Nat /\ Cardinality(Invs) \in Nat /\ Cardinality(A) # 0
  BY ONLY <1>1, <1>2, FS_CardinalityType, FS_EmptySet
<1> QED
  BY <1>2, <1>3 DEF IndexInv

----------------------------------------------------------------------------
(* What the steps have in common *)

\* The context of an invocation that is inside, seen from either end.
LEMMA ContextInside ==
  ASSUME ShapeInv, OwnContexts
  PROVE  /\ \A e \in Setups \ crashed, x \in Addrs :
              context[e][x] # Nobody =>
                /\ context[e][x] \in Invs /\ pc[context[e][x]] = "inside"
                /\ at[context[e][x]] = e /\ addr[context[e][x]] = x
         /\ \A i \in Invs : pc[i] = "inside" =>
              /\ at[i] \in Setups /\ addr[i] \in Addrs
              /\ context[at[i]][addr[i]] = i
<1>1. \A e \in Setups, x \in Addrs : context[e][x] \in Invs \cup {Nobody}
  BY DEF ShapeInv
<1>2. \A i \in Invs : addr[i] \in Addrs
  BY DEF ShapeInv
<1> QED
  BY <1>1, <1>2 DEF OwnContexts, LiveContexts, HaveContexts

\* A step of an invocation that is inside neither before nor after it.
LEMMA ContextsStay ==
  ASSUME ShapeInv, OwnContexts, NEW i \in Invs, pc[i] # "inside", pc'[i] # "inside",
         context' = context, addr' = addr, crashed' = crashed,
         \A k \in Invs : k # i => pc'[k] = pc[k] /\ at'[k] = at[k]
  PROVE  OwnContexts'
<1>1. LiveContexts'
  <2> SUFFICES ASSUME NEW e \in Setups \ crashed, NEW x \in Addrs, context[e][x] # Nobody
               PROVE  /\ pc'[context[e][x]] = "inside" /\ at'[context[e][x]] = e
                      /\ addr[context[e][x]] = x
    BY DEF LiveContexts
  <2> QED
    BY ContextInside
<1>2. HaveContexts'
  BY ContextInside DEF HaveContexts
<1> QED
  BY <1>1, <1>2 DEF OwnContexts

\* A step that collects nothing.
LEMMA SetsStay ==
  ASSUME SameSets, UNCHANGED <<prog, rs, ws, txr, txw>>,
         \A k \in Invs : pc'[k] = "idle" => pc[k] = "idle"
  PROVE  SameSets'
BY DEF SameSets, WritesFit

\* A step that begins no invocation.
LEMMA AddrsStay ==
  ASSUME AddrsApart, addr' = addr, \A k \in Invs : HoldsCtx(k)' => HoldsCtx(k)
  PROVE  AddrsApart'
BY DEF AddrsApart

----------------------------------------------------------------------------
(* The steps *)

\* Register: a new invocation, at an address nobody uses.
LEMMA RegisterCalls ==
  ASSUME NEW Ops, Programs \subseteq Seq(Ops), \A p \in Programs : WritesAgree(p),
         CallsInv(Ops), NEW i \in Invs, Register(i)
  PROVE  CallsInv(Ops)'
<1>1. ShapeInv /\ AddrsApart
  BY DEF CallsInv
<1>2. PICK p \in Programs : prog' = [prog EXCEPT ![i] = p]
  BY Zenon DEF Register
<1>3. /\ pc[i] = "idle" /\ pc' = [pc EXCEPT ![i] = "registering"]
      /\ \A k \in Invs : HoldsCtx(k) => addr[k] # addr[i]
      /\ index' = index + 1 /\ internal' = [internal EXCEPT ![index + 1] = i]
      /\ UNCHANGED <<context, crashed, clean, idx, addr, at, rs, ws, txr, txw, eid>>
  BY DEF Register, At, GoTo, faultVars, setVars, setupVars
<1>4. \A k \in Invs : k # i => pc'[k] = pc[k] /\ prog'[k] = prog[k]
  BY <1>1, <1>2, <1>3 DEF ShapeInv
<1>5. pc'[i] = "registering" /\ prog'[i] = p
  BY <1>1, <1>2, <1>3 DEF ShapeInv
<1>6. ShapeInv'
  <2>1. \A n \in 0..index : n \in 0..(index + 1)
    BY <1>1 DEF ShapeInv
  <2>2. idx \in [Invs -> 0..(index + 1)] /\ index + 1 \in Nat
    BY <1>1, <2>1 DEF ShapeInv
  <2> QED
    BY <1>1, <1>2, <1>3, <2>2 DEF ShapeInv, InvPlaces
<1>7. AddrsApart'
  BY <1>1, <1>3, <1>4, <1>5 DEF AddrsApart, HoldsCtx, Active
<1>8. \A k \in Invs : prog'[k] \in Seq(Ops)
  BY <1>4, <1>5 DEF CallsInv
<1>9. ASSUME clean'
      PROVE  OwnShims' /\ OwnContexts' /\ SameSets'
  <2>1. OwnShims /\ OwnContexts /\ SameSets
    BY <1>3, <1>9 DEF CallsInv
  <2>2. OwnShims'
    <3>1. \A k \in Invs : idx[k] # index + 1
      BY <1>1 DEF ShapeInv
    <3> QED
      BY <2>1, <3>1, <1>1, <1>3, <1>4, <1>5 DEF OwnShims, ShapeInv
  <2>3. OwnContexts'
    <3>1. at' = at /\ context' = context /\ addr' = addr /\ crashed' = crashed
      BY <1>3
    <3> QED
      BY ONLY i \in Invs, <1>1, <1>3, <1>4, <1>5, <2>1, <3>1, ContextsStay
  <2>4. SameSets'
    <3>1. ASSUME NEW k \in Invs \ {i} PROVE rs'[k] = txr'[k] /\ ws'[k] = txw'[k] /\ WritesFit(k)'
      BY <1>3, <1>4, <2>1 DEF SameSets, WritesFit
    <3>2. rs'[i] = txr'[i] /\ ws'[i] = txw'[i] /\ ws'[i] = {}
      BY <1>3, <2>1 DEF SameSets, WritesFit
    <3>3. WritesFit(i)'
      BY <1>5, <3>2 DEF WritesFit
    <3> QED
      BY <3>1, <3>2, <3>3, Zenon DEF SameSets
  <2> QED
    BY <1>3, <2>1, <2>2, <2>3, <2>4
<1> QED
  BY <1>6, <1>7, <1>8, <1>9 DEF CallsInv

\* Register returns: clean says that it returns the index it gave out.
LEMMA ReturnCalls ==
  ASSUME NEW Ops, CallsInv(Ops), IndexInv, NEW i \in Invs, RegisterReturns(i)
  PROVE  CallsInv(Ops)'
<1>1. ShapeInv /\ AddrsApart
  BY DEF CallsInv
<1>2. /\ pc[i] = "registering" /\ pc' = [pc EXCEPT ![i] = "acquire"]
      /\ idx' = [idx EXCEPT ![i] = index]
      /\ clean' = (clean /\ internal[index] = i)
      /\ UNCHANGED <<index, internal, context, crashed, addr, at, prog, rs, ws, txr, txw, eid>>
  BY Zenon DEF RegisterReturns, At, GoTo, regVars, setVars, setupVars
<1>3. \A k \in Invs : k # i => pc'[k] = pc[k] /\ idx'[k] = idx[k]
  BY <1>1, <1>2 DEF ShapeInv
<1>4. pc'[i] = "acquire" /\ idx'[i] = index
  BY <1>1, <1>2 DEF ShapeInv
<1>5. ShapeInv'
  BY <1>1, <1>2 DEF ShapeInv, InvPlaces
<1>6. AddrsApart'
  BY <1>1, <1>2, <1>3, <1>4, AddrsStay DEF HoldsCtx, Active
<1>7. ASSUME clean'
      PROVE  OwnShims' /\ OwnContexts' /\ SameSets'
  <2>1. clean /\ internal[index] = i /\ OwnShims /\ OwnContexts /\ SameSets
    BY <1>2, <1>7, Zenon DEF CallsInv
  <2>2. index \in DOMAIN internal
    BY <1>1, <1>2, RegisteringIndex DEF ShapeInv
  <2>3. OwnShims'
    BY <2>1, <2>2, <1>2, <1>3, <1>4 DEF OwnShims
  <2>4. OwnContexts'
    BY ONLY i \in Invs, <1>1, <1>2, <1>3, <1>4, <2>1, ContextsStay
  <2>5. SameSets'
    BY ONLY <1>2, <1>3, <1>4, <2>1, SetsStay
  <2> QED
    BY <1>2, <2>1, <2>3, <2>4, <2>5
<1> QED
  BY <1>2, <1>5, <1>6, <1>7, Zenon DEF CallsInv

\* ecall_invoke registers its sets: nobody else inside has that address.
LEMMA EnterCalls ==
  ASSUME NEW Ops, CallsInv(Ops), NEW i \in Invs, Enter(i)
  PROVE  CallsInv(Ops)'
<1>1. ShapeInv /\ AddrsApart
  BY DEF CallsInv
<1>2. /\ pc[i] = "acquire" /\ at' = [at EXCEPT ![i] = eid]
      /\ UNCHANGED <<index, internal, crashed, clean, idx, addr, prog, rs, ws, txr, txw, eid>>
  BY DEF Enter, At, regVars, faultVars, setVars, setupVars
<1>3. \/ /\ eid \in Setups \ crashed /\ pc' = [pc EXCEPT ![i] = "inside"]
         /\ context' = [context EXCEPT ![eid][addr[i]] = IF @ = Nobody THEN i ELSE @]
      \/ /\ pc' = [pc EXCEPT ![i] = "failed"] /\ context' = context
  BY DEF Enter, GoTo
<1>4. \A k \in Invs : k # i => pc'[k] = pc[k] /\ at'[k] = at[k]
  BY <1>1, <1>2, <1>3 DEF ShapeInv
<1>5. pc'[i] \in {"inside", "failed"} /\ at'[i] = eid
  BY <1>1, <1>2, <1>3 DEF ShapeInv
<1>6. ShapeInv'
  <2>1. context' \in [Setups -> [Addrs -> Invs \cup {Nobody}]]
    <3>1. ASSUME NEW e \in Setups, NEW x \in Addrs, NEW c \in Invs \cup {Nobody},
                 context' = [context EXCEPT ![e][x] = c]
          PROVE  context' \in [Setups -> [Addrs -> Invs \cup {Nobody}]]
      BY ONLY <1>1, <3>1 DEF ShapeInv
    <3>2. addr[i] \in Addrs
      BY <1>1 DEF ShapeInv
    <3>3. ASSUME eid \in Setups
          PROVE  (IF context[eid][addr[i]] = Nobody THEN i ELSE context[eid][addr[i]])
                   \in Invs \cup {Nobody}
      BY <1>1, <3>2, <3>3 DEF ShapeInv
    <3>4. CASE context' = context
      BY ONLY <1>1, <3>4 DEF ShapeInv
    <3> QED
      BY <1>3, <3>1, <3>2, <3>3, <3>4
  <2> QED
    BY <1>1, <1>2, <1>3, <2>1, Zenon DEF ShapeInv, InvPlaces
<1>7. AddrsApart'
  BY <1>1, <1>2, <1>4, <1>5, AddrsStay DEF HoldsCtx, Active
<1>8. ASSUME clean'
      PROVE  OwnShims' /\ OwnContexts' /\ SameSets'
  <2>1. OwnShims /\ OwnContexts /\ SameSets
    BY <1>2, <1>8 DEF CallsInv
  <2>2. OwnShims'
    BY <2>1, <1>2, <1>4, <1>5 DEF OwnShims
  <2>3. ASSUME NEW e \in Setups \ crashed PROVE context[e][addr[i]] = Nobody
    <3>1. ASSUME context[e][addr[i]] # Nobody PROVE FALSE
      <4> DEFINE k == context[e][addr[i]]
      <4>1. addr[i] \in Addrs /\ k \in Invs
        BY <1>1, <3>1 DEF ShapeInv
      <4>2. pc[k] = "inside" /\ addr[k] = addr[i]
        BY ONLY e \in Setups \ crashed, <1>1, <2>1, <3>1, <4>1, ContextInside
      <4> HIDE DEF k
      <4> QED
        BY <1>1, <1>2, <4>1, <4>2 DEF AddrsApart, HoldsCtx, Active
    <3> QED
      BY <3>1
  <2>4. ASSUME context' = context, pc'[i] = "failed" PROVE OwnContexts'
    BY ONLY i \in Invs, <1>1, <1>2, <1>4, <2>1, <2>4, ContextsStay
  <2>5. ASSUME eid \in Setups \ crashed, pc'[i] = "inside",
               context' = [context EXCEPT ![eid][addr[i]] = IF @ = Nobody THEN i ELSE @]
        PROVE  OwnContexts'
    <3>1. addr[i] \in Addrs
      BY <1>1 DEF ShapeInv
    <3>2. context'[eid][addr[i]] = i
      BY <1>1, <2>3, <2>5, <3>1 DEF ShapeInv
    <3>3. \A e \in Setups, x \in Addrs :
            <<e, x>> # <<eid, addr[i]>> => context'[e][x] = context[e][x]
      BY <1>1, <2>5 DEF ShapeInv
    <3>4. ASSUME NEW e \in Setups \ crashed, NEW x \in Addrs, context'[e][x] # Nobody
          PROVE  /\ pc'[context'[e][x]] = "inside" /\ at'[context'[e][x]] = e
                 /\ addr[context'[e][x]] = x
      <4>1. CASE e = eid /\ x = addr[i]
        BY <1>5, <2>5, <3>2, <4>1
      <4>2. CASE ~(e = eid /\ x = addr[i])
        <5>1. context'[e][x] = context[e][x] /\ context[e][x] \in Invs
          <6>1. context'[e][x] = context[e][x]
            BY ONLY e \in Setups \ crashed, x \in Addrs, <3>3, <4>2
          <6> QED
            BY ONLY e \in Setups \ crashed, x \in Addrs, <1>1, <2>1, <3>4, <6>1, ContextInside
        <5>2. pc[context[e][x]] = "inside" /\ at[context[e][x]] = e /\ addr[context[e][x]] = x
          BY ONLY e \in Setups \ crashed, x \in Addrs, <1>1, <2>1, <3>4, <5>1, ContextInside
        <5> QED
          BY <1>2, <1>4, <5>1, <5>2
      <4> QED
        BY <4>1, <4>2
    <3>5. ASSUME NEW k \in Invs, pc'[k] = "inside"
          PROVE  at'[k] \in Setups /\ context'[at'[k]][addr[k]] = k
      <4>1. CASE k = i
        BY <1>5, <2>5, <3>2, <4>1
      <4>2. CASE k # i
        <5>1. /\ pc[k] = "inside" /\ at'[k] = at[k] /\ at[k] \in Setups
              /\ context[at[k]][addr[k]] = k
          BY ONLY k \in Invs, <1>1, <1>4, <2>1, <3>5, <4>2, ContextInside
        <5>2. addr[k] # addr[i] /\ addr[k] \in Addrs
          <6>1. HoldsCtx(i) /\ HoldsCtx(k)
            BY ONLY <1>2, <5>1 DEF HoldsCtx, Active
          <6> QED
            BY <1>1, <4>2, <6>1 DEF AddrsApart, ShapeInv
        <5> QED
          BY <3>3, <5>1, <5>2
      <4> QED
        BY <4>1, <4>2
    <3> QED
      BY ONLY <1>2, <3>4, <3>5 DEF OwnContexts, LiveContexts, HaveContexts
  <2>6. OwnContexts'
    BY <1>1, <1>3, <2>4, <2>5 DEF ShapeInv
  <2>7. SameSets'
    BY ONLY <1>2, <1>4, <1>5, <2>1, SetsStay
  <2> QED
    BY <1>2, <2>1, <2>2, <2>6, <2>7
<1> QED
  BY <1>2, <1>6, <1>7, <1>8 DEF CallsInv

\* A callback of an invocation whose sets and shim are its own adds to both.
LEMMA AccessCalls ==
  ASSUME NEW Ops, CallsInv(Ops), NEW i \in Invs, Access(i)
  PROVE  CallsInv(Ops)'
<1> DEFINE op == Head(prog[i])
<1>1. ShapeInv /\ AddrsApart /\ prog[i] \in Seq(Ops) /\ prog[i] # <<>>
  BY DEF CallsInv, Access
<1>2. /\ pc[i] = "inside" /\ prog' = [prog EXCEPT ![i] = Tail(prog[i])]
      /\ UNCHANGED <<index, internal, context, crashed, clean, pc, idx, addr, at, eid>>
  BY DEF Access, At, regVars, faultVars, setupVars
<1>3. /\ prog'[i] = Tail(prog[i])
      /\ \A k \in Invs : k # i => prog'[k] = prog[k]
  BY <1>1, <1>2 DEF ShapeInv
<1>4. DOMAIN rs' = Invs /\ DOMAIN ws' = Invs /\ DOMAIN txr' = Invs /\ DOMAIN txw' = Invs
  <2>1. \/ DOMAIN rs' = Invs /\ DOMAIN txr' = DOMAIN txr /\ ws' = ws /\ txw' = txw
        \/ DOMAIN ws' = Invs /\ DOMAIN txw' = DOMAIN txw /\ rs' = rs /\ txr' = txr
    BY DEF Access
  <2> QED
    BY <1>1, <2>1 DEF ShapeInv
<1>5. ShapeInv'
  BY <1>1, <1>2, <1>4 DEF ShapeInv
<1>6. AddrsApart'
  BY <1>1, <1>2, AddrsStay DEF HoldsCtx, Active
<1>7. \A k \in Invs : prog'[k] \in Seq(Ops)
  BY <1>1, <1>3, TailOps, Zenon DEF CallsInv
<1>8. ASSUME clean'
      PROVE  OwnShims' /\ OwnContexts' /\ SameSets'
  <2>1. OwnShims /\ OwnContexts /\ SameSets
    BY <1>2, <1>8 DEF CallsInv
  <2>2. OwnShims' /\ OwnContexts'
    BY <2>1, <1>2 DEF OwnShims, OwnContexts, LiveContexts, HaveContexts
  <2>3. internal[idx[i]] = i /\ Owner(i) = i
    BY <1>1, <1>2, <2>1, ContextInside DEF OwnShims, Owner
  <2>4. Targets(i) = {i}
    BY <1>2, <2>3 DEF Targets
  <2>5. \/ /\ op.kind = "get"
           /\ rs' = [k \in Invs |-> IF k = i THEN rs[k] \cup op.keys ELSE rs[k]]
           /\ txr' = [txr EXCEPT ![i] = @ \cup op.keys]
           /\ ws' = ws /\ txw' = txw
        \/ /\ op.kind # "get"
           /\ ws' = [k \in Invs |-> IF k = i THEN InsertPair(ws[k], op.key, op.val) ELSE ws[k]]
           /\ txw' = [txw EXCEPT ![i] = LastWrite(@, op.key, op.val)]
           /\ rs' = rs /\ txr' = txr
    BY <2>3, <2>4 DEF Access
  <2>6. /\ 1 \in DOMAIN prog[i] /\ op = prog[i][1]
        /\ \A n \in DOMAIN prog'[i] : n + 1 \in DOMAIN prog[i] /\ prog'[i][n] = prog[i][n + 1]
    BY <1>1, <1>3, TailOps
  <2> HIDE DEF op
  <2>7. WritesFit(i) /\ rs[i] = txr[i] /\ ws[i] = txw[i]
    BY <2>1 DEF SameSets
  <2>8. WritesAgree(prog'[i])
    BY ONLY <2>6, <2>7 DEF WritesFit, WritesAgree
  <2>9. ASSUME NEW k \in Invs \ {i}
        PROVE  rs'[k] = txr'[k] /\ ws'[k] = txw'[k] /\ WritesFit(k)'
    <3>1. rs'[k] = rs[k] /\ ws'[k] = ws[k] /\ txr'[k] = txr[k] /\ txw'[k] = txw[k]
      BY <1>1, <2>5 DEF ShapeInv
    <3>2. rs[k] = txr[k] /\ ws[k] = txw[k] /\ WritesFit(k)
      BY <2>1 DEF SameSets
    <3> QED
      BY <1>2, <1>3, <3>1, <3>2 DEF WritesFit
  <2>10. ASSUME op.kind = "get" PROVE rs'[i] = txr'[i] /\ ws'[i] = txw'[i] /\ WritesFit(i)'
    <3>1. rs'[i] = rs[i] \cup op.keys /\ txr'[i] = txr[i] \cup op.keys /\ ws' = ws /\ txw' = txw
      BY <1>1, <2>5, <2>10 DEF ShapeInv
    <3>2. \A n \in DOMAIN prog'[i], w \in ws[i] :
            prog'[i][n].kind # "get" /\ prog'[i][n].key = w[1] => prog'[i][n].val = w[2]
      BY ONLY <2>6, <2>7 DEF WritesFit
    <3>3. WritesFit(i)'
      BY <1>2, <2>7, <2>8, <3>1, <3>2 DEF WritesFit
    <3> QED
      BY <2>7, <3>1, <3>3
  <2>11. ASSUME op.kind # "get" PROVE rs'[i] = txr'[i] /\ ws'[i] = txw'[i] /\ WritesFit(i)'
    <3>1. /\ ws'[i] = InsertPair(ws[i], op.key, op.val)
          /\ txw'[i] = LastWrite(txw[i], op.key, op.val)
          /\ rs' = rs /\ txr' = txr
      BY <1>1, <2>5, <2>11 DEF ShapeInv
    <3>2. \A w \in ws[i] : w = <<w[1], w[2]>> /\ (w[1] = op.key => w[2] = op.val)
      BY ONLY <2>6, <2>7, <2>11 DEF WritesFit
    <3>3. ws'[i] = txw'[i]
      BY ONLY <2>7, <3>1, <3>2, InsertIsLast
    <3>4. \A w \in ws'[i] : w \in ws[i] \/ w = <<op.key, op.val>>
      BY ONLY <3>1 DEF InsertPair
    <3>5. \A n \in DOMAIN prog'[i], w \in ws[i] :
            prog'[i][n].kind # "get" /\ prog'[i][n].key = w[1] => prog'[i][n].val = w[2]
      BY ONLY <2>6, <2>7 DEF WritesFit
    <3>6. \A n \in DOMAIN prog'[i] :
            prog'[i][n].kind # "get" /\ prog'[i][n].key = op.key => prog'[i][n].val = op.val
      BY ONLY <2>6, <2>7, <2>11 DEF WritesFit, WritesAgree
    <3>7. \A w \in ws'[i] : w = <<w[1], w[2]>>
      BY ONLY <3>2, <3>4
    <3>8. \A n \in DOMAIN prog'[i], w \in ws'[i] :
            prog'[i][n].kind # "get" /\ prog'[i][n].key = w[1] => prog'[i][n].val = w[2]
      <4> SUFFICES ASSUME NEW n \in DOMAIN prog'[i], NEW w \in ws'[i],
                          prog'[i][n].kind # "get", prog'[i][n].key = w[1]
                   PROVE  prog'[i][n].val = w[2]
        OBVIOUS
      <4>1. CASE w \in ws[i]
        BY <3>5, <4>1
      <4>2. CASE w = <<op.key, op.val>>
        BY <3>6, <4>2
      <4> QED
        BY <3>4, <4>1, <4>2
    <3>9. WritesFit(i)'
      BY <1>2, <2>8, <3>7, <3>8 DEF WritesFit
    <3> QED
      BY <2>7, <3>1, <3>3, <3>9
  <2>12. SameSets'
    BY <2>9, <2>10, <2>11 DEF SameSets
  <2> QED
    BY <1>2, <2>1, <2>2, <2>12
<1> QED
  BY <1>5, <1>6, <1>7, <1>8 DEF CallsInv

\* free_rwset takes the context of the invocation that ends, and no other.
LEMMA SignCalls ==
  ASSUME NEW Ops, CallsInv(Ops), NEW i \in Invs, Sign(i)
  PROVE  CallsInv(Ops)'
<1>1. ShapeInv /\ AddrsApart
  BY DEF CallsInv
<1>2. /\ pc[i] = "inside" /\ context' = [context EXCEPT ![at[i]][addr[i]] = Nobody]
      /\ pc' \in {[pc EXCEPT ![i] = "signed"], [pc EXCEPT ![i] = "failed"]}
      /\ UNCHANGED <<index, internal, crashed, clean, idx, addr, at, prog, rs, ws, txr, txw, eid>>
  BY DEF Sign, At, GoTo, regVars, faultVars, callVars, setVars, setupVars
<1>3. \A k \in Invs : k # i => pc'[k] = pc[k]
  BY <1>1, <1>2 DEF ShapeInv
<1>4. pc'[i] \in {"signed", "failed"}
  BY <1>1, <1>2 DEF ShapeInv
<1>5. ShapeInv'
  <2>1. context' \in [Setups -> [Addrs -> Invs \cup {Nobody}]]
    BY ONLY <1>1, <1>2, Zenon DEF ShapeInv
  <2> QED
    BY <1>1, <1>2, <2>1 DEF ShapeInv, InvPlaces
<1>6. AddrsApart'
  BY <1>1, <1>2, <1>3, <1>4, AddrsStay DEF HoldsCtx, Active
<1>7. ASSUME clean'
      PROVE  OwnShims' /\ OwnContexts' /\ SameSets'
  <2>1. OwnShims /\ OwnContexts /\ SameSets
    BY <1>2, <1>7 DEF CallsInv
  <2>2. OwnShims'
    BY <2>1, <1>2, <1>3, <1>4 DEF OwnShims
  <2>3. at[i] \in Setups /\ addr[i] \in Addrs /\ context[at[i]][addr[i]] = i
    BY ONLY i \in Invs, <1>1, <1>2, <2>1, ContextInside
  <2>4. /\ context'[at[i]][addr[i]] = Nobody
        /\ \A e \in Setups, x \in Addrs :
             <<e, x>> # <<at[i], addr[i]>> => context'[e][x] = context[e][x]
    <3> DEFINE Row == [Addrs -> Invs \cup {Nobody}]
    <3>1. context \in [Setups -> Row] /\ context' = [context EXCEPT ![at[i]][addr[i]] = Nobody]
      BY ONLY <1>1, <1>2 DEF ShapeInv
    <3>2. /\ \A e \in Setups : e # at[i] => context'[e] = context[e]
          /\ context'[at[i]] = [context[at[i]] EXCEPT ![addr[i]] = Nobody]
          /\ context[at[i]] \in Row
      BY ONLY <2>3, <3>1
    <3> QED
      BY ONLY <2>3, <3>2
  <2>5. ASSUME NEW e \in Setups \ crashed, NEW x \in Addrs, context'[e][x] # Nobody
        PROVE  /\ pc'[context'[e][x]] = "inside" /\ at[context'[e][x]] = e
               /\ addr[context'[e][x]] = x
    <3>1. <<e, x>> # <<at[i], addr[i]>> /\ context'[e][x] = context[e][x]
      BY <2>4, <2>5
    <3>2. /\ context[e][x] \in Invs /\ pc[context[e][x]] = "inside"
          /\ at[context[e][x]] = e /\ addr[context[e][x]] = x
      BY ONLY e \in Setups \ crashed, x \in Addrs, <1>1, <2>1, <2>5, <3>1, ContextInside
    <3>3. context[e][x] # i
      BY <3>1, <3>2
    <3> QED
      BY <1>3, <3>1, <3>2, <3>3
  <2>6. ASSUME NEW k \in Invs, pc'[k] = "inside"
        PROVE  at[k] \in Setups /\ context'[at[k]][addr[k]] = k
    <3>1. k # i /\ pc[k] = "inside"
      BY <1>3, <1>4, <2>6
    <3>2. at[k] \in Setups /\ addr[k] \in Addrs /\ context[at[k]][addr[k]] = k
      BY ONLY k \in Invs, <1>1, <2>1, <3>1, ContextInside
    <3>3. addr[k] # addr[i]
      BY <1>1, <1>2, <3>1 DEF AddrsApart, HoldsCtx, Active
    <3> QED
      BY <2>4, <3>2, <3>3
  <2>7. OwnContexts'
    <3>1. at' = at /\ addr' = addr /\ crashed' = crashed
      BY ONLY <1>2
    <3>2. LiveContexts'
      BY ONLY <2>5, <3>1 DEF LiveContexts
    <3>3. HaveContexts'
      BY ONLY <2>6, <3>1 DEF HaveContexts
    <3> QED
      BY <3>2, <3>3 DEF OwnContexts
  <2>8. SameSets'
    BY ONLY <1>2, <1>3, <1>4, <2>1, SetsStay
  <2> QED
    BY <1>2, <2>1, <2>2, <2>7, <2>8
<1> QED
  BY <1>2, <1>5, <1>6, <1>7 DEF CallsInv

\* Release deletes the shim of the invocation that returns: nobody else has
\* its index.
LEMMA LeaveCalls ==
  ASSUME NEW Ops, CallsInv(Ops), NEW i \in Invs, Leave(i)
  PROVE  CallsInv(Ops)'
<1>1. ShapeInv /\ AddrsApart
  BY DEF CallsInv
<1>2. /\ pc[i] \in {"signed", "failed"} /\ internal' = [internal EXCEPT ![idx[i]] = Nobody]
      /\ pc' \in {[pc EXCEPT ![i] = "getPk"], [pc EXCEPT ![i] = "done"]}
      /\ UNCHANGED <<index, context, crashed, clean, idx, addr, at, prog, rs, ws, txr, txw, eid>>
  BY Zenon DEF Leave, At, GoTo, faultVars, callVars, setVars, setupVars
<1>3. \A k \in Invs : k # i => pc'[k] = pc[k]
  BY <1>1, <1>2 DEF ShapeInv
<1>4. pc'[i] \in {"getPk", "done"}
  BY <1>1, <1>2 DEF ShapeInv
<1>5. ShapeInv'
  BY <1>1, <1>2 DEF ShapeInv, InvPlaces
<1>6. AddrsApart'
  BY <1>1, <1>2, <1>3, <1>4, AddrsStay DEF HoldsCtx, Active
<1>7. ASSUME clean'
      PROVE  OwnShims' /\ OwnContexts' /\ SameSets'
  <2>1. OwnShims /\ OwnContexts /\ SameSets
    BY <1>2, <1>7 DEF CallsInv
  <2>2. ASSUME NEW k \in Invs, pc'[k] \in {"acquire", "inside", "signed", "failed"}
        PROVE  idx[k] \in DOMAIN internal' /\ internal'[idx[k]] = k
    <3>1. k # i /\ pc[k] = pc'[k]
      BY <1>3, <1>4, <2>2
    <3>2. /\ idx[k] \in DOMAIN internal /\ internal[idx[k]] = k
          /\ internal[idx[i]] = i
      BY <1>2, <2>1, <2>2, <3>1 DEF OwnShims
    <3> QED
      BY <1>2, <3>1, <3>2
  <2>3. OwnShims'
    BY <1>2, <2>2 DEF OwnShims
  <2>4. OwnContexts'
    BY ONLY i \in Invs, <1>1, <1>2, <1>3, <1>4, <2>1, ContextsStay
  <2>5. SameSets'
    BY ONLY <1>2, <1>3, <1>4, <2>1, SetsStay
  <2> QED
    BY <1>2, <2>1, <2>3, <2>4, <2>5
<1> QED
  BY <1>2, <1>5, <1>6, <1>7 DEF CallsInv

\* GetPublicKey has neither a context nor a shim.
LEMMA GetPublicKeyCalls ==
  ASSUME NEW Ops, CallsInv(Ops), NEW i \in Invs, GetPublicKey(i)
  PROVE  CallsInv(Ops)'
<1>1. ShapeInv /\ AddrsApart
  BY DEF CallsInv
<1>2. /\ pc[i] = "getPk" /\ pc' = [pc EXCEPT ![i] = "done"]
      /\ UNCHANGED <<index, internal, context, crashed, clean, idx, addr, at, prog,
                     rs, ws, txr, txw, eid>>
  BY DEF GetPublicKey, At, GoTo, regVars, faultVars, callVars, setVars, setupVars
<1>3. pc'[i] = "done" /\ \A k \in Invs : k # i => pc'[k] = pc[k]
  BY <1>1, <1>2 DEF ShapeInv
<1>4. ShapeInv'
  BY <1>1, <1>2 DEF ShapeInv, InvPlaces
<1>5. AddrsApart'
  BY <1>1, <1>2, <1>3, AddrsStay DEF HoldsCtx, Active
<1>6. OwnShims /\ OwnContexts /\ SameSets => OwnShims' /\ OwnContexts' /\ SameSets'
  <2>1. OwnShims => OwnShims'
    BY <1>2, <1>3 DEF OwnShims
  <2>2. OwnContexts => OwnContexts'
    BY ONLY i \in Invs, <1>1, <1>2, <1>3, ContextsStay
  <2>3. SameSets => SameSets'
    BY ONLY <1>2, <1>3, SetsStay
  <2> QED
    BY <2>1, <2>2, <2>3
<1> QED
  BY <1>2, <1>4, <1>5, <1>6 DEF CallsInv

\* An ecall that returns early leaves its context behind, in an enclave that is
\* still in use unless it is the enclave that ended.
LEMMA FailCalls ==
  ASSUME NEW Ops, CallsInv(Ops), NEW i \in Invs, InvokeFails(i)
  PROVE  CallsInv(Ops)'
<1>1. ShapeInv /\ AddrsApart
  BY DEF CallsInv
<1>2. /\ UNCHANGED <<index, internal, context, crashed, idx, addr, at, prog, rs, ws, txr, txw, eid>>
      /\ clean' = (clean /\ at[i] \in crashed)
  BY DEF InvokeFails, regVars, callVars, setVars, setupVars
<1>3. pc[i] = "inside" /\ pc' = [pc EXCEPT ![i] = "failed"]
  BY DEF InvokeFails, At, GoTo
<1>4. pc'[i] = "failed" /\ \A k \in Invs : k # i => pc'[k] = pc[k]
  BY <1>1, <1>3 DEF ShapeInv
<1>5. ShapeInv'
  BY <1>1, <1>2, <1>3 DEF ShapeInv, InvPlaces
<1>6. AddrsApart'
  BY <1>1, <1>2, <1>3, <1>4, AddrsStay DEF HoldsCtx, Active
<1>7. ASSUME clean' PROVE OwnShims' /\ OwnContexts' /\ SameSets'
  <2>1. at[i] \in crashed /\ OwnShims /\ OwnContexts /\ SameSets
    BY <1>2, <1>7, Zenon DEF CallsInv
  <2>2. OwnShims'
    BY <2>1, <1>2, <1>3, <1>4 DEF OwnShims
  <2>3. LiveContexts'
    <3> SUFFICES ASSUME NEW e \in Setups \ crashed, NEW x \in Addrs, context[e][x] # Nobody
                 PROVE  /\ pc'[context[e][x]] = "inside" /\ at[context[e][x]] = e
                        /\ addr[context[e][x]] = x
      BY <1>2 DEF LiveContexts
    <3>1. /\ context[e][x] \in Invs /\ pc[context[e][x]] = "inside"
          /\ at[context[e][x]] = e /\ addr[context[e][x]] = x
      BY ONLY e \in Setups \ crashed, x \in Addrs, <1>1, <2>1, context[e][x] # Nobody, ContextInside
    <3>2. context[e][x] # i
      BY <2>1, <3>1
    <3> QED
      BY <1>4, <3>1, <3>2
  <2>4. HaveContexts'
    BY <1>2, <1>4, <2>1 DEF OwnContexts, HaveContexts
  <2>5. SameSets'
    BY ONLY <1>2, <1>3, <1>4, <2>1, SetsStay
  <2> QED
    BY <2>2, <2>3, <2>4, <2>5 DEF OwnContexts
<1> QED
  BY <1>2, <1>5, <1>6, <1>7, Zenon DEF CallsInv

\* An enclave goes down: over a context that was left, which clean excludes, or
\* by its chaincode; its own context does not matter any more.
LEMMA AbortCalls ==
  ASSUME NEW Ops, CallsInv(Ops), NEW i \in Invs, EnclaveFault(i) \/ ChaincodeAborts(i)
  PROVE  CallsInv(Ops)'
<1>1. /\ UNCHANGED <<index, internal, context, clean, pc, idx, addr, at, prog, rs, ws, txr, txw, eid>>
      /\ crashed \subseteq crashed'
  BY DEF EnclaveFault, ChaincodeAborts, regVars, callVars, setVars, setupVars
<1>2. ShapeInv' /\ AddrsApart'
  BY <1>1, AddrsStay DEF CallsInv, ShapeInv, HoldsCtx, Active
<1>3. OwnShims => OwnShims'
  BY <1>1 DEF OwnShims
<1>4. LiveContexts => LiveContexts'
  <2>1. context' = context /\ pc' = pc /\ at' = at /\ addr' = addr
    BY <1>1
  <2>2. \A e : e \in Setups \ crashed' => e \in Setups \ crashed
    BY ONLY <1>1
  <2> SUFFICES ASSUME LiveContexts, NEW e \in Setups \ crashed', NEW x \in Addrs,
                      context[e][x] # Nobody
               PROVE  /\ pc[context[e][x]] = "inside" /\ at[context[e][x]] = e
                      /\ addr[context[e][x]] = x
    BY <2>1 DEF LiveContexts
  <2> QED
    BY ONLY <2>2, LiveContexts, e \in Setups \ crashed', x \in Addrs, context[e][x] # Nobody
    DEF LiveContexts
<1>5. HaveContexts => HaveContexts'
  BY <1>1 DEF HaveContexts
<1>6. SameSets => SameSets'
  BY <1>1, SetsStay
<1> QED
  BY <1>1, <1>2, <1>3, <1>4, <1>5, <1>6 DEF CallsInv, OwnContexts

\* What leaves invocations, contexts and sets alone keeps the invariant,
\* whichever enclave is the current one.
LEMMA FrameCalls ==
  ASSUME NEW Ops, CallsInv(Ops), eid' \in Setups \cup {NoEnclave},
         UNCHANGED <<index, internal, context, crashed, clean, pc, idx, addr, at, prog,
                     rs, ws, txr, txw>>
  PROVE  CallsInv(Ops)'
<1>1. ShapeInv' /\ AddrsApart'
  BY AddrsStay DEF CallsInv, ShapeInv, HoldsCtx, Active
<1>2. /\ OwnShims => OwnShims'
      /\ OwnContexts => OwnContexts'
  <2>1. OwnShims => OwnShims'
    BY DEF OwnShims
  <2>2. LiveContexts => LiveContexts'
    BY DEF LiveContexts
  <2>3. HaveContexts => HaveContexts'
    BY DEF HaveContexts
  <2> QED
    BY <2>1, <2>2, <2>3 DEF OwnContexts
<1>3. SameSets => SameSets'
  BY SetsStay
<1> QED
  BY <1>1, <1>2, <1>3 DEF CallsInv

\* Every step keeps the invariant.
LEMMA NextCalls ==
  ASSUME NEW Ops, Programs \subseteq Seq(Ops), \A p \in Programs : WritesAgree(p)
  PROVE  CallsInv(Ops) /\ IndexInv /\ [Next]_vars => CallsInv(Ops)'
<1> SUFFICES ASSUME CallsInv(Ops), IndexInv, [Next]_vars
             PROVE  CallsInv(Ops)'
  OBVIOUS
<1>1. ASSUME NEW i \in Invs, Register(i) PROVE CallsInv(Ops)'
  BY <1>1, RegisterCalls
<1>2. ASSUME NEW i \in Invs, InvStep(i) PROVE CallsInv(Ops)'
  <2>1. CASE CallbackPanics(i)
    <3>1. /\ eid' \in Setups \cup {NoEnclave}
          /\ UNCHANGED <<index, internal, context, crashed, clean, pc, idx, addr, at, prog,
                         rs, ws, txr, txw>>
      BY <2>1 DEF CallbackPanics, CallsInv, ShapeInv, regVars, faultVars, callVars, setVars, setupVars
    <3> QED
      BY <3>1, FrameCalls
  <2> QED
    BY <1>2, <2>1, ReturnCalls, EnterCalls, AccessCalls, FailCalls, AbortCalls, SignCalls, LeaveCalls,
       GetPublicKeyCalls DEF InvStep
<1>3. ASSUME NEW s \in Setups, SetupStart(s) \/ SetupStep(s) PROVE CallsInv(Ops)'
  <2>1. /\ eid' \in Setups \cup {NoEnclave}
        /\ UNCHANGED <<index, internal, context, crashed, clean, pc, idx, addr, at, prog,
                       rs, ws, txr, txw>>
    BY <1>3, Zenon DEF CallsInv, ShapeInv, SetupStart, SetupStep, CreateSucceeds, CreateFails, Attest,
                Bind, SetupFails, regVars, faultVars, callVars, setVars
  <2> QED
    BY <2>1, FrameCalls
<1>4. CASE UNCHANGED vars
  <2>1. /\ eid' \in Setups \cup {NoEnclave}
        /\ UNCHANGED <<index, internal, context, crashed, clean, pc, idx, addr, at, prog,
                       rs, ws, txr, txw>>
    BY <1>4, Zenon DEF vars, CallsInv, ShapeInv
  <2> QED
    BY <2>1, FrameCalls
<1> QED
  BY <1>1, <1>2, <1>3, <1>4 DEF Next, Ended

\* The invariant holds of every behaviour.
LEMMA CallsHold ==
  ASSUME NEW Ops, Programs \subseteq Seq(Ops), \A p \in Programs : WritesAgree(p)
  PROVE  Spec => []CallsInv(Ops)
<1>1. Init => CallsInv(Ops)
  BY InitCalls
<1>2. CallsInv(Ops) /\ IndexInv /\ [Next]_vars => CallsInv(Ops)'
  BY NextCalls
<1> QED
  BY <1>1, <1>2, InitIndex, NextIndex, PTL DEF Spec

\* ecall_invoke signs the sets that the peer recorded, as long as no Register
\* returned another call's index and no ecall left its context behind: for any
\* number of invocations, of programs that write one value per key.
THEOREM CleanCallsAreSigned ==
  ASSUME NEW Ops, Programs \subseteq Seq(Ops), \A p \in Programs : WritesAgree(p)
  PROVE  Spec => []CleanCallsSignTheirSets
<1>1. CallsInv(Ops) => CleanCallsSignTheirSets
  BY DEF CallsInv, SameSets, CleanCallsSignTheirSets, SignedSetsMatch
<1>2. Spec => []CallsInv(Ops)
  BY CallsHold
<1> QED
  BY <1>1, <1>2, PTL

\* register_rwset and free_rwset: likewise the context map of a live enclave then
\* refers only to invocations that are inside it, and each of them finds its own
\* sets there, whichever enclaves their chaincode has aborted.
THEOREM CleanContextsHold ==
  ASSUME NEW Ops, Programs \subseteq Seq(Ops), \A p \in Programs : WritesAgree(p)
  PROVE  Spec => []CleanContexts
<1>1. CallsInv(Ops) => CleanContexts
  BY Zenon DEF CallsInv, OwnContexts, LiveContexts, HaveContexts, Owner, CleanContexts
<1>2. Spec => []CallsInv(Ops)
  BY CallsHold
<1> QED
  BY <1>1, <1>2, PTL

----------------------------------------------------------------------------
(* Types *)

\* The registry: an index is one that Register gave out, and it is there when
\* Register has returned.
RegistryInv ==
  /\ internal \in [1..Cardinality(Invs) -> Invs \cup {Nobody}]
  /\ idx \in [Invs -> 0..index]
  /\ \A i \in Invs : pc[i] \notin {"idle", "registering"} => idx[i] # 0

\* The enclaves, and the calls inside.
EnclavesInv ==
  /\ eid \in Setups \cup {NoEnclave}
  /\ context \in [Setups -> [Addrs -> Invs \cup {Nobody}]]
  /\ crashed \subseteq Setups /\ panicked \in BOOLEAN
  /\ addr \in [Invs -> Addrs] /\ at \in [Invs -> Setups \cup {NoEnclave}]
  /\ \A i \in Invs : pc[i] \in {"inside", "signed"} => at[i] \in Setups

\* A setup attests and binds an enclave that was created, and takes a permit
\* that is free.
SetupsInv ==
  /\ free \in Nat
  /\ registered \cup bound \subseteq Setups
  /\ \A s \in Setups : spc[s] \in {"attest", "bind"} => eid \in Setups

\* The calls that began are at most all calls.
LEMMA IndexBound ==
  ASSUME IndexInv
  PROVE  index \in 0..Cardinality(Invs) /\ Cardinality(Invs) \in Nat
<1> DEFINE A == Callers(Invs, pc, Started)
<1>1. A \subseteq Invs /\ IsFiniteSet(Invs)
  BY CallsAssumption DEF Callers
<1>2. IsFiniteSet(A) /\ Cardinality(A) <= Cardinality(Invs)
  BY ONLY <1>1, FS_Subset
<1>3. Cardinality(A) \in Nat /\ Cardinality(Invs) \in Nat
  BY ONLY <1>1, <1>2, FS_CardinalityType
<1> QED BY <1>2, <1>3 DEF IndexInv

\* A permit that is free or lost is one of the permits.
LEMMA FreeBound ==
  ASSUME PermitsInv, free \in Nat
  PROVE  free \in 0..Permits /\ lost \in 0..Permits
<1> DEFINE n == Cardinality(Callers(Invs, pc, Holding))
           m == Cardinality(Callers(Setups, spc, Creating))
<1>1. IsFiniteSet(Callers(Invs, pc, Holding)) /\ IsFiniteSet(Callers(Setups, spc, Creating))
  BY CallsAssumption, FS_Subset DEF Callers
<1>2. n \in Nat /\ m \in Nat
  BY <1>1, FS_CardinalityType
<1>3. free + n + m + lost = Permits /\ lost \in Nat
  BY DEF PermitsInv
<1> HIDE DEF n, m
<1> QED BY <1>2, <1>3, CallsAssumption

\* The state before the first call.
LEMMA InitTypes == Init => RegistryInv /\ EnclavesInv /\ SetupsInv
<1> SUFFICES ASSUME Init PROVE RegistryInv /\ EnclavesInv /\ SetupsInv
  OBVIOUS
<1>1. RegistryInv
  BY DEF Init, RegistryInv
<1>2. EnclavesInv
  BY DEF Init, EnclavesInv
<1>3. SetupsInv
  BY CallsAssumption DEF Init, SetupsInv
<1> QED BY <1>1, <1>2, <1>3

\* Register and RegisterReturns give an index, Leave removes the shim.
LEMMA NextRegistry ==
  ASSUME IndexInv, RegistryInv, [Next]_vars
  PROVE  RegistryInv'
<1>1. index \in Nat /\ pc \in [Invs -> InvPlaces]
  BY IndexBound DEF IndexInv
<1>2. ASSUME NEW i \in Invs, Register(i) PROVE RegistryInv'
  <2>1. /\ index' = index + 1 /\ internal' = [internal EXCEPT ![index + 1] = i] /\ idx' = idx
        /\ pc[i] = "idle" /\ pc' = [pc EXCEPT ![i] = "registering"]
    BY <1>2 DEF Register, At, GoTo
  <2>2. internal' \in [1..Cardinality(Invs) -> Invs \cup {Nobody}]
    BY <2>1 DEF RegistryInv
  <2>3. idx' \in [Invs -> 0..index']
    BY <1>1, <2>1 DEF RegistryInv
  <2>4. \A k \in Invs : pc'[k] \notin {"idle", "registering"} => idx'[k] # 0
    BY <1>1, <2>1 DEF RegistryInv
  <2> QED BY ONLY <2>2, <2>3, <2>4 DEF RegistryInv
<1>3. ASSUME NEW i \in Invs, RegisterReturns(i) PROVE RegistryInv'
  <2>1. /\ index' = index /\ internal' = internal /\ idx' = [idx EXCEPT ![i] = index]
        /\ pc[i] = "registering" /\ pc' = [pc EXCEPT ![i] = "acquire"]
    BY <1>3 DEF RegisterReturns, At, GoTo, regVars
  <2>2. index # 0
    BY <2>1, RegisteringIndex
  <2>3. idx' \in [Invs -> 0..index']
    BY <1>1, <2>1 DEF RegistryInv
  <2>4. \A k \in Invs : pc'[k] \notin {"idle", "registering"} => idx'[k] # 0
    BY <1>1, <2>1, <2>2 DEF RegistryInv
  <2>5. internal' \in [1..Cardinality(Invs) -> Invs \cup {Nobody}]
    BY <2>1 DEF RegistryInv
  <2> QED BY ONLY <2>3, <2>4, <2>5 DEF RegistryInv
<1>4. ASSUME NEW i \in Invs,
             Enter(i) \/ InvokeFails(i) \/ Sign(i) \/ Leave(i) \/ GetPublicKey(i)
      PROVE  RegistryInv'
  <2>1. /\ index' = index /\ idx' = idx /\ pc[i] \notin {"idle", "registering"}
        /\ \/ internal' = internal
           \/ internal' = [internal EXCEPT ![idx[i]] = Nobody]
        /\ \E v : pc' = [pc EXCEPT ![i] = v]
    BY <1>4 DEF Enter, InvokeFails, Sign, Leave, GetPublicKey, At, GoTo, regVars, callVars
  <2>2. internal' \in [1..Cardinality(Invs) -> Invs \cup {Nobody}]
    BY <2>1 DEF RegistryInv
  <2>3. \A k \in Invs : pc'[k] \notin {"idle", "registering"} => idx'[k] # 0
    BY <1>1, <2>1 DEF RegistryInv
  <2> QED BY <2>1, <2>2, <2>3 DEF RegistryInv
<1>5. CASE UNCHANGED <<pc, idx, index, internal>>
  BY <1>5 DEF RegistryInv
<1> QED
  BY <1>2, <1>3, <1>4, <1>5
  DEF Next, InvStep, SetupStep, Access, CallbackPanics, EnclaveFault, ChaincodeAborts, SetupStart,
      CreateSucceeds,
      CreateFails, Attest, Bind, SetupFails, Ended, vars, regVars, callVars

\* Enter and Sign change the context of the enclave they are in, and
\* EnclaveFault and ChaincodeAborts take down one that exists.
LEMMA NextEnclaves ==
  ASSUME pc \in [Invs -> InvPlaces], EnclavesInv, [Next]_vars
  PROVE  EnclavesInv'
<1>1. ASSUME NEW i \in Invs, Enter(i) PROVE EnclavesInv'
  <2>1. /\ eid' = eid /\ crashed' = crashed /\ panicked' = panicked /\ addr' = addr
        /\ at' = [at EXCEPT ![i] = eid]
    BY <1>1 DEF Enter, faultVars, setupVars
  <2>2. \/ /\ eid \in Setups /\ pc' = [pc EXCEPT ![i] = "inside"]
           /\ context' = [context EXCEPT ![eid][addr[i]] = IF @ = Nobody THEN i ELSE @]
        \/ pc' = [pc EXCEPT ![i] = "failed"] /\ context' = context
    BY <1>1 DEF Enter, GoTo
  <2>3. context' \in [Setups -> [Addrs -> Invs \cup {Nobody}]]
    BY <2>2 DEF EnclavesInv
  <2>4. at' \in [Invs -> Setups \cup {NoEnclave}]
    BY <2>1 DEF EnclavesInv
  <2>5. \A k \in Invs : pc'[k] \in {"inside", "signed"} => at'[k] \in Setups
    BY <2>1, <2>2 DEF EnclavesInv
  <2> QED BY <2>1, <2>3, <2>4, <2>5 DEF EnclavesInv
<1>2. ASSUME NEW i \in Invs, Sign(i) PROVE EnclavesInv'
  <2>1. /\ eid' = eid /\ crashed' = crashed /\ panicked' = panicked /\ addr' = addr /\ at' = at
        /\ context' = [context EXCEPT ![at[i]][addr[i]] = Nobody]
        /\ pc[i] = "inside" /\ \E v : pc' = [pc EXCEPT ![i] = v]
    BY <1>2 DEF Sign, faultVars, setupVars, callVars, At, GoTo
  <2>2. context' \in [Setups -> [Addrs -> Invs \cup {Nobody}]]
    BY <2>1 DEF EnclavesInv
  <2>3. \A k \in Invs : pc'[k] \in {"inside", "signed"} => at'[k] \in Setups
    BY <2>1 DEF EnclavesInv
  <2> QED BY <2>1, <2>2, <2>3 DEF EnclavesInv
<1>3. ASSUME NEW i \in Invs,
             \/ Register(i) \/ RegisterReturns(i) \/ InvokeFails(i) \/ Leave(i) \/ GetPublicKey(i)
      PROVE  EnclavesInv'
  <2>1. /\ eid' = eid /\ context' = context /\ crashed' = crashed /\ panicked' = panicked
        /\ addr' = addr /\ at' = at
    BY <1>3 DEF Register, RegisterReturns, InvokeFails, Leave, GetPublicKey, faultVars, callVars,
                setupVars
  <2>2. \E v \in InvPlaces \ {"inside", "signed"} : pc' = [pc EXCEPT ![i] = v]
    BY <1>3 DEF Register, RegisterReturns, InvokeFails, Leave, GetPublicKey, GoTo, InvPlaces
  <2>3. \A k \in Invs : pc'[k] \in {"inside", "signed"} => at'[k] \in Setups
    BY <2>1, <2>2 DEF EnclavesInv
  <2> QED BY <2>1, <2>3 DEF EnclavesInv
<1>4. ASSUME NEW i \in Invs, CallbackPanics(i) \/ EnclaveFault(i) \/ ChaincodeAborts(i)
      PROVE  EnclavesInv'
  <2>1. /\ eid' = eid /\ context' = context /\ addr' = addr /\ at' = at /\ pc' = pc
        /\ crashed' \in {crashed, crashed \cup {at[i]}} /\ panicked' \in {panicked, TRUE}
        /\ pc[i] = "inside"
    BY <1>4 DEF CallbackPanics, EnclaveFault, ChaincodeAborts, faultVars, callVars, setupVars, At
  <2> QED BY <2>1 DEF EnclavesInv
<1>5. CASE /\ UNCHANGED <<context, crashed, panicked, addr, at, pc>>
           /\ eid' \in Setups \cup {eid}
  BY <1>5 DEF EnclavesInv
<1>6. ASSUME NEW i \in Invs, Access(i) PROVE EnclavesInv'
  BY <1>5, <1>6 DEF Access, faultVars, setupVars
<1>7. ASSUME NEW s \in Setups, SetupStart(s) \/ SetupStep(s) PROVE EnclavesInv'
  BY <1>5, <1>7 DEF SetupStart, SetupStep, CreateSucceeds, CreateFails, Attest, Bind, SetupFails,
                    faultVars, callVars
<1>8. CASE UNCHANGED vars
  BY <1>5, <1>8 DEF vars
<1> QED BY <1>1, <1>2, <1>3, <1>4, <1>6, <1>7, <1>8 DEF Next, InvStep, Ended

\* A setup registers and binds the enclave of its moment, which is not
\* necessarily its own, but one that was created.
LEMMA NextSetups ==
  ASSUME PermitsInv, SetupsInv, [Next]_vars
  PROVE  SetupsInv'
<1>1. spc \in [Setups -> SetupPlaces]
  BY DEF PermitsInv
<1>2. ASSUME NEW i \in Invs, Register(i) \/ InvStep(i) PROVE SetupsInv'
  <2>1. UNCHANGED <<eid, spc, registered, bound>>
    BY <1>2, Zenon DEF Register, InvStep, RegisterReturns, Enter, Access, CallbackPanics,
                       EnclaveFault, ChaincodeAborts, InvokeFails, Sign, Leave, GetPublicKey, setupVars
  <2>2. CASE Enter(i)
    <3>1. free' \in Nat
      BY <2>2 DEF SetupsInv, Enter
    <3> QED BY <2>1, <3>1, Zenon DEF SetupsInv
  <2>3. CASE Leave(i)
    <3>1. free' = free + 1 /\ free \in Nat
      BY <2>3, Zenon DEF SetupsInv, Leave
    <3>2. free' \in Nat
      BY ONLY <3>1
    <3> QED BY <2>1, <3>2, Zenon DEF SetupsInv
  <2>4. CASE free' = free
    BY <2>1, <2>4, Zenon DEF SetupsInv
  <2> QED
    BY <1>2, <2>2, <2>3, <2>4, Zenon
    DEF Register, InvStep, RegisterReturns, Access, CallbackPanics, EnclaveFault, ChaincodeAborts,
        InvokeFails, Sign, GetPublicKey
<1>3. ASSUME NEW s \in Setups, SetupStart(s) \/ SetupStep(s) PROVE SetupsInv'
  <2>1. \/ free' = free \/ free' = free + 1
        \/ free' = free - 1 /\ free > 0
    BY <1>3, Zenon DEF SetupStart, SetupStep, CreateSucceeds, CreateFails, Attest, Bind, SetupFails
  <2>2. free' \in Nat
    BY <2>1 DEF SetupsInv
  <2>3. CASE /\ UNCHANGED <<eid, registered, bound>>
             /\ \E v \in {"creating", "failed"} : spc' = [spc EXCEPT ![s] = v]
    BY <1>1, <2>2, <2>3 DEF SetupsInv
  <2>4. CASE CreateSucceeds(s)
    BY <1>1, <2>2, <2>4 DEF SetupsInv, CreateSucceeds, SetupGoTo
  <2>5. CASE Attest(s) \/ Bind(s)
    <3>1. eid' = eid /\ spc[s] \in {"attest", "bind"}
          /\ \E v \in {"bind", "done"} : spc' = [spc EXCEPT ![s] = v]
      BY <2>5 DEF Attest, Bind, SetupAt, SetupGoTo
    <3>2. eid \in Setups
      BY <3>1 DEF SetupsInv
    <3>3. registered' \cup bound' \subseteq Setups
      BY <2>5, <3>2 DEF SetupsInv, Attest, Bind
    <3> QED BY <2>2, <3>1, <3>2, <3>3 DEF SetupsInv
  <2> QED
    BY <1>3, <2>3, <2>4, <2>5 DEF SetupStart, SetupStep, CreateFails, SetupFails, SetupGoTo
<1>4. CASE UNCHANGED vars
  BY <1>4 DEF vars, SetupsInv
<1> QED BY <1>2, <1>3, <1>4 DEF Next, Ended

\* Registry, semaphore, context map and setup: whatever overlaps and fails, an
\* invocation works with an index that was given out and in an enclave that
\* exists, no permit is made up, and what is registered at ercc or bound to tlcc
\* is an enclave.
THEOREM CallTypes == Spec => []TypeOK
<1> DEFINE Inv == PermitsInv /\ IndexInv /\ RegistryInv /\ EnclavesInv /\ SetupsInv
<1>1. Init => Inv
  BY InitPermits, InitIndex, InitTypes
<1>2. Inv /\ [Next]_vars => Inv'
  <2> SUFFICES ASSUME Inv, [Next]_vars PROVE Inv'
    OBVIOUS
  <2>1. PermitsInv' /\ IndexInv'
    BY NextPermits, NextIndex
  <2>2. RegistryInv'
    BY NextRegistry
  <2>3. EnclavesInv'
    BY NextEnclaves DEF PermitsInv
  <2>4. SetupsInv'
    BY NextSetups
  <2> QED BY <2>1, <2>2, <2>3, <2>4
<1>3. Inv => TypeOK
  <2> SUFFICES ASSUME Inv PROVE TypeOK
    OBVIOUS
  <2>1. index \in 0..Cardinality(Invs)
    BY IndexBound
  <2>2. free \in 0..Permits /\ lost \in 0..Permits
    BY FreeBound DEF SetupsInv
  <2> QED BY <2>1, <2>2 DEF PermitsInv, RegistryInv, EnclavesInv, SetupsInv, TypeOK
<1> QED BY <1>1, <1>2, <1>3, PTL DEF Spec
=============================================================================
