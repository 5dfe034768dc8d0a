-------------------------- MODULE ChaincodeEnclave --------------------------
(***************************************************************************)
(* The chaincode enclave and its Go wrapper: concurrent invocations of     *)
(* ecc/enclave_chaincode.go through the stub of ecc/enclave (registry of   *)
(* shims, semaphore of enclave threads) into ecc_enclave (context map,     *)
(* read and write sets), and the setup that creates enclaves.              *)
(*                                                                         *)
(* An invocation runs a program: a sequence of reads of key sets (a plain  *)
(* read or the rows of a range query) and of writes.  The enclave collects *)
(* what it signs in sets on its stack; the peer collects the transaction's *)
(* sets behind the shim that the callback reaches.                         *)
(***************************************************************************)
EXTENDS Integers, Sequences, FiniteSets

CONSTANTS
  Invs,        \* invocations
  Setups,      \* calls of setup; the enclave a setup creates has its name
  Addrs,       \* addresses the ctx pointer &index may have
  Permits,     \* ENCLAVE_TCS_NUM
  LostBefore,  \* how many setups may have failed in Create before these calls
  Programs,    \* what invocations may execute
  MayFail,     \* whether calls of the enclave, the peer and ercc may fail
  NoEnclave, Nobody

ASSUME CallsAssumption ==
  /\ IsFiniteSet(Invs) /\ IsFiniteSet(Setups) /\ Cardinality(Addrs) >= Cardinality(Invs)
  /\ Permits \in Nat \ {0} /\ LostBefore \subseteq 0..Permits /\ MayFail \in BOOLEAN
  /\ NoEnclave \notin Setups /\ Nobody \notin Invs

VARIABLES
  index, internal,  \* the Registry; internal maps indices to shims
  free, lost,       \* permits left in the semaphore, and never given back by Create
  eid,              \* StubImpl.eid
  context,          \* per enclave: ctx address -> owner of the registered sets
  crashed,          \* enclaves that aborted
  clean,            \* history: every Register returned the index it gave out, and
                    \* no ecall that failed left its sets in a live context
  panicked,         \* the chaincode process panicked
  pc, idx, addr,    \* per invocation: its place, its index, its ctx address
  at, prog,         \* the enclave it entered, the operations left
  rs, ws,           \* readset and writeset, locals of ecall_invoke
  txr, txw,         \* the peer's sets of the transaction
  reply,            \* what the invocation returned
  spc,              \* per setup: its place
  registered, bound \* enclaves registered at ercc, and bound to tlcc

vars == <<index, internal, free, lost, eid, context, crashed, clean, panicked, pc, idx, addr,
          at, prog, rs, ws, txr, txw, reply, spc, registered, bound>>
regVars == <<index, internal>>
faultVars == <<crashed, clean>>
callVars == <<idx, addr, at, prog>>
setVars == <<rs, ws, txr, txw>>
setupVars == <<lost, eid, spc, registered, bound>>

Init ==
  /\ index = 0 /\ internal = [n \in 1..Cardinality(Invs) |-> Nobody]
  /\ lost \in LostBefore /\ free = Permits - lost /\ eid = NoEnclave
  /\ context = [e \in Setups |-> [x \in Addrs |-> Nobody]]
  /\ crashed = {} /\ clean = TRUE /\ panicked = FALSE
  /\ pc = [i \in Invs |-> "idle"] /\ idx = [i \in Invs |-> 0]
  /\ addr \in [Invs -> Addrs]
  /\ at = [i \in Invs |-> NoEnclave] /\ prog = [i \in Invs |-> <<>>]
  /\ rs = [i \in Invs |-> {}] /\ ws = [i \in Invs |-> {}]
  /\ txr = [i \in Invs |-> {}] /\ txw = [i \in Invs |-> {}]
  /\ reply = [i \in Invs |-> [ok |-> FALSE, sig |-> NoEnclave, pk |-> NoEnclave]]
  /\ spc = [s \in Setups |-> "idle"]
  /\ registered = {} /\ bound = {}

Active(i) == pc[i] \notin {"idle", "done"}

\* The index variable of StubImpl.Invoke is live.
HoldsCtx(i) == Active(i) /\ pc[i] # "getPk"

\* A panic stops the whole process.
At(i, place) == ~panicked /\ pc[i] = place
SetupAt(s, place) == ~panicked /\ spc[s] = place

GoTo(i, place) == pc' = [pc EXCEPT ![i] = place]

----------------------------------------------------------------------------
(* StubImpl.Invoke *)

\* Register under its lock.  The address of index is that of no other
\* running invocation, but may be one used before.
Register(i) ==
  /\ At(i, "idle")
  /\ \A k \in Invs : HoldsCtx(k) => addr[k] # addr[i]
  /\ index' = index + 1
  /\ internal' = [internal EXCEPT ![index + 1] = i]
  /\ \E p \in Programs : prog' = [prog EXCEPT ![i] = p]
  /\ GoTo(i, "registering")
  /\ UNCHANGED <<free, context, faultVars, panicked, idx, addr, at, setVars, reply, setupVars>>

\* Register reads its result after it has released the lock.
RegisterReturns(i) ==
  /\ At(i, "registering")
  /\ idx' = [idx EXCEPT ![i] = index]
  /\ clean' = (clean /\ internal[index] = i)
  /\ GoTo(i, "acquire")
  /\ UNCHANGED <<regVars, free, context, crashed, panicked, addr, at, prog, setVars, reply, setupVars>>

\* Acquire a permit and enter ecall_invoke of the current eid, which
\* registers its sets; insert keeps an entry that is already there.
Enter(i) ==
  /\ At(i, "acquire") /\ free > 0
  /\ free' = free - 1
  /\ at' = [at EXCEPT ![i] = eid]
  /\ IF eid \in Setups \ crashed
     THEN /\ context' = [context EXCEPT ![eid][addr[i]] = IF @ = Nobody THEN i ELSE @]
          /\ GoTo(i, "inside")
     ELSE /\ GoTo(i, "failed")
          /\ UNCHANGED context
  /\ UNCHANGED <<regVars, faultVars, panicked, idx, addr, prog, setVars, reply, setupVars>>

Owner(i) == context[at[i]][addr[i]]

\* std::map::insert of a pair
InsertPair(S, k, v) == IF \E p \in S : p[1] = k THEN S ELSE S \cup {<<k, v>>}

\* The peer's write set keeps the last write of a key.
LastWrite(S, k, v) == {p \in S : p[1] # k} \cup {<<k, v>>}

\* Whose sets an insertion of i ends up in.  A registration that outlived its
\* ecall points into a stack that other invocations may be using.
Targets(i) ==
  IF pc[Owner(i)] = "inside" THEN {Owner(i)}
  ELSE {Nobody} \cup {k \in Invs : pc[k] = "inside" /\ at[k] = at[i]}

\* Mutant: the rows of a range query are not added to the read set.
MutantRowsNotRead(i) ==
  /\ At(i, "inside") /\ prog[i] # <<>> /\ at[i] \notin crashed
  /\ internal[idx[i]] # Nobody
  /\ LET op == Head(prog[i])
         j == internal[idx[i]]
     IN  IF op.kind = "get"
         THEN /\ rs' = [rs EXCEPT ![i] = IF Cardinality(op.keys) = 1 THEN @ \cup op.keys ELSE @]
              /\ txr' = [txr EXCEPT ![j] = @ \cup op.keys]
              /\ UNCHANGED <<ws, txw>>
         ELSE /\ ws' = [ws EXCEPT ![i] = InsertPair(@, op.key, op.val)]
              /\ txw' = [txw EXCEPT ![j] = LastWrite(@, op.key, op.val)]
              /\ UNCHANGED <<rs, txr>>
  /\ prog' = [prog EXCEPT ![i] = Tail(@)]
  /\ UNCHANGED <<regVars, free, context, faultVars, panicked, pc, idx, addr, at, reply, setupVars>>

\* get_state, get_state_by_partial_composite_key or put_state in the enclave
\* and its callback.
Access(i) ==
  /\ At(i, "inside") /\ prog[i] # <<>> /\ at[i] \notin crashed
  /\ internal[idx[i]] # Nobody
  /\ LET op == Head(prog[i])
         j == internal[idx[i]]
     IN  /\ \E o \in Targets(i) :
              IF op.kind = "get"
              THEN /\ rs' = [k \in Invs |-> IF k = o THEN rs[k] \cup op.keys ELSE rs[k]]
                   /\ txr' = [txr EXCEPT ![j] = @ \cup op.keys]
                   /\ UNCHANGED <<ws, txw>>
              ELSE /\ ws' = [k \in Invs |-> IF k = o THEN InsertPair(ws[k], op.key, op.val)
                                             ELSE ws[k]]
                   /\ txw' = [txw EXCEPT ![j] = LastWrite(@, op.key, op.val)]
                   /\ UNCHANGED <<rs, txr>>
  /\ prog' = [prog EXCEPT ![i] = Tail(@)]
  /\ UNCHANGED <<regVars, free, context, faultVars, panicked, pc, idx, addr, at, reply, setupVars>>

\* Registry.Get finds no shim, or the peer or tlcc reports an error: the
\* callback panics.
CallbackPanics(i) ==
  /\ At(i, "inside") /\ prog[i] # <<>> /\ at[i] \notin crashed
  /\ internal[idx[i]] = Nobody \/ MayFail
  /\ panicked' = TRUE
  /\ UNCHANGED <<regVars, free, context, faultVars, pc, callVars, setVars, reply, setupVars>>

\* An insertion through a stale registration takes the enclave down.
EnclaveFault(i) ==
  /\ At(i, "inside") /\ prog[i] # <<>> /\ at[i] \notin crashed
  /\ pc[Owner(i)] # "inside"
  /\ crashed' = crashed \cup {at[i]}
  /\ UNCHANGED <<regVars, free, context, clean, panicked, pc, callVars, setVars, reply, setupVars>>

\* The chaincode aborts the enclave before its first access: too few arguments,
\* which nobody checks, or a bid std::stoi does not take.
ChaincodeAborts(i) ==
  /\ MayFail /\ At(i, "inside") /\ prog[i] \in Programs
  /\ crashed' = crashed \cup {at[i]}
  /\ UNCHANGED <<regVars, free, context, clean, panicked, pc, callVars, setVars, reply, setupVars>>

\* Mutant: the error path releases the permit a second time.
MutantReleasesTwice(i) ==
  /\ At(i, "inside") /\ MayFail /\ prog[i] = <<>>
  /\ free' = free + 1
  /\ GoTo(i, "failed")
  /\ UNCHANGED <<regVars, context, faultVars, panicked, callVars, setVars, reply, setupVars>>

\* The arguments cannot be decrypted, or the response does not fit:
\* ecall_invoke returns at once.  An ecall ends when its enclave has crashed.
InvokeFails(i) ==
  /\ At(i, "inside")
  /\ \/ MayFail /\ (prog[i] \in Programs \/ prog[i] = <<>>)
     \/ at[i] \in crashed
  /\ clean' = (clean /\ at[i] \in crashed)
  /\ GoTo(i, "failed")
  /\ UNCHANGED <<regVars, free, context, crashed, panicked, callVars, setVars, reply, setupVars>>

\* Mutant: free_rwset is forgotten.
MutantNoFree(i) ==
  /\ At(i, "inside") /\ prog[i] = <<>> /\ at[i] \notin crashed
  /\ reply' = [reply EXCEPT ![i].ok = TRUE, ![i].sig = at[i]]
  /\ GoTo(i, "signed")
  /\ UNCHANGED <<regVars, free, context, faultVars, panicked, callVars, setVars, setupVars>>

\* Hash the sets, free_rwset, sign.
Sign(i) ==
  /\ At(i, "inside") /\ prog[i] = <<>> /\ at[i] \notin crashed
  /\ context' = [context EXCEPT ![at[i]][addr[i]] = Nobody]
  /\ \/ /\ reply' = [reply EXCEPT ![i].ok = TRUE, ![i].sig = at[i]]
        /\ GoTo(i, "signed")
     \/ /\ MayFail
        /\ GoTo(i, "failed")
        /\ UNCHANGED reply
  /\ UNCHANGED <<regVars, free, faultVars, panicked, callVars, setVars, setupVars>>

\* Mutant: Invoke returns without releasing its permit.
MutantNoRelease(i) ==
  /\ At(i, "signed") \/ At(i, "failed")
  /\ internal' = [internal EXCEPT ![idx[i]] = Nobody]
  /\ GoTo(i, IF pc[i] = "signed" THEN "getPk" ELSE "done")
  /\ UNCHANGED <<index, free, context, faultVars, panicked, callVars, setVars, reply, setupVars>>

\* Mutant: the permit is released only when the ecall succeeded.
MutantReleasesOnSuccess(i) ==
  /\ At(i, "signed") \/ At(i, "failed")
  /\ free' = IF pc[i] = "signed" THEN free + 1 ELSE free
  /\ internal' = [internal EXCEPT ![idx[i]] = Nobody]
  /\ GoTo(i, IF pc[i] = "signed" THEN "getPk" ELSE "done")
  /\ UNCHANGED <<index, context, faultVars, panicked, callVars, setVars, reply, setupVars>>

\* Release the permit and, as Invoke returns, the shim.
Leave(i) ==
  /\ At(i, "signed") \/ At(i, "failed")
  /\ free' = free + 1
  /\ internal' = [internal EXCEPT ![idx[i]] = Nobody]
  /\ GoTo(i, IF pc[i] = "signed" THEN "getPk" ELSE "done")
  /\ UNCHANGED <<index, context, faultVars, panicked, callVars, setVars, reply, setupVars>>

\* GetPublicKey, an ecall of its own, completes the response.  Its result is
\* not checked: there is no key when the ecall failed.
GetPublicKey(i) ==
  /\ At(i, "getPk") /\ free > 0
  /\ reply' = [reply EXCEPT ![i].pk = IF eid \in crashed THEN NoEnclave ELSE eid]
  /\ GoTo(i, "done")
  /\ UNCHANGED <<regVars, free, context, faultVars, panicked, callVars, setVars, setupVars>>

----------------------------------------------------------------------------
(* EnclaveChaincode.setup *)

SetupGoTo(s, place) == spc' = [spc EXCEPT ![s] = place]

\* The check for an existing enclave never fires: t.enclave is not nil.
SetupStart(s) ==
  /\ SetupAt(s, "idle") /\ free > 0
  /\ free' = free - 1
  /\ SetupGoTo(s, "creating")
  /\ UNCHANGED <<regVars, context, faultVars, panicked, pc, callVars, setVars, reply,
                 lost, eid, registered, bound>>

CreateSucceeds(s) ==
  /\ SetupAt(s, "creating")
  /\ eid' = s
  /\ free' = free + 1
  /\ SetupGoTo(s, "attest")
  /\ UNCHANGED <<regVars, context, faultVars, panicked, pc, callVars, setVars, reply,
                 lost, registered, bound>>

\* Create returns its error without releasing the permit.
CreateFails(s) ==
  /\ MayFail /\ SetupAt(s, "creating")
  /\ lost' = lost + 1
  /\ SetupGoTo(s, "failed")
  /\ UNCHANGED <<regVars, free, context, faultVars, panicked, pc, callVars, setVars, reply,
                 eid, registered, bound>>

\* GetRemoteAttestationReport of the current eid, then RegisterEnclave.
Attest(s) ==
  /\ SetupAt(s, "attest") /\ free > 0
  /\ registered' = registered \cup {eid}
  /\ SetupGoTo(s, "bind")
  /\ UNCHANGED <<regVars, free, context, faultVars, panicked, pc, callVars, setVars, reply,
                 lost, eid, bound>>

\* GetTargetInfo, GetReport, Bind.
Bind(s) ==
  /\ SetupAt(s, "bind") /\ free > 0
  /\ bound' = bound \cup {eid}
  /\ SetupGoTo(s, "done")
  /\ UNCHANGED <<regVars, free, context, faultVars, panicked, pc, callVars, setVars, reply,
                 lost, eid, registered>>

\* An error of ercc, tlcc or of a conversion ends the setup.
SetupFails(s) ==
  /\ MayFail /\ (SetupAt(s, "attest") \/ SetupAt(s, "bind"))
  /\ SetupGoTo(s, "failed")
  /\ UNCHANGED <<regVars, free, context, faultVars, panicked, pc, callVars, setVars, reply,
                 lost, eid, registered, bound>>

----------------------------------------------------------------------------

InvStep(i) ==
  \/ RegisterReturns(i) \/ Enter(i) \/ Access(i) \/ CallbackPanics(i)
  \/ EnclaveFault(i) \/ ChaincodeAborts(i) \/ InvokeFails(i) \/ Sign(i) \/ Leave(i) \/ GetPublicKey(i)

SetupStep(s) ==
  CreateSucceeds(s) \/ CreateFails(s) \/ Attest(s) \/ Bind(s) \/ SetupFails(s)

\* Every permit was taken by a Create that failed: no call gets one any more.
Exhausted == lost = Permits

\* Everything has returned, a panic has ended the process, or every call waits
\* for a permit for ever.
Ended ==
  /\ \/ panicked \/ Exhausted
     \/ /\ \A i \in Invs : pc[i] = "done"
        /\ \A s \in Setups : spc[s] \in {"failed", "done"}
  /\ UNCHANGED vars

Next ==
  \/ \E i \in Invs : Register(i) \/ InvStep(i)
  \/ \E s \in Setups : SetupStart(s) \/ SetupStep(s)
  \/ Ended

Spec == Init /\ [][Next]_vars

\* Goroutines that can run do run; an acquirer of a semaphore that is
\* released again and again is served, because its waiters are in a queue.
FairSpec ==
  /\ Spec
  /\ \A i \in Invs : SF_vars(InvStep(i))
  /\ \A s \in Setups : SF_vars(SetupStep(s))

----------------------------------------------------------------------------
(* Properties *)

InvPlaces ==
  {"idle", "registering", "acquire", "inside", "signed", "failed", "getPk", "done"}

SetupPlaces == {"idle", "creating", "attest", "bind", "failed", "done"}

\* The registry, the semaphore, the enclaves and the calls hold values of
\* their types; an invocation that has an index has one the registry gave out.
TypeOK ==
  /\ index \in 0..Cardinality(Invs)
  /\ internal \in [1..Cardinality(Invs) -> Invs \cup {Nobody}]
  /\ free \in 0..Permits /\ lost \in 0..Permits /\ eid \in Setups \cup {NoEnclave}
  /\ context \in [Setups -> [Addrs -> Invs \cup {Nobody}]]
  /\ crashed \subseteq Setups /\ panicked \in BOOLEAN
  /\ pc \in [Invs -> InvPlaces] /\ spc \in [Setups -> SetupPlaces]
  /\ idx \in [Invs -> 0..index]
  /\ \A i \in Invs : pc[i] \notin {"idle", "registering"} => idx[i] # 0
  /\ \A i \in Invs : pc[i] \in {"inside", "signed"} => at[i] \in Setups
  /\ registered \cup bound \subseteq Setups

\* StubImpl.sem: every permit is free, held by a call that is inside an
\* enclave, or lost by a Create that failed; none is released twice.
PermitsAccounted ==
  free + Cardinality({i \in Invs : pc[i] \in {"inside", "signed", "failed"}})
       + Cardinality({s \in Setups : spc[s] = "creating"}) + lost
    = Permits

\* ecall_invoke signs "args || result || read-write set": the sets an enclave
\* signed for an invocation are those the peer recorded for its transaction,
\* so the validation that hashes the transaction's sets accepts the signature.
SignedSetsMatch ==
  \A i \in Invs : reply[i].ok => rs[i] = txr[i] /\ ws[i] = txw[i]

\* It takes one of two faults to break that: a Register that returned another
\* call's index, or an ecall that returned early without free_rwset.  No other
\* overlap of invocations, callbacks, setups and reused ctx addresses does.
CleanCallsSignTheirSets == clean => SignedSetsMatch

\* free_rwset "clean context": likewise, the context of a live enclave then
\* refers only to sets of invocations that are inside it, and every invocation
\* inside finds its own: an enclave goes down by its chaincode's abort, never by
\* writing through a registration that outlived its call.
CleanContexts ==
  clean => /\ \A e \in Setups \ crashed, x \in Addrs :
                context[e][x] # Nobody => pc[context[e][x]] = "inside" /\ at[context[e][x]] = e
           /\ \A i \in Invs : pc[i] = "inside" => Owner(i) = i

\* StubImpl.Invoke and GetPublicKey wait for permits, one after the other:
\* an invocation that has registered its shim returns, whatever fails or aborts
\* around it, unless a callback panics or failed Creates took all permits.
InvocationsReturn ==
  \A i \in Invs : pc[i] = "registering" ~> pc[i] = "done" \/ panicked \/ Exhausted
=============================================================================
