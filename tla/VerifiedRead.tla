---------------------------- MODULE VerifiedRead ----------------------------
(***************************************************************************)
(* The reads of the chaincode enclave, composed with the peer and its      *)
(* trusted ledger: get_state and get_state_by_partial_composite_key of     *)
(* ecc take the values from the peer and then ask tlcc for a MAC over what *)
(* the ledger enclave holds, which the enclave compares with one over the  *)
(* values.  Between the two steps the ledger enclave goes on reading       *)
(* blocks; the peer's state stays, because a simulation holds its lock, but*)
(* one more block may be stored and wait for it.                           *)
(***************************************************************************)
EXTENDS PeerAndLedger, FiniteSets

CONSTANTS
  Reads,    \* calls of get_state and get_state_by_partial_composite_key
  Lookups,  \* what they ask for: keys, and whether as a range
  NoRead

ASSUME LookupsAssumption ==
  \A q \in Lookups : /\ q.keys \subseteq EccKeys /\ q.range \in BOOLEAN
                     /\ q.range \/ Cardinality(q.keys) = 1

VARIABLE reads  \* per call: what the peer returned, at which height, the verdict

readVars == <<sysVars, reads>>

Waiting(i) == reads[i] # NoRead /\ reads[i].verdict = "none"

\* No simulation holds back the state of a block that is stored already.
Settled(c) ==
  \A i \in Reads : Waiting(i) /\ reads[i].chan = c => reads[i].height = Len(world[c])

ReadInit == SysInit /\ reads = [i \in Reads |-> NoRead]

\* GetState or the iterator of GetStateByPartialCompositeKey in the callback.
Fetch(i, c, q) ==
  /\ reads[i] = NoRead /\ Settled(c)
  /\ reads' = [reads EXCEPT ![i] =
       [chan |-> c, query |-> q, height |-> Len(world[c]), verdict |-> "none",
        enclave |-> NoEnclave, upTo |-> 0,
        view |-> [k \in q.keys |-> Committed(c)[k].val]]]
  /\ UNCHANGED sysVars

\* A composite key that is asked for by itself is cut at its first 0x00 when it
\* becomes a C string: the MAC is over another key.
CutShort(q) == ~q.range /\ q.keys \subseteq CompositeKeys

\* Mutant: only the presence of a value is compared.
ComparesPresence(q, view, e) ==
  /\ e # NoEnclave /\ ~CutShort(q)
  /\ \A k \in q.keys : view[k] = NoVal <=> state[e][k].val = NoVal

\* Mutant: a value that is absent has no MAC.
RefusesAbsent(q, view, e) ==
  /\ e # NoEnclave /\ ~CutShort(q)
  /\ \A k \in q.keys : view[k] = state[e][k].val /\ (q.range \/ view[k] # NoVal)

\* check_cmac of the values against the MAC of the ledger enclave e; the zeros
\* that are left when no enclave answered are no MAC of anything.
check_cmac(q, view, e) ==
  /\ e # NoEnclave /\ ~CutShort(q)
  /\ view = [k \in q.keys |-> state[e][k].val]

\* VerifyState in the callback, then the check in the enclave, whose outcome is
\* only logged.
Verify(i) ==
  LET read == reads[i]
      e == IF answer' = NoAnswer THEN NoEnclave ELSE eid
  IN  /\ Waiting(i)
      /\ getStateMetadata(read.query.keys)
      /\ reads' = [reads EXCEPT ![i] = [read EXCEPT
           !.verdict = IF check_cmac(read.query, read.view, e) THEN "ok" ELSE "violation",
           !.enclave = e,
           !.upTo = IF e = NoEnclave THEN 0 ELSE Len(log[e])]]
      /\ UNCHANGED world

ReadNext ==
  \/ \E c \in Channels : Settled(c) /\ CommitBlock(c) /\ UNCHANGED reads
  \/ \E j \in Joins, c \in Channels : joinChannel(j, c) /\ UNCHANGED <<world, reads>>
  \/ \E j \in Joins : Step(j) /\ UNCHANGED <<world, reads>>
  \/ \E i \in Reads, c \in Channels, q \in Lookups : Fetch(i, c, q)
  \/ \E i \in Reads : Verify(i)

ReadSpec == ReadInit /\ [][ReadNext]_readVars

----------------------------------------------------------------------------
(* Properties *)

\* What channel c held under the keys K after n blocks.
Values(c, n, K) == [k \in K |-> IF n = 0 THEN NoVal ELSE world[c][n][k].val]

\* "cmac correct": the values of a read that the enclave verified are what the
\* channel held after a number of blocks, the one the ledger enclave had
\* committed, and that is at most one block ahead of the peer's state.
VerifiedValuesAreCommitted ==
  \A i \in Reads :
    LET read == reads[i]
    IN  read # NoRead /\ read.verdict = "ok" =>
          /\ read.upTo \in 0..(read.height + 1)
          /\ read.view = Values(read.chan, read.upTo, read.query.keys)

\* "VIOLATION!!!" is reported of an honest peer only for a reason: the ledger
\* enclave does not answer, the key was cut short, or the enclave is at another
\* height, where the values differ.
HonestReadsVerify ==
  \A i \in Reads :
    LET read == reads[i]
    IN  read # NoRead /\ read.verdict = "violation" =>
          \/ read.enclave = NoEnclave \/ CutShort(read.query)
          \/ read.upTo # read.height /\ read.view # Values(read.chan, read.upTo, read.query.keys)
=============================================================================
