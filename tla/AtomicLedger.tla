---------------------------- MODULE AtomicLedger ----------------------------
(***************************************************************************)
(* What the ledger enclaves of one peer promise: each enclave follows the  *)
(* block numbers 0, 1, 2, ... without a gap, applies each block in a       *)
(* single step to the state the previous one left, and answers every query *)
(* from the state between two blocks.                                      *)
(***************************************************************************)
EXTENDS LedgerRules

CONSTANTS Channels, Enclaves, Blocks, Genesis, Queries, MaxHeight, NoAnswer

VARIABLES
  chain,   \* the peer's block store, by channel
  state,   \* the key-value store of each enclave
  log,     \* the <<channel, block number>> each enclave has committed
  answer   \* the last answer to a query

vars == <<chain, state, log, answer>>

\* The updates of a block after each of its envelopes, all validated against
\* the state before the block.
BlockRun(st, b, n) ==
  LET u[i \in 0..Len(b.txs)] ==
        IF i = 0 THEN EmptyKvs
        ELSE ProcessEnvelope(st, u[i-1], b.txs[i], <<n, i-1>>)
  IN  u

BlockUpdates(st, b, n) == BlockRun(st, b, n)[Len(b.txs)]

Init ==
  /\ chain = [c \in Channels |-> <<Genesis>>]
  /\ state = [e \in Enclaves |-> EmptyKvs]
  /\ log = [e \in Enclaves |-> <<>>]
  /\ answer = NoAnswer

AppendBlock(c, b) ==
  /\ Len(chain[c]) < MaxHeight
  /\ chain' = [chain EXCEPT ![c] = Append(@, b)]
  /\ UNCHANGED <<state, log, answer>>

ApplyBlock(e, c) ==
  LET n == Len(log[e])
      b == chain[c][n+1]
  IN  /\ n < Len(chain[c])
      /\ state' = [state EXCEPT ![e] = ApplyUpdates(@, BlockUpdates(@, b, n))]
      /\ log' = [log EXCEPT ![e] = Append(@, <<c, n>>)]
      /\ UNCHANGED <<chain, answer>>

Answer(e, K) ==
  /\ answer' = [enclave |-> e, view |-> [k \in K |-> state[e][k].val]]
  /\ UNCHANGED <<chain, state, log>>

NoReply ==
  /\ answer' = NoAnswer
  /\ UNCHANGED <<chain, state, log>>

Next ==
  \/ \E c \in Channels, b \in Blocks : AppendBlock(c, b)
  \/ \E e \in Enclaves, c \in Channels : ApplyBlock(e, c)
  \/ \E e \in Enclaves, K \in Queries : Answer(e, K)
  \/ NoReply

Spec == Init /\ [][Next]_vars
=============================================================================
