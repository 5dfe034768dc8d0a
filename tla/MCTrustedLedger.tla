-------------------------- MODULE MCTrustedLedger --------------------------
(* Small instances of TrustedLedger. *)
EXTENDS TrustedLedger

CONSTANTS a, bd, m, l, r, o, v, w

MCLscc == {l}
MCErcc == {r}
MCEcc == {a, bd, m}
MCComposite == {bd}
MCOther == {o}
MCVal == {v, w}
MCQueries == {{a, bd}}

Plain == [flag |-> 0, form |-> "ok", type |-> "ENDORSER_TRANSACTION",
          reads |-> {}, lscc |-> <<>>, ercc |-> <<>>, ecc |-> <<>>]
Config == [Plain EXCEPT !.type = "CONFIG"]
Put(k, x) == [key |-> k, val |-> x]
Get(k, n, i) == [key |-> k, ver |-> <<n, i>>, range |-> FALSE]
Scan(k, n, i) == [Get(k, n, i) EXCEPT !.range = TRUE]
OfTxs(txs) == [ok |-> TRUE, txs |-> txs]

MCGenesis == OfTxs(<<Config>>)

\* Instantiation of ecc, as lscc does it.
Instantiate == [Plain EXCEPT !.lscc = <<Put(l, v)>>, !.ecc = <<Put(m, v)>>]
\* Create an auction that was absent when read; set it again, having read it
\* as block 1 left it; overwrite a bid.
CreateA == [Plain EXCEPT !.reads = {Get(a, 0, 0)}, !.ecc = <<Put(a, v)>>]
CloseA == [Plain EXCEPT !.reads = {Get(a, 1, 1)}, !.ecc = <<Put(a, w)>>]
BlindB(x) == [Plain EXCEPT !.reads = {Get(a, 1, 1)}, !.ecc = <<Put(bd, x)>>]
ScanB == [Plain EXCEPT !.reads = {Scan(bd, 1, 0)}, !.ecc = <<Put(a, w), Put(bd, v)>>]
Register == [Plain EXCEPT !.ercc = <<Put(r, v)>>]
ReadRegistry == [Plain EXCEPT !.reads = {Get(r, 0, 0)}]
Skipped == [Plain EXCEPT !.flag = 1, !.form = "badEnvelope"]
Malformed == [Plain EXCEPT !.form = "badEnvelope"]

\* Blocks that apply, that conflict, that do not decode in one of two places,
\* and one whose envelopes fault.
AllBlocks == {OfTxs(<<Instantiate, CreateA>>), OfTxs(<<Skipped, CloseA, ScanB>>),
              [ok |-> FALSE, txs |-> <<>>], OfTxs(<<BlindB(v), Malformed>>),
              OfTxs(<<Register, ReadRegistry>>)}
=============================================================================
