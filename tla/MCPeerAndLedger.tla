-------------------------- MODULE MCPeerAndLedger --------------------------
(* Small workloads for PeerAndLedger: an auction a, bids b1 and b2. *)
EXTENDS PeerAndLedger

CONSTANTS a, b1, b2, m, l, r, v, w

MCLscc == {l}
MCErcc == {r}
MCEcc == {a, b1, b2, m}
MCComposite == {b1, b2}
MCVal == {v, w}

MCGenesis == [ok |-> TRUE, txs |-> <<>>]

Nothing == [gets |-> {}, scans |-> {}, lscc |-> <<>>, ercc |-> <<>>,
            ecc |-> <<>>, signed |-> TRUE]
Put(k, x) == [key |-> k, val |-> x]

Instantiate == [Nothing EXCEPT !.gets = {l}, !.lscc = <<Put(l, v)>>,
                               !.ecc = <<Put(m, v)>>]
SetAuction(x) == [Nothing EXCEPT !.gets = {a}, !.ecc = <<Put(a, x)>>]
Bid(k, x) == [Nothing EXCEPT !.gets = {a}, !.ecc = <<Put(k, x)>>]
Eval == [Nothing EXCEPT !.gets = {a}, !.scans = {{b1, b2}}]
Unsigned(t) == [t EXCEPT !.signed = FALSE]
TwoWrites == [Nothing EXCEPT !.ecc = <<Put(b1, v), Put(b2, w)>>]
CountBids == [Nothing EXCEPT !.scans = {{b1, b2}}, !.ecc = <<Put(a, w)>>]

\* One blind write per bid key: what one auction with one bid per bidder does.
AuctionLoad == {Instantiate, SetAuction(v), SetAuction(w), Bid(b1, v), Eval}
ReadLoad == {Instantiate, SetAuction(v), SetAuction(w), Bid(b1, v)}
RebidLoad == {SetAuction(v), Bid(b1, v), Bid(b1, w)}
UnsignedLoad == {SetAuction(v), Unsigned(SetAuction(w))}
MultiWriteLoad == {SetAuction(v), TwoWrites}
PhantomLoad == {SetAuction(v), Bid(b1, v), CountBids}
=============================================================================
