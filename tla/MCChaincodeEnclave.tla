------------------------- MODULE MCChaincodeEnclave -------------------------
(***************************************************************************)
(* The invocations of the auction chaincode for TLC: create and close read *)
(* and write the auction, submit reads it and writes a bid, and eval reads *)
(* it and the rows of the bids.                                            *)
(***************************************************************************)
EXTENDS ChaincodeEnclave

CONSTANTS auction, bid1, bid2, open, closed, offer

Get(ks) == [kind |-> "get", keys |-> ks]
Put(k, v) == [kind |-> "put", key |-> k, val |-> v]

AuctionPrograms ==
  {<<Get({auction}), Put(auction, open)>>,
   <<Get({auction}), Put(bid1, offer)>>,
   <<Get({auction}), Get({bid1, bid2})>>}

\* Two programs tell apart whose sets an access reached.
TwoPrograms ==
  {<<Get({auction}), Put(auction, closed)>>,
   <<Get({auction}), Get({bid1, bid2})>>}

\* A program that writes a key twice.
RewritingPrograms == {<<Put(bid1, open), Put(bid1, closed)>>}
=============================================================================
