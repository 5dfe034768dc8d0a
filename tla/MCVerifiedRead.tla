--------------------------- MODULE MCVerifiedRead ---------------------------
(* Reads of the auction, of all the bids and of one bid, under MCPeerAndLedger. *)
EXTENDS MCPeerAndLedger, VerifiedRead

AuctionLookups ==
  {[keys |-> {a}, range |-> FALSE], [keys |-> {b1, b2}, range |-> TRUE],
   [keys |-> {b1}, range |-> FALSE]}

\* The setting in which agreement is proved for every instance covers this one.
ASSUME SettingAssumption ==
  /\ Compatible(ReadLoad) /\ Compatible(AuctionLoad)
  /\ GenesisIsConfig /\ MaxHeight < SeqModulus
=============================================================================
