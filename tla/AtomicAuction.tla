--------------------------- MODULE AtomicAuction ---------------------------
(***************************************************************************)
(* What the auction chaincode promises those who call it: the calls that   *)
(* are committed take effect one after the other, each as a whole on what  *)
(* the one before it left, as if nothing were ever in flight.              *)
(***************************************************************************)
CONSTANTS
  Auctions, Bidders, Values, Nothing,
  Winner(_)    \* the result of an auction with these bids

VARIABLES
  status,   \* auction -> "open", "closed" or Nothing
  offers,   \* auction -> bidder -> value of the last bid
  outcome   \* auction -> last result

vars == <<status, offers, outcome>>

Init ==
  /\ status = [a \in Auctions |-> Nothing]
  /\ offers = [a \in Auctions |-> [b \in Bidders |-> Nothing]]
  /\ outcome = [a \in Auctions |-> Nothing]

Create(a) ==
  /\ status[a] = Nothing
  /\ status' = [status EXCEPT ![a] = "open"]
  /\ UNCHANGED <<offers, outcome>>

Submit(a, b, v) ==
  /\ status[a] = "open"
  /\ offers' = [offers EXCEPT ![a][b] = v]
  /\ UNCHANGED <<status, outcome>>

Close(a) ==
  /\ status[a] = "open"
  /\ status' = [status EXCEPT ![a] = "closed"]
  /\ UNCHANGED <<offers, outcome>>

Eval(a) ==
  /\ status[a] = "closed"
  /\ outcome' = [outcome EXCEPT ![a] = Winner(offers[a])]
  /\ UNCHANGED <<status, offers>>

Next ==
  \E a \in Auctions :
    \/ Create(a) \/ Close(a) \/ Eval(a)
    \/ \E b \in Bidders, v \in Values : Submit(a, b, v)

Spec == Init /\ [][Next]_vars
=============================================================================
