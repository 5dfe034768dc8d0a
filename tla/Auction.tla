------------------------------ MODULE Auction ------------------------------
(***************************************************************************)
(* The auction chaincode (ecc_enclave/enclave/auction) on top of the       *)
(* peer's execute-order-validate pipeline: an invocation is endorsed       *)
(* against the state of its moment, waits in a pool, and is committed only *)
(* if what it read has not changed.                                        *)
(*                                                                         *)
(* Names are sequences of segments: the separator "." of the chaincode's   *)
(* composite keys is where a name has more than one.  Absent keys have     *)
(* version 0.                                                              *)
(***************************************************************************)
EXTENDS Integers, Sequences, FiniteSets, Functions

CONSTANTS
  Auctions,    \* auction names, sequences of segments
  Bidders,     \* bidder names, likewise
  Values,      \* the values of bids
  MaxHeight,   \* bound on the blocks (of one transaction each)
  MaxPool,     \* bound on the transactions waiting for order
  Nothing      \* no value, no result

\* What names are made of.
Segments == UNION {Range(name) : name \in Auctions \cup Bidders}

Bid == [bidder : Bidders, value : Values]

ASSUME AuctionAssumption ==
  /\ IsFiniteSet(Auctions) /\ Auctions \subseteq Seq(Segments)
  /\ IsFiniteSet(Bidders) /\ Bidders \subseteq Seq(Segments)
  /\ Values \subseteq Int
  /\ MaxHeight \in Nat /\ MaxPool \in Nat
  /\ Nothing \notin Values /\ Nothing \notin Bidders
  /\ Nothing \notin {"open", "closed"} /\ Nothing \notin Bid

VARIABLES
  height,   \* blocks committed
  ledger,   \* key -> [val, ver]
  pool,     \* endorsed transactions
  offers,   \* auction -> bidder -> value of the last committed bid
  outcome   \* auction -> result of the last committed eval

vars == <<height, ledger, pool, offers, outcome>>

\* auction_name, and PREFIX + auction_name + SEP + bidder_name + SEP
AuctionKey(a) == <<"auction", a>>
BidKey(a, b) == <<"bid", a \o b>>

Key == {AuctionKey(a) : a \in Auctions} \cup {BidKey(a, b) : a \in Auctions, b \in Bidders}

\* name is a, or continues it after a separator.
Continues(name, a) == Len(a) <= Len(name) /\ SubSeq(name, 1, Len(a)) = a

\* GetStateByPartialCompositeKey: the bids whose first segments are those of a.
RowKeys(a) == {k \in Key : k[1] = "bid" /\ Continues(k[2], a) /\ ledger[k].ver # 0}

Init ==
  /\ height = 0
  /\ ledger = [k \in Key |-> [val |-> Nothing, ver |-> 0]]
  /\ pool = {}
  /\ offers = [a \in Auctions |-> [b \in Bidders |-> Nothing]]
  /\ outcome = [a \in Auctions |-> Nothing]

----------------------------------------------------------------------------
(* The chaincode's functions.  A result is that of the call; writes has at *)
(* most one pair.                                                          *)

\* A call answers with one of the chaincode's words or with a bid.
Says(word) == [word |-> word, bid |-> Nothing]
Names(bid) == [word |-> "BID", bid |-> bid]

Tx(a, result, rows, writes, bidder) ==
  [auction |-> a, result |-> result, bidder |-> bidder, writes |-> writes,
   read |-> ledger[AuctionKey(a)].ver,
   rows |-> rows]

Refused(a, word) == Tx(a, Says(word), Nothing, {}, Nothing)

Exists(a) == ledger[AuctionKey(a)].ver # 0

IsOpen(a) == ledger[AuctionKey(a)].val = "open"

auction_create(a) ==
  IF Exists(a) THEN Refused(a, "AUCTION_ALREADY_EXISTS")
  ELSE Tx(a, Says("OK"), Nothing, {<<AuctionKey(a), "open">>}, Nothing)

\* Mutant: submit accepts bids of closed auctions.
MutantIgnoresClosed(a, b, v) ==
  IF ~Exists(a) THEN Refused(a, "AUCTION_ALREADY_EXISTS")
  ELSE Tx(a, Says("OK"), Nothing, {<<BidKey(a, b), [bidder |-> b, value |-> v]>>}, b)

auction_submit(a, b, v) ==
  IF ~Exists(a) THEN Refused(a, "AUCTION_ALREADY_EXISTS")
  ELSE IF ~IsOpen(a) THEN Refused(a, "AUCTION_ALREADY_CLOSED")
  ELSE Tx(a, Says("OK"), Nothing, {<<BidKey(a, b), [bidder |-> b, value |-> v]>>}, b)

auction_close(a) ==
  IF ~Exists(a) THEN Refused(a, "AUCTION_ALREADY_EXISTS")
  ELSE IF ~IsOpen(a) THEN Refused(a, "AUCTION_ALREADY_CLOSED")
  ELSE Tx(a, Says("OK"), Nothing, {<<AuctionKey(a), "closed">>}, Nothing)

\* The rows of a range query, each once.  Their order is left open: the search
\* finds the same in any (EvalFinds in AuctionProofs).
Rows(a) ==
  LET n == Cardinality(RowKeys(a))
      order == CHOOSE s \in Bijection(1..n, RowKeys(a)) : TRUE
  IN  [i \in 1..n |-> ledger[order[i]].val]

\* One turn of the loop that searches the highest bid.
Considers(s, bid) ==
  IF bid.value > s.high THEN [high |-> bid.value, winner |-> bid, draw |-> FALSE]
  ELSE IF bid.value = s.high THEN [s EXCEPT !.draw = TRUE]
  ELSE s

\* winner is not initialized: it stays Nothing when no bid is considered.
Search(rows) ==
  LET after[n \in 0..Len(rows)] ==
        IF n = 0 THEN [high |-> -1, winner |-> Nothing, draw |-> FALSE]
        ELSE Considers(after[n-1], rows[n])
  IN  after[Len(rows)]

EvalResult(rows) ==
  LET s == Search(rows)
  IN  IF rows = <<>> THEN Says("NO_BIDS") ELSE IF s.draw THEN Says("DRAW") ELSE Names(s.winner)

\* Mutant: eval does not wait for the auction to be closed.
MutantEvalsOpen(a) ==
  IF ~Exists(a) THEN Refused(a, "AUCTION_ALREADY_EXISTS")
  ELSE Tx(a, EvalResult(Rows(a)), {<<k, ledger[k].ver>> : k \in RowKeys(a)}, {}, Nothing)

auction_eval(a) ==
  IF ~Exists(a) THEN Refused(a, "AUCTION_ALREADY_EXISTS")
  ELSE IF IsOpen(a) THEN Refused(a, "AUCTION_ALREADY_CLOSED")
  ELSE Tx(a, EvalResult(Rows(a)), {<<k, ledger[k].ver>> : k \in RowKeys(a)}, {}, Nothing)

----------------------------------------------------------------------------

Endorse(t) ==
  /\ Cardinality(pool) < MaxPool /\ height < MaxHeight
  /\ pool' = pool \cup {t}
  /\ UNCHANGED <<height, ledger, offers, outcome>>

\* Mutant: the peer does not compare the version of what a transaction read.
MutantStaleReads(t) ==
  t.rows # Nothing => t.rows = {<<k, ledger[k].ver>> : k \in RowKeys(t.auction)}

\* The peer's validation: the read and the range query still give the same.
Unchanged(t) ==
  /\ t.read = ledger[AuctionKey(t.auction)].ver
  /\ t.rows # Nothing => t.rows = {<<k, ledger[k].ver>> : k \in RowKeys(t.auction)}

\* Mutant: the version of a write is that of the next block.
MutantNextVersion(t) ==
  /\ ledger' = [k \in Key |-> IF \E w \in t.writes : w[1] = k
                              THEN [val |-> (CHOOSE w \in t.writes : w[1] = k)[2],
                                    ver |-> height + 2]
                              ELSE ledger[k]]
  /\ UNCHANGED <<offers, outcome>>

Apply(t) ==
  /\ ledger' = [k \in Key |-> IF \E w \in t.writes : w[1] = k
                              THEN [val |-> (CHOOSE w \in t.writes : w[1] = k)[2],
                                    ver |-> height + 1]
                              ELSE ledger[k]]
  /\ offers' = IF t.bidder = Nothing THEN offers
               ELSE [offers EXCEPT ![t.auction][t.bidder] =
                       (CHOOSE w \in t.writes : TRUE)[2].value]
  /\ outcome' = IF t.rows = Nothing THEN outcome
                ELSE [outcome EXCEPT ![t.auction] = t.result]

Commit(t) ==
  /\ t \in pool /\ height < MaxHeight
  /\ pool' = pool \ {t}
  /\ height' = height + 1
  /\ IF Unchanged(t) THEN Apply(t) ELSE UNCHANGED <<ledger, offers, outcome>>

Next ==
  \/ \E a \in Auctions :
       \/ Endorse(auction_create(a)) \/ Endorse(auction_close(a)) \/ Endorse(auction_eval(a))
       \/ \E b \in Bidders, v \in Values : Endorse(auction_submit(a, b, v))
  \/ \E t \in pool : Commit(t)

Spec == Init /\ [][Next]_vars

----------------------------------------------------------------------------
(* Properties *)

\* An auction's record is "open" or "closed" and a bid's a bid; no version is
\* newer than the chain; a transaction writes keys of the auction chaincode.
TypeOK ==
  /\ height \in 0..MaxHeight
  /\ \A k \in Key :
       /\ ledger[k].ver \in 0..height
       /\ (ledger[k].ver = 0) = (ledger[k].val = Nothing)
       /\ ledger[k].ver # 0 =>
            ledger[k].val \in IF k[1] = "auction" THEN {"open", "closed"} ELSE Bid
  /\ Cardinality(pool) <= MaxPool
  /\ \A t \in pool : t.auction \in Auctions /\ \A w \in t.writes : w[1] \in Key

\* auction_submit checks is_open when it is endorsed, long before it is
\* committed: still no bid of a closed auction is added or replaced.
BidsFrozenOnceClosed ==
  [][\A a \in Auctions :
       ledger[AuctionKey(a)].val = "closed" => offers'[a] = offers[a]]_vars

\* auction_create and auction_close race: an auction is created once and
\* closed once, and a closed one is never reopened.  (This is part of
\* AppliesCallsAtomically, and needs no assumption on names and values.)
AuctionsOnlyAdvance ==
  [][\A a \in Auctions :
       LET old == ledger[AuctionKey(a)] new == ledger'[AuctionKey(a)]
       IN  new # old => <<old.val, new.val>> \in {<<Nothing, "open">>, <<"open", "closed">>}]_vars

\* What auction_eval promises ("get all bids", "search highest bid"): the
\* bid above all others, DRAW when the highest value was offered twice.
HighestBid(bids) ==
  LET placed == {b \in DOMAIN bids : bids[b] # Nothing}
      top == {b \in placed : \A c \in placed : bids[c] <= bids[b]}
  IN  IF placed = {} THEN Says("NO_BIDS")
      ELSE IF Cardinality(top) > 1 THEN Says("DRAW")
      ELSE LET b == CHOOSE b \in top : TRUE IN Names([bidder |-> b, value |-> bids[b]])

\* No auction's name continues another's: a range query of one returns none of
\* the bids of another.
NamesApart(names) ==
  \A a, c \in names, b \in Bidders : Continues(c \o b, a) => a = c

\* Every committed eval names the highest of all bids committed to its
\* auction, now and for ever after, whatever was in flight when it ran.
EvalIsHighest ==
  \A a \in Auctions : outcome[a] # Nothing => outcome[a] = HighestBid(offers[a])

\* The calls that are committed behave as if each had run, whole, at the moment
\* of its commit: what create, submit, close and eval saw when they were endorsed
\* is then still so, or they have no effect.
Atomic == INSTANCE AtomicAuction
            WITH status <- [a \in Auctions |-> ledger[AuctionKey(a)].val], Winner <- HighestBid
AppliesCallsAtomically == Atomic!Spec
=============================================================================
