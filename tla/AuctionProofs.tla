--------------------------- MODULE AuctionProofs ---------------------------
(***************************************************************************)
(* Stale endorsements never reopen or refill an auction, for any auctions, *)
(* bidders, values and bounds; and eval names the highest of all bids, for *)
(* names that do not continue each other and values that are not negative. *)
(***************************************************************************)
EXTENDS Auction, FiniteSetTheorems, WellFoundedInduction, TLAPS

\* The version and the value of an auction's record belong together, and no
\* version is newer than the chain.
RecordsInv ==
  \A a \in Auctions :
    /\ ledger[AuctionKey(a)].ver \in 0..height
    /\ ledger[AuctionKey(a)].ver = 0 => ledger[AuctionKey(a)].val = Nothing

\* A record may go from absent to open and from open to closed.
Advance(old, new) == <<old, new>> \in {<<Nothing, "open">>, <<"open", "closed">>}

\* What the chaincode checked still holds of a waiting transaction as long as
\* the record it read has the version it read.
StillHolds(t) ==
  t.read = ledger[AuctionKey(t.auction)].ver =>
    /\ \A w \in t.writes :
         w[1] = AuctionKey(t.auction) => Advance(ledger[AuctionKey(t.auction)].val, w[2])
    /\ t.bidder # Nothing => IsOpen(t.auction)

\* A transaction writes no record but that of its own auction, and has read a
\* version of the past.
TxInv(t) ==
  /\ t.auction \in Auctions /\ t.read \in 0..height
  /\ \A a \in Auctions, w \in t.writes : w[1] = AuctionKey(a) => a = t.auction
  /\ StillHolds(t)

\* The inductive invariant.
AuctionInv ==
  /\ height \in Nat
  /\ DOMAIN offers = Auctions
  /\ RecordsInv
  /\ \A t \in pool : TxInv(t)

----------------------------------------------------------------------------

\* The records of auctions are keys, apart from each other and from bids.
LEMMA KeysApart ==
  /\ \A a \in Auctions : AuctionKey(a) \in Key
  /\ \A a, c : AuctionKey(a) = AuctionKey(c) => a = c
  /\ \A a, c, b : AuctionKey(a) # BidKey(c, b)
BY DEF AuctionKey, BidKey, Key

\* The chaincode starts with no records and nothing in flight.
LEMMA InitAuction == Init => AuctionInv
BY KeysApart DEF Init, AuctionInv, RecordsInv

\* A call that refuses makes a transaction without effect.
LEMMA RefusedTx ==
  ASSUME AuctionInv, NEW a \in Auctions, NEW word
  PROVE  TxInv(Refused(a, word))
BY DEF AuctionInv, RecordsInv, TxInv, StillHolds, Refused, Tx

\* auction_create writes the record of an auction that does not exist.
LEMMA CreateTx ==
  ASSUME AuctionInv, NEW a \in Auctions
  PROVE  TxInv(auction_create(a))
<1>1. CASE Exists(a)
  BY <1>1, RefusedTx DEF auction_create
<1>2. CASE ~Exists(a)
  <2>1. auction_create(a) = Tx(a, Says("OK"), Nothing, {<<AuctionKey(a), "open">>}, Nothing)
    BY <1>2 DEF auction_create
  <2> QED
    BY <1>2, <2>1, KeysApart
    DEF AuctionInv, RecordsInv, TxInv, StillHolds, Advance, Tx, Exists
<1> QED
  BY <1>1, <1>2

\* auction_close moves the record from open to closed.
LEMMA CloseTx ==
  ASSUME AuctionInv, NEW a \in Auctions
  PROVE  TxInv(auction_close(a))
<1>1. CASE ~Exists(a) \/ ~IsOpen(a)
  BY <1>1, RefusedTx DEF auction_close
<1>2. CASE Exists(a) /\ IsOpen(a)
  <2>1. auction_close(a) = Tx(a, Says("OK"), Nothing, {<<AuctionKey(a), "closed">>}, Nothing)
    BY <1>2 DEF auction_close
  <2> QED
    BY <1>2, <2>1, KeysApart
    DEF AuctionInv, RecordsInv, TxInv, StillHolds, Advance, Tx, IsOpen
<1> QED
  BY <1>1, <1>2

\* auction_submit writes a bid of an auction that is open.
LEMMA SubmitTx ==
  ASSUME AuctionInv, NEW a \in Auctions, NEW b, NEW v
  PROVE  TxInv(auction_submit(a, b, v))
<1>1. CASE ~Exists(a) \/ ~IsOpen(a)
  BY <1>1, RefusedTx DEF auction_submit
<1>2. CASE Exists(a) /\ IsOpen(a)
  <2> DEFINE bid == [bidder |-> b, value |-> v]
  <2> HIDE DEF bid
  <2>1. auction_submit(a, b, v) = Tx(a, Says("OK"), Nothing, {<<BidKey(a, b), bid>>}, b)
    BY <1>2 DEF auction_submit, bid
  <2> QED
    BY <1>2, <2>1, KeysApart DEF AuctionInv, RecordsInv, TxInv, StillHolds, Tx, IsOpen
<1> QED
  BY <1>1, <1>2

\* auction_eval writes nothing.
LEMMA EvalTx ==
  ASSUME AuctionInv, NEW a \in Auctions
  PROVE  TxInv(auction_eval(a))
BY RefusedTx, Zenon DEF AuctionInv, RecordsInv, TxInv, StillHolds, auction_eval, Tx

----------------------------------------------------------------------------

\* Endorse keeps the invariant: nothing is committed.
LEMMA EndorseStep ==
  ASSUME AuctionInv, NEW t, TxInv(t), Endorse(t)
  PROVE  AuctionInv'
BY DEF AuctionInv, RecordsInv, TxInv, StillHolds, Endorse, IsOpen

\* Commit keeps each record, or moves it to the version of the new block and
\* one state on; offers change only for an auction that is open.
LEMMA CommitEffect ==
  ASSUME AuctionInv, NEW t \in pool, Commit(t), NEW a \in Auctions
  PROVE  /\ \/ ledger'[AuctionKey(a)] = ledger[AuctionKey(a)]
            \/ /\ Advance(ledger[AuctionKey(a)].val, ledger'[AuctionKey(a)].val)
               /\ ledger'[AuctionKey(a)].ver = height + 1
         /\ offers'[a] = offers[a] \/ IsOpen(a)
         /\ DOMAIN offers' = Auctions
<1> DEFINE k == AuctionKey(a)
<1>1. CASE ~Unchanged(t)
  BY <1>1 DEF Commit, AuctionInv
<1>2. CASE Unchanged(t)
  <2>1. TxInv(t) /\ t.read = ledger[AuctionKey(t.auction)].ver /\ Apply(t)
    BY <1>2 DEF AuctionInv, Commit, Unchanged
  <2>2. \/ ledger'[k] = ledger[k]
        \/ Advance(ledger[k].val, ledger'[k].val) /\ ledger'[k].ver = height + 1
    <3>1. CASE \E w \in t.writes : w[1] = k
      <4> DEFINE w == CHOOSE w \in t.writes : w[1] = k
      <4>1. w \in t.writes /\ w[1] = k
        BY <3>1
      <4>2. a = t.auction
        BY <2>1, <4>1 DEF TxInv
      <4>3. ledger'[k] = [val |-> w[2], ver |-> height + 1]
        BY <2>1, <3>1, KeysApart DEF Apply
      <4>4. Advance(ledger[k].val, w[2])
        <5> HIDE DEF w
        <5> QED
          BY <2>1, <4>1, <4>2 DEF TxInv, StillHolds
      <4> HIDE DEF w
      <4> QED
        BY <4>3, <4>4
    <3>2. CASE ~\E w \in t.writes : w[1] = k
      BY <2>1, <3>2, KeysApart DEF Apply
    <3> QED
      BY <3>1, <3>2
  <2>3. DOMAIN offers' = Auctions /\ (offers'[a] = offers[a] \/ a = t.auction)
    BY <2>1 DEF Apply, AuctionInv
  <2>4. offers'[a] = offers[a] \/ t.bidder # Nothing
    BY <2>1 DEF Apply
  <2>5. t.bidder # Nothing => IsOpen(t.auction)
    BY <2>1 DEF TxInv, StillHolds
  <2> QED
    BY <2>2, <2>3, <2>4, <2>5
<1> QED
  BY <1>1, <1>2

\* Commit keeps the invariant: a transaction whose record has moved on has read
\* a version that is now of the past.
LEMMA CommitStep ==
  ASSUME AuctionInv, NEW t \in pool, Commit(t)
  PROVE  AuctionInv'
<1>1. height' = height + 1 /\ height \in Nat /\ pool' \subseteq pool
  BY DEF Commit, AuctionInv
<1>2. DOMAIN offers' = Auctions
  <2>1. TxInv(t)
    BY DEF AuctionInv
  <2> QED
    BY <2>1, CommitEffect DEF TxInv
<1>3. RecordsInv'
  <2> SUFFICES ASSUME NEW a \in Auctions
               PROVE  /\ ledger'[AuctionKey(a)].ver \in 0..(height + 1)
                      /\ ledger'[AuctionKey(a)].ver = 0 => ledger'[AuctionKey(a)].val = Nothing
    BY <1>1, Zenon DEF RecordsInv, AuctionKey
  <2> QED
    BY <1>1, CommitEffect DEF AuctionInv, RecordsInv
<1>4. ASSUME NEW u \in pool'
      PROVE  TxInv(u)'
  <2>1. TxInv(u) /\ u.auction \in Auctions
    BY <1>1, <1>4 DEF AuctionInv, TxInv
  <2> DEFINE k == AuctionKey(u.auction)
  <2>2. CASE ledger'[k] = ledger[k]
    BY <1>1, <2>1, <2>2 DEF TxInv, StillHolds, IsOpen, AuctionKey
  <2>3. CASE ledger'[k].ver = height + 1
    BY <1>1, <2>1, <2>3 DEF TxInv, StillHolds, AuctionKey
  <2> QED
    BY <2>1, <2>2, <2>3, CommitEffect
<1> QED
  BY <1>1, <1>2, <1>3, <1>4 DEF AuctionInv

\* Every step of the pipeline keeps the invariant.
LEMMA NextAuction == AuctionInv /\ [Next]_vars => AuctionInv'
<1> SUFFICES ASSUME AuctionInv, [Next]_vars
             PROVE  AuctionInv'
  OBVIOUS
<1>1. CASE UNCHANGED vars
  BY <1>1 DEF vars, AuctionInv, RecordsInv, TxInv, StillHolds, IsOpen
<1>2. ASSUME NEW a \in Auctions,
             \/ Endorse(auction_create(a)) \/ Endorse(auction_close(a))
             \/ Endorse(auction_eval(a))
             \/ \E b \in Bidders, v \in Values : Endorse(auction_submit(a, b, v))
      PROVE  AuctionInv'
  BY <1>2, CreateTx, CloseTx, EvalTx, SubmitTx, EndorseStep
<1>3. ASSUME NEW t \in pool, Commit(t)
      PROVE  AuctionInv'
  BY <1>3, CommitStep
<1> QED
  BY <1>1, <1>2, <1>3 DEF Next

----------------------------------------------------------------------------

\* A step leaves ledger and offers alone, or commits a transaction.
LEMMA StepEffect ==
  [Next]_vars => UNCHANGED <<ledger, offers>> \/ \E t \in pool : Commit(t)
BY DEF Next, vars, Endorse

\* auction_submit checks is_open at its endorsement: no bid is added to a closed
\* auction, or replaced in it, by whatever was in flight when it was closed.
THEOREM ClosedAuctionsKeepTheirBids == Spec => BidsFrozenOnceClosed
<1>1. ASSUME AuctionInv, [Next]_vars
      PROVE  [\A a \in Auctions :
                ledger[AuctionKey(a)].val = "closed" => offers'[a] = offers[a]]_vars
  BY <1>1, StepEffect, CommitEffect DEF IsOpen
<1> QED
  BY <1>1, InitAuction, NextAuction, PTL DEF Spec, BidsFrozenOnceClosed

\* auction_create and auction_close look at the record when they are endorsed:
\* however they race, a record goes from absent to open to closed.
THEOREM RecordsOnlyAdvance == Spec => AuctionsOnlyAdvance
<1>1. ASSUME AuctionInv, [Next]_vars
      PROVE  [\A a \in Auctions :
                LET old == ledger[AuctionKey(a)] new == ledger'[AuctionKey(a)]
                IN  new # old =>
                      <<old.val, new.val>> \in {<<Nothing, "open">>, <<"open", "closed">>}]_vars
  BY <1>1, StepEffect, CommitEffect DEF Advance
<1> QED
  BY <1>1, InitAuction, NextAuction, PTL DEF Spec, AuctionsOnlyAdvance

----------------------------------------------------------------------------
(***************************************************************************)
(* Types.                                                                  *)
(***************************************************************************)

ValuesOf(k) == IF k[1] = "auction" THEN {"open", "closed"} ELSE Bid

\* A transaction writes keys of the chaincode, with values of their kind.
TxWrites(t) == \A w \in t.writes : w[1] \in Key /\ w[2] \in ValuesOf(w[1])

\* TypeOK with what the waiting transactions are about to write.
TypeInv ==
  /\ TypeOK
  /\ IsFiniteSet(pool)
  /\ \A t \in pool : TxWrites(t)

\* The chaincode's keys are of two kinds.
LEMMA KeyKinds ==
  /\ \A a \in Auctions : AuctionKey(a)[1] = "auction" /\ AuctionKey(a) \in Key
  /\ \A a \in Auctions, b \in Bidders : BidKey(a, b)[1] = "bid" /\ BidKey(a, b) \in Key
BY DEF AuctionKey, BidKey, Key

\* At the start nothing is stored and nothing waits.
LEMMA InitTypes == Init => TypeInv
<1> SUFFICES ASSUME Init PROVE TypeInv
  OBVIOUS
<1>1. Cardinality(pool) = 0 /\ IsFiniteSet(pool)
  BY FS_EmptySet DEF Init
<1> QED BY <1>1, AuctionAssumption DEF Init, TypeInv, TypeOK

\* A call that refuses writes nothing.
LEMMA RefusedWrites ==
  ASSUME NEW a \in Auctions, NEW word
  PROVE  Refused(a, word).auction = a /\ TxWrites(Refused(a, word))
BY DEF Refused, Tx, TxWrites

\* auction_create and auction_close write the record of their auction,
\* auction_submit a bid, and auction_eval nothing.
LEMMA CallWrites ==
  ASSUME NEW a \in Auctions
  PROVE  /\ auction_create(a).auction = a /\ TxWrites(auction_create(a))
         /\ auction_close(a).auction = a /\ TxWrites(auction_close(a))
         /\ auction_eval(a).auction = a /\ TxWrites(auction_eval(a))
         /\ \A b \in Bidders, v \in Values :
              auction_submit(a, b, v).auction = a /\ TxWrites(auction_submit(a, b, v))
<1>1. ASSUME NEW result, NEW rows, NEW k \in Key, NEW x \in ValuesOf(k), NEW bidder
      PROVE  /\ Tx(a, result, rows, {<<k, x>>}, bidder).auction = a
             /\ TxWrites(Tx(a, result, rows, {<<k, x>>}, bidder))
  BY <1>1 DEF Tx, TxWrites
<1>2. "open" \in ValuesOf(AuctionKey(a)) /\ "closed" \in ValuesOf(AuctionKey(a))
  BY KeyKinds DEF ValuesOf
<1>3. ASSUME NEW b \in Bidders, NEW v \in Values
      PROVE  [bidder |-> b, value |-> v] \in ValuesOf(BidKey(a, b))
  BY KeyKinds, Zenon DEF ValuesOf, Bid
<1>4. auction_create(a).auction = a /\ TxWrites(auction_create(a))
  BY <1>1, <1>2, RefusedWrites, KeyKinds DEF auction_create
<1>5. auction_close(a).auction = a /\ TxWrites(auction_close(a))
  BY <1>1, <1>2, RefusedWrites, KeyKinds DEF auction_close
<1>6. auction_eval(a).auction = a /\ TxWrites(auction_eval(a))
  <2>1. ASSUME NEW result, NEW rows
        PROVE  /\ Tx(a, result, rows, {}, Nothing).auction = a
               /\ TxWrites(Tx(a, result, rows, {}, Nothing))
    BY DEF Tx, TxWrites
  <2> QED BY <2>1, RefusedWrites, Zenon DEF auction_eval
<1>7. ASSUME NEW b \in Bidders, NEW v \in Values
      PROVE  auction_submit(a, b, v).auction = a /\ TxWrites(auction_submit(a, b, v))
  <2> DEFINE bid == [bidder |-> b, value |-> v]
             t == Tx(a, Says("OK"), Nothing, {<<BidKey(a, b), bid>>}, b)
  <2>1. bid \in ValuesOf(BidKey(a, b)) /\ BidKey(a, b) \in Key
    BY <1>3, KeyKinds
  <2>2. \/ auction_submit(a, b, v) = t
        \/ \E word : auction_submit(a, b, v) = Refused(a, word)
    BY DEF auction_submit
  <2> HIDE DEF bid
  <2>3. t.auction = a /\ TxWrites(t)
    BY <1>1, <2>1
  <2> HIDE DEF t
  <2> QED BY <2>2, <2>3, RefusedWrites
<1> QED BY <1>4, <1>5, <1>6, <1>7

\* Endorse adds one transaction to the pool.
LEMMA EndorseTypes ==
  ASSUME TypeInv, NEW t, t.auction \in Auctions, TxWrites(t), Endorse(t)
  PROVE  TypeInv'
<1>1. IsFiniteSet(pool') /\ Cardinality(pool') <= MaxPool
  <2>1. IsFiniteSet(pool) /\ Cardinality(pool) < MaxPool /\ pool' = pool \cup {t}
    BY DEF TypeInv, Endorse
  <2>2. Cardinality(pool) \in Nat
    BY <2>1, FS_CardinalityType
  <2>3. IsFiniteSet(pool \cup {t})
        /\ Cardinality(pool \cup {t}) \in {Cardinality(pool), Cardinality(pool) + 1}
    BY <2>1, FS_AddElement
  <2> QED BY <2>1, <2>2, <2>3, AuctionAssumption
<1>2. \A u \in pool' : u.auction \in Auctions /\ TxWrites(u)
  BY DEF TypeInv, TypeOK, Endorse
<1>3. UNCHANGED <<height, ledger>>
  BY DEF Endorse
<1>4. TypeOK'
  BY <1>1, <1>2, <1>3, Zenon DEF TypeInv, TypeOK, TxWrites
<1> QED BY <1>1, <1>2, <1>4 DEF TypeInv, TxWrites

\* Commit replaces an entry by what the transaction writes to it, or keeps it.
LEMMA CommitEntry ==
  ASSUME TypeInv, NEW t \in pool, Commit(t), NEW k \in Key
  PROVE  \/ /\ ledger'[k] = ledger[k]
            /\ Unchanged(t) => ~ \E w \in t.writes : w[1] = k
         \/ /\ Unchanged(t)
            /\ \E w \in t.writes :
                 w[1] = k /\ ledger'[k] = [val |-> w[2], ver |-> height + 1]
<1>1. CASE ~Unchanged(t)
  BY <1>1, Zenon DEF Commit
<1>2. CASE Unchanged(t)
  <2>1. Apply(t)
    BY <1>2 DEF Commit
  <2>2. CASE ~ \E w \in t.writes : w[1] = k
    BY <2>1, <2>2 DEF Apply
  <2>3. CASE \E w \in t.writes : w[1] = k
    <3> DEFINE w == CHOOSE x \in t.writes : x[1] = k
    <3>1. w \in t.writes /\ w[1] = k
      BY <2>3
    <3>2. ledger'[k] = [val |-> w[2], ver |-> height + 1]
      BY <2>1, <2>3 DEF Apply
    <3> HIDE DEF w
    <3> QED BY <1>2, <3>1, <3>2
  <2> QED BY <2>2, <2>3
<1> QED BY <1>1, <1>2

\* Commit gives what it writes the version of the new block.
LEMMA CommitTypes ==
  ASSUME TypeInv, NEW t \in pool, Commit(t)
  PROVE  TypeInv'
<1>1. pool' = pool \ {t} /\ height' = height + 1 /\ height < MaxHeight
  BY DEF Commit
<1>2. height \in Nat /\ height' \in 0..MaxHeight
  BY <1>1, AuctionAssumption DEF TypeInv, TypeOK
<1>3. IsFiniteSet(pool') /\ Cardinality(pool') <= MaxPool
  <2>1. IsFiniteSet(pool) /\ Cardinality(pool) <= MaxPool
    BY DEF TypeInv, TypeOK
  <2>2. Cardinality(pool) \in Nat /\ Cardinality(pool') \in Nat /\ IsFiniteSet(pool')
        /\ Cardinality(pool') <= Cardinality(pool)
    BY <1>1, <2>1, FS_CardinalityType, FS_Subset
  <2> QED BY <2>1, <2>2, AuctionAssumption
<1>4. \A u \in pool' : u.auction \in Auctions /\ TxWrites(u)
  BY <1>1 DEF TypeInv, TypeOK
<1>5. ASSUME NEW k \in Key
      PROVE  /\ ledger'[k].ver \in 0..height'
             /\ (ledger'[k].ver = 0) = (ledger'[k].val = Nothing)
             /\ ledger'[k].ver # 0 => ledger'[k].val \in ValuesOf(k)
  <2>1. /\ ledger[k].ver \in 0..height
        /\ (ledger[k].ver = 0) = (ledger[k].val = Nothing)
        /\ ledger[k].ver # 0 => ledger[k].val \in ValuesOf(k)
    BY Zenon DEF TypeInv, TypeOK, ValuesOf
  <2>2. CASE ledger'[k] = ledger[k]
    BY <1>1, <1>2, <2>1, <2>2
  <2>3. ASSUME NEW w \in t.writes, w[1] = k,
               ledger'[k] = [val |-> w[2], ver |-> height + 1]
        PROVE  /\ ledger'[k].ver = height + 1 /\ ledger'[k].val \in ValuesOf(k)
               /\ ledger'[k].val # Nothing
    <3>1. w[2] \in ValuesOf(k)
      BY <2>3, Zenon DEF TypeInv, TxWrites
    <3>2. w[2] # Nothing
      BY <3>1, AuctionAssumption DEF ValuesOf
    <3> QED BY <2>3, <3>1, <3>2
  <2>4. CASE ledger'[k].ver = height + 1 /\ ledger'[k].val \in ValuesOf(k)
             /\ ledger'[k].val # Nothing
    BY <1>1, <1>2, <2>4
  <2> QED BY <2>2, <2>3, <2>4, CommitEntry, Zenon
<1>6. TypeOK'
  BY <1>2, <1>3, <1>4, <1>5 DEF TypeOK, TxWrites, ValuesOf
<1> QED BY <1>3, <1>4, <1>6 DEF TypeInv, TxWrites

\* Every step keeps the types.
LEMMA NextTypes == TypeInv /\ [Next]_vars => TypeInv'
<1> SUFFICES ASSUME TypeInv, [Next]_vars
             PROVE  TypeInv'
  OBVIOUS
<1>1. CASE UNCHANGED vars
  BY <1>1, Zenon DEF vars, TypeInv, TypeOK, TxWrites
<1>2. ASSUME NEW a \in Auctions,
             Endorse(auction_create(a)) \/ Endorse(auction_close(a)) \/ Endorse(auction_eval(a))
      PROVE  TypeInv'
  <2>1. ASSUME NEW t, t.auction = a, TxWrites(t), Endorse(t) PROVE TypeInv'
    BY <2>1, EndorseTypes
  <2> QED BY <1>2, <2>1, CallWrites
<1>3. ASSUME NEW a \in Auctions, NEW b \in Bidders, NEW v \in Values,
             Endorse(auction_submit(a, b, v))
      PROVE  TypeInv'
  BY <1>3, CallWrites, EndorseTypes
<1>4. ASSUME NEW t \in pool, Commit(t)
      PROVE  TypeInv'
  BY <1>4, CommitTypes
<1> QED BY <1>1, <1>2, <1>3, <1>4 DEF Next

\* The chaincode's records are open or closed and its bids are bids, versions are
\* those of committed blocks, and transactions write keys of the chaincode.
THEOREM AuctionTypes == Spec => []TypeOK
<1>1. TypeInv => TypeOK
  BY DEF TypeInv
<1> QED BY <1>1, InitTypes, NextTypes, PTL DEF Spec

----------------------------------------------------------------------------
(***************************************************************************)
(* Induction, by way of the least element of a set of numbers.             *)
(***************************************************************************)

Smaller == {p \in Nat \X Nat : p[1] < p[2]}

\* The order of the natural numbers has no infinite descent, so that a loop
\* over the elements of a sequence ends.
LEMMA SmallerWF == IsWellFoundedOn(Smaller, Nat)
BY NatLessThanWellFounded DEF OpToRel, Smaller, IsWellFoundedOn

\* A set that holds 0 and with every number its successor holds them all: what
\* a loop establishes and each turn keeps holds after any number of turns.
LEMMA NatSets ==
  ASSUME NEW S, 0 \in S, \A n \in Nat : n \in S => n + 1 \in S
  PROVE  Nat \subseteq S
<1> DEFINE T == Nat \ S
<1>1. SUFFICES ASSUME T # {} PROVE FALSE
  OBVIOUS
<1>2. PICK x \in T : \A y \in T : ~ (<<y, x>> \in Smaller)
  BY <1>1, WFMin, SmallerWF
<1>3. x - 1 \in Nat /\ x - 1 \in T
  BY <1>2
<1>4. <<x - 1, x>> \in Smaller
  BY <1>2, <1>3 DEF Smaller
<1> QED BY <1>2, <1>3, <1>4

\* The turns of a loop, each of which turns a state into a state, and its runs.
Turns(L, St) == [(1..L) \X St -> St]

Runs(L, St, base, step) ==
  {f \in [0..L -> St] : f[0] = base /\ \A i \in 1..L : f[i] = step[<<i, f[i-1]>>]}

\* A loop of L turns has a run.
LEMMA Iterates ==
  ASSUME NEW St, NEW base \in St, NEW L \in Nat, NEW step \in Turns(L, St)
  PROVE  \E f : f \in Runs(L, St, base, step)
<1> DEFINE Run(f, m) ==
             /\ f \in [0..m -> St] /\ f[0] = base
             /\ \A i \in 1..m : f[i] = step[<<i, f[i-1]>>]
           Good == {m \in Nat : m <= L => \E f : Run(f, m)}
<1>1. 0 \in Good
  <2>1. Run([i \in 0..0 |-> base], 0)
    OBVIOUS
  <2> QED BY <2>1
<1>2. ASSUME NEW m \in Nat, m \in Good PROVE m + 1 \in Good
  <2>1. ASSUME m + 1 <= L PROVE \E f : Run(f, m + 1)
    <3>1. PICK f : Run(f, m)
      BY <1>2, <2>1
    <3> DEFINE new == step[<<m + 1, f[m]>>]
               h == [i \in 0..(m+1) |-> IF i <= m THEN f[i] ELSE new]
    <3>2. new \in St
      <4>1. f[m] \in St /\ m + 1 \in 1..L
        BY <2>1, <3>1
      <4> QED BY <4>1 DEF Turns
    <3> HIDE DEF new
    <3>3. h \in [0..(m+1) -> St] /\ h[0] = base
      BY <3>1, <3>2
    <3>4. ASSUME NEW i \in 1..(m+1) PROVE h[i] = step[<<i, h[i-1]>>]
      <4>1. CASE i <= m
        BY <3>1, <4>1
      <4>2. CASE i = m + 1
        <5>1. i - 1 = m /\ h[i] = new /\ h[m] = f[m]
          BY <4>2
        <5> HIDE DEF h
        <5> QED BY <4>2, <5>1 DEF new
      <4> QED BY <4>1, <4>2
    <3> HIDE DEF h
    <3>5. Run(h, m + 1)
      BY <3>3, <3>4
    <3> QED BY <3>5
  <2> QED BY <2>1
<1>3. Nat \subseteq Good
  <2> HIDE DEF Good
  <2> QED BY <1>1, <1>2, NatSets
<1>4. PICK f : Run(f, L)
  BY <1>3
<1> QED BY <1>4 DEF Runs

----------------------------------------------------------------------------
(***************************************************************************)
(* The loop of auction_eval.                                               *)
(***************************************************************************)

\* The states of the search, and the start of it.
SearchState == [high : Int, winner : Bid \cup {Nothing}, draw : BOOLEAN]

Start == [high |-> -1, winner |-> Nothing, draw |-> FALSE]

\* One bid turns a state of the search into another.
LEMMA ConsidersType ==
  ASSUME NEW s \in SearchState, NEW bid \in Bid
  PROVE  Considers(s, bid) \in SearchState
<1>1. bid.value \in Int
  BY AuctionAssumption, Zenon DEF Bid
<1>2. CASE bid.value > s.high
  BY <1>1, <1>2 DEF SearchState, Considers
<1>3. CASE ~(bid.value > s.high) /\ bid.value = s.high
  BY <1>1, <1>3, Zenon DEF SearchState, Considers
<1>4. CASE ~(bid.value > s.high) /\ bid.value # s.high
  BY <1>1, <1>4 DEF SearchState, Considers
<1> QED BY <1>2, <1>3, <1>4

\* The search considers the rows one after the other.
LEMMA SearchSteps ==
  ASSUME NEW rows \in Seq(Bid)
  PROVE  \E after \in [0..Len(rows) -> SearchState] :
           /\ after[0] = Start /\ Search(rows) = after[Len(rows)]
           /\ \A n \in 1..Len(rows) : after[n] = Considers(after[n-1], rows[n])
<1> DEFINE L == Len(rows)
           step == [x \in (1..L) \X SearchState |-> Considers(x[2], rows[x[1]])]
           Full(f) == f = [n \in 0..L |-> IF n = 0 THEN Start ELSE Considers(f[n-1], rows[n])]
           a == CHOOSE f : Full(f)
<1>1. L \in Nat /\ Start \in SearchState
  BY DEF Start, SearchState
<1>2. step \in Turns(L, SearchState)
  <2>1. ASSUME NEW x \in (1..L) \X SearchState
        PROVE  Considers(x[2], rows[x[1]]) \in SearchState
    <3>1. x[2] \in SearchState /\ rows[x[1]] \in Bid
      OBVIOUS
    <3> QED BY <3>1, ConsidersType
  <2> QED BY <2>1 DEF Turns
<1>3. PICK f : f \in Runs(L, SearchState, Start, step)
  BY <1>1, <1>2, Iterates, Zenon
<1>4. f \in [0..L -> SearchState] /\ f[0] = Start /\ \A i \in 1..L : f[i] = step[<<i, f[i-1]>>]
  BY <1>3, Zenon DEF Runs
<1>5. ASSUME NEW i \in 1..L PROVE f[i] = Considers(f[i-1], rows[i])
  <2>1. i - 1 \in 0..L /\ f[i-1] \in SearchState
    BY <1>1, <1>4
  <2> QED BY <1>4, <2>1
<1>6. Full(f)
  <2> DEFINE F == [n \in 0..L |-> IF n = 0 THEN Start ELSE Considers(f[n-1], rows[n])]
  <2>1. ASSUME NEW n \in 0..L PROVE f[n] = F[n]
    <3>1. CASE n = 0
      BY <1>4, <3>1
    <3>2. CASE n \in 1..L
      BY <1>5, <3>2
    <3> QED BY <1>1, <3>1, <3>2
  <2>2. F = [n \in 0..L |-> F[n]] /\ f = [n \in 0..L |-> f[n]]
    BY <1>4, Zenon
  <2>3. f = F
    <3> HIDE DEF F, L
    <3> QED BY <2>1, <2>2
  <2> QED BY <2>3
<1>7. Full(a)
  <2> HIDE DEF Full
  <2> QED BY <1>6
<1>8. Search(rows) = a[L]
  BY Zenon DEF Search, Start
<1> HIDE DEF a
<1>9. a[0] = Start /\ \A n \in 1..L : a[n] = Considers(a[n-1], rows[n])
  BY <1>1, <1>7
<1>10. a \in [0..L -> SearchState]
  <2> DEFINE Typed == {m \in Nat : m <= L => a[m] \in SearchState}
  <2>1. 0 \in Typed
    BY <1>1, <1>9
  <2>2. ASSUME NEW m \in Nat, m \in Typed PROVE m + 1 \in Typed
    <3>1. ASSUME m + 1 <= L PROVE a[m+1] \in SearchState
      <4>1. m + 1 \in 1..L /\ (m + 1) - 1 = m /\ a[m] \in SearchState
        BY <1>1, <2>2, <3>1
      <4>2. a[m+1] = Considers(a[m], rows[m+1]) /\ rows[m+1] \in Bid
        BY <1>9, <4>1
      <4> QED BY <4>1, <4>2, ConsidersType, Zenon
    <3> QED BY <3>1
  <2>3. Nat \subseteq Typed
    <3> HIDE DEF Typed
    <3> QED BY <2>1, <2>2, NatSets
  <2>4. \A n \in 0..L : a[n] \in SearchState
    BY <1>1, <2>3
  <2>5. a = [n \in 0..L |-> a[n]]
    BY <1>7
  <2> QED BY <2>4, <2>5
<1> QED BY <1>8, <1>9, <1>10

\* What the search knows after n rows: high is the value of winner, the largest
\* so far, and draw tells whether another row has it too.
Found(s, rows, n) ==
  /\ \E i \in 1..n : s.winner = rows[i] /\ s.high = rows[i].value
  /\ \A i \in 1..n : rows[i].value <= s.high
  /\ s.draw <=> \E i, j \in 1..n : i # j /\ rows[i].value = s.high /\ rows[j].value = s.high

\* One more row.
LEMMA FoundStep ==
  ASSUME NEW rows \in Seq(Bid), NEW n \in Nat, n < Len(rows), NEW s \in SearchState,
         n = 0 => s = Start, n # 0 => Found(s, rows, n), Values \subseteq Nat
  PROVE  Found(Considers(s, rows[n+1]), rows, n + 1)
<1> DEFINE bid == rows[n+1]
           t == Considers(s, bid)
<1> SUFFICES Found(t, rows, n + 1)
  OBVIOUS
<1>1. ASSUME NEW i \in 1..(n+1) PROVE rows[i] \in Bid /\ rows[i].value \in Nat
  <2>1. rows[i] \in Bid
    OBVIOUS
  <2> QED BY <2>1, Zenon DEF Bid
<1>2. bid.value \in Nat /\ s.high \in Int /\ s.draw \in BOOLEAN
  BY <1>1 DEF SearchState
<1>3. \A i \in 1..n : rows[i].value <= s.high
  BY DEF Found
<1>4. CASE bid.value > s.high
  <2>1. t.high = bid.value /\ t.winner = bid /\ t.draw = FALSE
    BY <1>4 DEF Considers
  <2>2. \A i \in 1..n : rows[i].value < t.high
    BY <1>1, <1>2, <1>3, <1>4, <2>1
  <2>3. \A i \in 1..(n+1) : i \in 1..n \/ i = n + 1
    OBVIOUS
  <2> HIDE DEF t
  <2> QED BY SMTT(30), <1>1, <2>1, <2>2, <2>3 DEF Found
<1>5. CASE ~(bid.value > s.high)
  <2>1. n # 0 /\ Found(s, rows, n)
    BY <1>2, <1>5 DEF Start
  <2>2. t.high = s.high /\ t.winner = s.winner
        /\ (t.draw <=> s.draw \/ bid.value = s.high)
    BY <1>2, <1>5, Zenon DEF Considers, SearchState
  <2>3. PICK k \in 1..n : s.winner = rows[k] /\ s.high = rows[k].value
    BY <2>1, Zenon DEF Found
  <2>4. \A i \in 1..(n+1) : i \in 1..n \/ i = n + 1
    OBVIOUS
  <2>5. \A i \in 1..n : i \in 1..(n+1) /\ i # n + 1
    OBVIOUS
  <2>6. n + 1 \in 1..(n+1)
    OBVIOUS
  <2>7. bid.value <= s.high
    BY <1>2, <1>5
  <2> HIDE DEF t
  <2>8. t.draw <=> \E i, j \in 1..(n+1) :
                     i # j /\ rows[i].value = s.high /\ rows[j].value = s.high
    <3>1. s.draw <=> \E i, j \in 1..n :
                       i # j /\ rows[i].value = s.high /\ rows[j].value = s.high
      BY <2>1, Zenon DEF Found
    <3> QED BY <2>2, <2>3, <2>4, <2>5, <2>6, <3>1, Zenon
  <2>9. \A i \in 1..(n+1) : rows[i].value <= s.high
    BY <1>3, <2>4, <2>7, Zenon
  <2>10. \E i \in 1..(n+1) : t.winner = rows[i] /\ t.high = rows[i].value
    BY <2>2, <2>3, <2>5, Zenon
  <2> QED BY <2>2, <2>8, <2>9, <2>10, Zenon DEF Found
<1> QED BY <1>4, <1>5, Zenon

\* The loop of auction_eval finds a largest bid, and whether it is the only one.
LEMMA SearchFinds ==
  ASSUME NEW rows \in Seq(Bid), rows # <<>>, Values \subseteq Nat
  PROVE  Search(rows) \in SearchState /\ Found(Search(rows), rows, Len(rows))
<1> DEFINE L == Len(rows)
<1>1. PICK a \in [0..L -> SearchState] :
        /\ a[0] = Start /\ Search(rows) = a[L]
        /\ \A n \in 1..L : a[n] = Considers(a[n-1], rows[n])
  BY SearchSteps
<1> DEFINE Good == {n \in Nat : n # 0 /\ n <= L => Found(a[n], rows, n)}
<1>2. L \in Nat /\ L # 0
  OBVIOUS
<1>3. 0 \in Good
  OBVIOUS
<1>4. ASSUME NEW n \in Nat, n \in Good PROVE n + 1 \in Good
  <2>1. ASSUME n + 1 <= L PROVE Found(a[n+1], rows, n + 1)
    <3>1. n < L /\ n + 1 \in 1..L /\ n \in 0..L /\ (n + 1) - 1 = n
      BY <1>2, <2>1
    <3>2. a[n] \in SearchState /\ a[n+1] = Considers(a[n], rows[n+1])
      BY <1>1, <3>1, Zenon
    <3>3. (n = 0 => a[n] = Start) /\ (n # 0 => Found(a[n], rows, n))
      BY <1>1, <1>4, <3>1
    <3> QED BY <3>1, <3>2, <3>3, FoundStep, Zenon
  <2> QED BY <2>1
<1>5. Nat \subseteq Good
  <2> HIDE DEF Good
  <2> QED BY <1>3, <1>4, NatSets
<1>6. Found(a[L], rows, L)
  BY <1>2, <1>5
<1> QED BY <1>1, <1>2, <1>6

\* rows has each bid that was placed once.
Enumerates(rows, bids) ==
  /\ rows \in Seq(Bid)
  /\ \A i \in 1..Len(rows) : bids[rows[i].bidder] = rows[i].value
  /\ \A b \in Bidders : bids[b] # Nothing => \E i \in 1..Len(rows) : rows[i].bidder = b
  /\ \A i, j \in 1..Len(rows) : rows[i].bidder = rows[j].bidder => i = j

\* auction_eval returns the highest bid, DRAW or NO_BIDS, as it should, when the
\* rows are the bids.
LEMMA EvalFinds ==
  ASSUME NEW bids \in [Bidders -> Values \cup {Nothing}], NEW rows,
         Enumerates(rows, bids), Values \subseteq Nat
  PROVE  EvalResult(rows) = HighestBid(bids)
<1> DEFINE s == Search(rows)
           placed == {b \in DOMAIN bids : bids[b] # Nothing}
           top == {b \in placed : \A c \in placed : bids[c] <= bids[b]}
<1>1. rows \in Seq(Bid) /\ Len(rows) \in Nat /\ DOMAIN bids = Bidders
  BY DEF Enumerates
<1>2. ASSUME NEW i \in 1..Len(rows)
      PROVE  /\ rows[i] \in Bid /\ rows[i].value \in Nat /\ rows[i].bidder \in placed
             /\ bids[rows[i].bidder] = rows[i].value
             /\ rows[i] = [bidder |-> rows[i].bidder, value |-> rows[i].value]
  <2>1. rows[i] \in Bid
    BY <1>1
  <2>2. rows[i].value \in Values /\ rows[i].bidder \in Bidders
    BY <2>1, Zenon DEF Bid
  <2>3. bids[rows[i].bidder] = rows[i].value
    BY Zenon DEF Enumerates
  <2>4. rows[i] = [bidder |-> rows[i].bidder, value |-> rows[i].value]
    BY <2>1, Zenon DEF Bid
  <2> QED BY <1>1, <2>1, <2>2, <2>3, <2>4, AuctionAssumption, Zenon
<1>3. ASSUME NEW b \in placed PROVE \E i \in 1..Len(rows) : rows[i].bidder = b
  BY <1>1, Zenon DEF Enumerates
<1>4. CASE rows = <<>>
  <2>1. placed = {}
    BY <1>3, <1>4
  <2>2. HighestBid(bids) = Says("NO_BIDS")
    BY <2>1, Zenon DEF HighestBid
  <2> QED BY <1>4, <2>2, Zenon DEF EvalResult
<1>5. CASE rows # <<>>
  <2>1. s \in SearchState /\ Found(s, rows, Len(rows))
    BY <1>1, <1>5, SearchFinds, Zenon
  <2> HIDE DEF s
  <2>2. PICK k \in 1..Len(rows) : s.winner = rows[k] /\ s.high = rows[k].value
    BY <2>1, Zenon DEF Found
  <2>3. \A i \in 1..Len(rows) : rows[i].value <= rows[k].value
    BY <2>1, <2>2, Zenon DEF Found
  <2>4. placed # {}
    BY <1>2, <2>2, Zenon
  <2>5. ASSUME NEW i \in 1..Len(rows)
        PROVE  rows[i].bidder \in top <=> rows[i].value = rows[k].value
    <3>1. ASSUME rows[i].bidder \in top PROVE rows[i].value = rows[k].value
      <4>1. rows[k].value <= rows[i].value
        BY <1>2, <2>2, <3>1, Zenon
      <4>2. rows[i].value <= rows[k].value /\ rows[i].value \in Nat /\ rows[k].value \in Nat
        BY <1>2, <2>2, <2>3, Zenon
      <4> QED BY ONLY <4>1, <4>2
    <3>2. ASSUME rows[i].value = rows[k].value, NEW c \in placed
          PROVE  bids[c] <= bids[rows[i].bidder]
      <4>1. PICK j \in 1..Len(rows) : rows[j].bidder = c
        BY <1>3, <3>2, Zenon
      <4>2. bids[c] = rows[j].value /\ bids[rows[i].bidder] = rows[k].value
        BY <1>2, <3>2, <4>1, Zenon
      <4> QED BY <2>3, <4>2, Zenon
    <3> QED BY <1>2, <3>1, <3>2, Zenon
  <2>6. rows[k].bidder \in top
    BY <2>5, Zenon
  <2>7. IsFiniteSet(top)
    BY <1>1, AuctionAssumption, FS_Subset, Zenon
  <2>8. CASE s.draw
    <3>1. PICK i, j \in 1..Len(rows) :
            i # j /\ rows[i].value = s.high /\ rows[j].value = s.high
      BY <2>1, <2>8, Zenon DEF Found
    <3>2. rows[i].bidder \in top /\ rows[j].bidder \in top /\ rows[i].bidder # rows[j].bidder
      BY <2>2, <2>5, <3>1, Zenon DEF Enumerates
    <3> HIDE DEF top
    <3>3. Cardinality(top) \in Nat /\ Cardinality(top) # 0 /\ Cardinality(top) # 1
      BY <2>7, <3>2, FS_CardinalityType, FS_EmptySet, FS_Singleton
    <3>4. Cardinality(top) > 1
      BY <3>3
    <3>5. HighestBid(bids) = Says("DRAW")
      BY <2>4, <3>4, Zenon DEF HighestBid, top
    <3> QED BY <1>5, <2>8, <3>5, Zenon DEF EvalResult, s
  <2>9. CASE ~s.draw
    <3>1. top = {rows[k].bidder}
      <4>1. ASSUME NEW b \in top PROVE b = rows[k].bidder
        <5>1. PICK i \in 1..Len(rows) : rows[i].bidder = b
          BY <1>3, Zenon
        <5>2. rows[i].value = rows[k].value
          BY <2>5, <5>1, Zenon
        <5>3. i = k
          BY <2>1, <2>2, <2>9, <5>2, Zenon DEF Found
        <5> QED BY <5>1, <5>3, Zenon
      <4> QED BY <2>6, <4>1, Zenon
    <3> HIDE DEF top
    <3>2. Cardinality(top) = 1
      BY <3>1, FS_Singleton, Zenon
    <3>3. ~(Cardinality(top) > 1)
      BY <3>2
    <3>4. (CHOOSE b \in top : TRUE) = rows[k].bidder
      BY <3>1, Zenon
    <3>5. HighestBid(bids) =
            Names([bidder |-> rows[k].bidder, value |-> bids[rows[k].bidder]])
      BY <2>4, <3>3, <3>4, Zenon DEF HighestBid, top
    <3>6. HighestBid(bids) = Names(rows[k])
      BY <1>2, <3>5, Zenon
    <3> QED BY <1>5, <2>2, <2>9, <3>6, Zenon DEF EvalResult, s
  <2> QED BY <2>8, <2>9, Zenon
<1> QED BY <1>4, <1>5

----------------------------------------------------------------------------
(***************************************************************************)
(* The rows that auction_eval goes through.                                *)
(***************************************************************************)

\* A name followed by another continues it, and determines the other.
LEMMA ContinuesSelf ==
  ASSUME NEW S, NEW a \in Seq(S), NEW b \in Seq(S), NEW d \in Seq(S)
  PROVE  Continues(a \o b, a) /\ (a \o b = a \o d => b = d)
<1> DEFINE ab == a \o b
           ad == a \o d
           r == SubSeq(ab, 1, Len(a))
<1>1. /\ ab \in Seq(S) /\ Len(ab) = Len(a) + Len(b) /\ Len(a) \in Nat /\ Len(b) \in Nat
      /\ ad \in Seq(S) /\ Len(ad) = Len(a) + Len(d) /\ Len(d) \in Nat
      /\ \A i \in 1..Len(a) : ab[i] = a[i]
      /\ \A i \in 1..Len(b) : ab[Len(a)+i] = b[i]
      /\ \A i \in 1..Len(d) : ad[Len(a)+i] = d[i]
  OBVIOUS
<1> HIDE DEF ab, ad
<1>2. r \in Seq(S) /\ Len(r) = Len(a) /\ \A i \in 1..Len(a) : r[i] = ab[i]
  BY <1>1
<1>3. r = a
  <2> HIDE DEF r
  <2>1. Len(r) = Len(a) /\ \A i \in 1..Len(a) : r[i] = a[i]
    BY <1>1, <1>2, Zenon
  <2> QED BY <1>2, <2>1
<1>4. ASSUME ab = ad PROVE b = d
  <2>1. Len(b) = Len(d)
    BY <1>1, <1>4
  <2>2. \A i \in 1..Len(b) : b[i] = d[i]
    BY <1>1, <1>4, <2>1, Zenon
  <2> QED BY <2>1, <2>2
<1>5. Len(a) <= Len(ab)
  BY <1>1
<1>6. Continues(ab, a)
  BY <1>3, <1>5, Zenon DEF Continues
<1> QED BY <1>4, <1>6, Zenon DEF ab, ad

\* Composite keys: with names that do not continue each other, the key of a bid
\* tells the auction and the bidder, and the range query of an auction returns
\* its own bids.
LEMMA BidKeysApart ==
  ASSUME NamesApart(Auctions), NEW a \in Auctions, NEW c \in Auctions,
         NEW b \in Bidders, NEW d \in Bidders
  PROVE  /\ BidKey(a, b) = BidKey(c, d) => a = c /\ b = d
         /\ Continues(c \o d, a) <=> a = c
         /\ BidKey(a, b) \in Key
<1>1. a \in Seq(Segments) /\ c \in Seq(Segments)
      /\ b \in Seq(Segments) /\ d \in Seq(Segments)
  BY AuctionAssumption, Zenon
<1>2. Continues(a \o b, a) /\ Continues(a \o d, a)
  BY <1>1, ContinuesSelf, Zenon
<1>3. Continues(c \o d, a) => a = c
  BY Zenon DEF NamesApart
<1>4. ASSUME BidKey(a, b) = BidKey(c, d) PROVE a = c /\ b = d
  <2>1. a \o b = c \o d
    BY <1>4, Zenon DEF BidKey
  <2>2. a = c
    BY <1>2, <1>3, <2>1, Zenon
  <2>3. a \o b = a \o d
    BY <2>1, <2>2, Zenon
  <2>4. b = d
    BY <1>1, <2>3, ContinuesSelf, Zenon
  <2> QED BY <2>2, <2>4, Zenon
<1> QED BY <1>2, <1>3, <1>4 DEF Key

Closed(a) == ledger[AuctionKey(a)].val = "closed"

\* The ledger holds the last bid of each bidder, under a key of its own.
LedgerBids ==
  \A a \in Auctions, b \in Bidders :
    LET entry == ledger[BidKey(a, b)]
    IN  IF offers[a][b] = Nothing THEN entry.ver = 0
        ELSE entry.ver # 0 /\ entry.val = [bidder |-> b, value |-> offers[a][b]]

OffersType == offers \in [Auctions -> [Bidders -> Values \cup {Nothing}]]

\* The rows of a range query are the bids of the auction.
LEMMA RowKeysOf ==
  ASSUME LedgerBids, NamesApart(Auctions), NEW a \in Auctions
  PROVE  /\ \A k \in RowKeys(a) : \E b \in Bidders : k = BidKey(a, b) /\ offers[a][b] # Nothing
         /\ \A b \in Bidders : offers[a][b] # Nothing => BidKey(a, b) \in RowKeys(a)
<1>1. ASSUME NEW k \in RowKeys(a)
      PROVE  \E b \in Bidders : k = BidKey(a, b) /\ offers[a][b] # Nothing
  <2>1. k \in Key /\ k[1] = "bid" /\ Continues(k[2], a) /\ ledger[k].ver # 0
    BY <1>1, Zenon DEF RowKeys
  <2>2. PICK c \in Auctions, b \in Bidders : k = BidKey(c, b)
    BY <2>1 DEF Key, AuctionKey
  <2>3. Continues(c \o b, a)
    BY <2>1, <2>2, Zenon DEF BidKey
  <2>4. a = c
    BY <2>3, BidKeysApart, Zenon
  <2> QED BY <2>1, <2>2, <2>4, Zenon DEF LedgerBids
<1>2. ASSUME NEW b \in Bidders, offers[a][b] # Nothing PROVE BidKey(a, b) \in RowKeys(a)
  <2>1. ledger[BidKey(a, b)].ver # 0
    BY <1>2, Zenon DEF LedgerBids
  <2>2. BidKey(a, b) \in Key /\ Continues(a \o b, a)
    BY BidKeysApart, Zenon
  <2>3. BidKey(a, b)[1] = "bid" /\ BidKey(a, b)[2] = a \o b
    BY Zenon DEF BidKey
  <2> QED BY <2>1, <2>2, <2>3, Zenon DEF RowKeys
<1> QED BY <1>1, <1>2, Zenon

\* A range query ends: it has finitely many rows.
LEMMA RowKeysFinite ==
  ASSUME LedgerBids, NamesApart(Auctions), NEW a \in Auctions
  PROVE  IsFiniteSet(RowKeys(a))
<1> DEFINE own == {BidKey(a, b) : b \in Bidders}
           f == [b \in Bidders |-> BidKey(a, b)]
<1>1. IsFiniteSet(Bidders)
  BY AuctionAssumption, Zenon
<1>2. f \in Surjection(Bidders, own)
  BY Zenon DEF Surjection
<1>3. IsFiniteSet(own)
  <2> HIDE DEF own, f
  <2> QED BY <1>1, <1>2, FS_Surjection, Zenon
<1>4. RowKeys(a) \subseteq own
  BY RowKeysOf, Zenon
<1> QED BY <1>3, <1>4, FS_Subset, Zenon

\* GetStateByPartialCompositeKey gives auction_eval each bid once.
LEMMA RowsEnumerate ==
  ASSUME LedgerBids, OffersType, NamesApart(Auctions), NEW a \in Auctions
  PROVE  Enumerates(Rows(a), offers[a])
<1>1. PICK R : R = RowKeys(a)
  OBVIOUS
<1> DEFINE n == Cardinality(R)
           order == CHOOSE s \in Bijection(1..n, R) : TRUE
<1>2. n \in Nat /\ Bijection(1..n, R) # {}
  BY <1>1, RowKeysFinite, FS_CardinalityType, Zenon DEF ExistsBijection
<1>3. Rows(a) = [i \in 1..n |-> ledger[order[i]].val]
  BY <1>1 DEF Rows
<1>4. order \in Bijection(1..n, R)
  BY <1>2, Zenon
<1> HIDE DEF order, n
<1>5. /\ \A i \in 1..n : order[i] \in R
      /\ \A k \in R : \E i \in 1..n : order[i] = k
      /\ \A i, j \in 1..n : order[i] = order[j] => i = j
  BY <1>4 DEF Bijection, Injection, Surjection, IsInjective
<1>6. ASSUME NEW i \in 1..n
      PROVE  \E b \in Bidders :
               /\ order[i] = BidKey(a, b) /\ offers[a][b] \in Values
               /\ Rows(a)[i] = [bidder |-> b, value |-> offers[a][b]]
  <2>1. PICK b \in Bidders : order[i] = BidKey(a, b) /\ offers[a][b] # Nothing
    BY <1>1, <1>5, RowKeysOf
  <2>2. ledger[order[i]].val = [bidder |-> b, value |-> offers[a][b]]
    BY <2>1 DEF LedgerBids
  <2>3. Rows(a)[i] = ledger[order[i]].val
    BY <1>3
  <2>4. offers[a][b] \in Values
    BY <2>1 DEF OffersType
  <2> QED BY <2>1, <2>2, <2>3, <2>4
<1>7. ASSUME NEW i \in 1..n
      PROVE  Rows(a)[i] \in Bid /\ offers[a][Rows(a)[i].bidder] = Rows(a)[i].value
  <2>1. PICK b \in Bidders : /\ offers[a][b] \in Values
                             /\ Rows(a)[i] = [bidder |-> b, value |-> offers[a][b]]
    BY <1>6
  <2>2. Rows(a)[i].bidder = b /\ Rows(a)[i].value = offers[a][b]
    BY <2>1
  <2>3. Rows(a)[i] \in Bid
    BY <2>1 DEF Bid
  <2> QED BY <2>2, <2>3
<1>8. Rows(a) \in Seq(Bid) /\ Len(Rows(a)) = n
  <2>1. \A i \in 1..n : Rows(a)[i] \in Bid
    BY <1>7
  <2>2. Rows(a) = [i \in 1..n |-> Rows(a)[i]]
    BY <1>3
  <2> QED BY <1>2, <2>1, <2>2
<1>9. ASSUME NEW b \in Bidders, offers[a][b] # Nothing
      PROVE  \E i \in 1..n : Rows(a)[i].bidder = b
  <2>1. PICK i \in 1..n : order[i] = BidKey(a, b)
    BY <1>1, <1>5, <1>9, RowKeysOf
  <2>2. Rows(a)[i] = ledger[BidKey(a, b)].val
    BY <1>3, <2>1
  <2>3. ledger[BidKey(a, b)].val = [bidder |-> b, value |-> offers[a][b]]
    BY <1>9 DEF LedgerBids
  <2> QED BY <2>2, <2>3
<1>10. ASSUME NEW i \in 1..n, NEW j \in 1..n, Rows(a)[i].bidder = Rows(a)[j].bidder
       PROVE  i = j
  <2>1. PICK b \in Bidders : /\ order[i] = BidKey(a, b)
                             /\ Rows(a)[i] = [bidder |-> b, value |-> offers[a][b]]
    BY <1>6
  <2>2. PICK d \in Bidders : /\ order[j] = BidKey(a, d)
                             /\ Rows(a)[j] = [bidder |-> d, value |-> offers[a][d]]
    BY <1>6
  <2>3. b = d
    BY <1>10, <2>1, <2>2
  <2> QED BY <1>5, <2>1, <2>2, <2>3
<1> QED BY <1>7, <1>8, <1>9, <1>10, Zenon DEF Enumerates

\* auction_eval answers with the highest of the bids the ledger holds.
LEMMA EvalHighest ==
  ASSUME LedgerBids, OffersType, NamesApart(Auctions), Values \subseteq Nat, NEW a \in Auctions
  PROVE  EvalResult(Rows(a)) = HighestBid(offers[a])
<1>1. PICK rows : rows = Rows(a)
  OBVIOUS
<1>2. PICK bids : bids = offers[a]
  OBVIOUS
<1>3. bids \in [Bidders -> Values \cup {Nothing}]
  BY <1>2 DEF OffersType
<1>4. Enumerates(rows, bids)
  BY <1>1, <1>2, RowsEnumerate
<1>5. EvalResult(rows) = HighestBid(bids)
  BY <1>3, <1>4, EvalFinds
<1> QED BY <1>1, <1>2, <1>5

----------------------------------------------------------------------------
(***************************************************************************)
(* Bids on the ledger, and what eval makes of them.                        *)
(***************************************************************************)

\* What a waiting transaction will do to the bids: a bid is written by submit
\* alone, and eval has seen the bids of an auction that is closed for ever.
TxBids(t) ==
  /\ t.bidder = Nothing => \A w \in t.writes : w[1][1] # "bid"
  /\ t.bidder # Nothing =>
       /\ t.bidder \in Bidders /\ t.rows = Nothing
       /\ \E v \in Values :
            t.writes = {<<BidKey(t.auction, t.bidder), [bidder |-> t.bidder, value |-> v]>>}
  /\ t.rows # Nothing =>
       t.writes = {} /\ Closed(t.auction) /\ t.result = HighestBid(offers[t.auction])

\* The invariant about bids and outcomes.
BidsInv ==
  /\ OffersType
  /\ DOMAIN outcome = Auctions
  /\ LedgerBids
  /\ \A t \in pool : TxBids(t)
  /\ \A a \in Auctions :
       outcome[a] # Nothing => Closed(a) /\ outcome[a] = HighestBid(offers[a])

\* At the start there are no bids and no outcomes.
LEMMA InitBids == Init => BidsInv
<1> SUFFICES ASSUME Init PROVE BidsInv
  OBVIOUS
<1>1. OffersType /\ DOMAIN outcome = Auctions
  BY DEF Init, OffersType
<1>2. LedgerBids
  BY KeyKinds DEF Init, LedgerBids
<1> QED BY <1>1, <1>2 DEF Init, BidsInv

\* A call that refuses changes no bid.
LEMMA RefusedBids ==
  ASSUME NEW a \in Auctions, NEW word
  PROVE  TxBids(Refused(a, word))
<1>1. PICK t : t = Refused(a, word)
  OBVIOUS
<1>2. t.bidder = Nothing /\ t.rows = Nothing /\ t.writes = {}
  BY <1>1 DEF Refused, Tx
<1>3. TxBids(t)
  BY <1>2 DEF TxBids
<1> QED BY <1>1, <1>3

\* auction_create and auction_close write no bid.
LEMMA RecordBids ==
  ASSUME NEW a \in Auctions
  PROVE  TxBids(auction_create(a)) /\ TxBids(auction_close(a))
<1>1. ASSUME NEW x PROVE TxBids(Tx(a, Says("OK"), Nothing, {<<AuctionKey(a), x>>}, Nothing))
  <2>1. PICK t : t = Tx(a, Says("OK"), Nothing, {<<AuctionKey(a), x>>}, Nothing)
    OBVIOUS
  <2>2. t.bidder = Nothing /\ t.rows = Nothing /\ t.writes = {<<AuctionKey(a), x>>}
    BY <2>1 DEF Tx
  <2>3. AuctionKey(a)[1] # "bid"
    BY DEF AuctionKey
  <2>4. TxBids(t)
    BY <2>2, <2>3 DEF TxBids
  <2> QED BY <2>1, <2>4
<1>2. TxBids(auction_create(a))
  BY <1>1, RefusedBids DEF auction_create
<1>3. TxBids(auction_close(a))
  BY <1>1, RefusedBids DEF auction_close
<1> QED BY <1>2, <1>3

\* auction_submit writes the bid of its bidder.
LEMMA SubmitBids ==
  ASSUME NEW a \in Auctions, NEW b \in Bidders, NEW v \in Values
  PROVE  TxBids(auction_submit(a, b, v))
<1> DEFINE bid == [bidder |-> b, value |-> v]
           t == Tx(a, Says("OK"), Nothing, {<<BidKey(a, b), bid>>}, b)
<1>1. \/ auction_submit(a, b, v) = t
      \/ \E word : auction_submit(a, b, v) = Refused(a, word)
  BY DEF auction_submit
<1>2. t.auction = a /\ t.bidder = b /\ t.rows = Nothing /\ t.writes = {<<BidKey(a, b), bid>>}
  BY DEF Tx
<1>3. b # Nothing
  BY AuctionAssumption
<1> HIDE DEF t
<1>4. TxBids(t)
  BY <1>2, <1>3 DEF TxBids
<1> QED BY <1>1, <1>4, RefusedBids

\* auction_eval is endorsed only when the auction is closed, and answers with the
\* highest bid of that moment.
LEMMA EvalBids ==
  ASSUME TypeInv, BidsInv, NamesApart(Auctions), Values \subseteq Nat, NEW a \in Auctions
  PROVE  TxBids(auction_eval(a))
<1>1. CASE ~Exists(a) \/ IsOpen(a)
  BY <1>1, RefusedBids DEF auction_eval
<1>2. CASE Exists(a) /\ ~IsOpen(a)
  <2> DEFINE result == EvalResult(Rows(a))
             rows == {<<k, ledger[k].ver>> : k \in RowKeys(a)}
             t == Tx(a, result, rows, {}, Nothing)
  <2>1. auction_eval(a) = t
    BY <1>2 DEF auction_eval
  <2>2. Closed(a)
    <3>1. ledger[AuctionKey(a)].val \in {"open", "closed"}
      BY <1>2, KeyKinds DEF Exists, TypeInv, TypeOK
    <3> QED BY <1>2, <3>1 DEF Closed, IsOpen
  <2>3. result = HighestBid(offers[a])
    BY EvalHighest DEF BidsInv
  <2> HIDE DEF result, rows
  <2>4. t.auction = a /\ t.bidder = Nothing /\ t.writes = {} /\ t.result = result
    BY DEF Tx
  <2> HIDE DEF t
  <2>5. TxBids(t)
    BY <2>2, <2>3, <2>4 DEF TxBids
  <2> QED BY <2>1, <2>5
<1> QED BY <1>1, <1>2

\* Endorse changes no bid.
LEMMA EndorseBids ==
  ASSUME BidsInv, NEW t, TxBids(t), Endorse(t)
  PROVE  BidsInv'
<1>1. UNCHANGED <<ledger, offers, outcome>> /\ pool' = pool \cup {t}
  BY DEF Endorse
<1>2. OffersType' /\ LedgerBids' /\ \A a \in Auctions : Closed(a)' = Closed(a)
  BY <1>1 DEF BidsInv, OffersType, LedgerBids, Closed
<1>3. ASSUME NEW u, TxBids(u) PROVE TxBids(u)'
  BY <1>1, <1>3 DEF TxBids, Closed
<1>4. \A u \in pool' : TxBids(u)'
  BY <1>1, <1>3 DEF BidsInv
<1>5. \A a \in Auctions :
        outcome'[a] # Nothing => Closed(a)' /\ outcome'[a] = HighestBid(offers'[a])
  BY <1>1, <1>2 DEF BidsInv
<1> QED BY <1>1, <1>2, <1>4, <1>5 DEF BidsInv

\* A closed auction stays closed, and its bids stay.
LEMMA ClosedStays ==
  ASSUME AuctionInv, NEW t \in pool, Commit(t), NEW a \in Auctions, Closed(a)
  PROVE  Closed(a)' /\ offers'[a] = offers[a]
<1>1. ~IsOpen(a) /\ ledger[AuctionKey(a)].val # Nothing
  BY AuctionAssumption DEF Closed, IsOpen
<1>2. ~Advance(ledger[AuctionKey(a)].val, ledger'[AuctionKey(a)].val)
  BY <1>1 DEF Advance, IsOpen
<1>3. ledger'[AuctionKey(a)] = ledger[AuctionKey(a)] /\ offers'[a] = offers[a]
  BY <1>1, <1>2, CommitEffect
<1> QED BY <1>3 DEF Closed

\* A commit of a bid enters the value that was submitted.
LEMMA BidCommitted ==
  ASSUME NEW t, TxBids(t), t.bidder # Nothing, Apply(t)
  PROVE  \E v \in Values :
           /\ t.writes = {<<BidKey(t.auction, t.bidder), [bidder |-> t.bidder, value |-> v]>>}
           /\ offers' = [offers EXCEPT ![t.auction][t.bidder] = v]
<1> DEFINE c == t.auction
           d == t.bidder
<1>1. PICK v \in Values : t.writes = {<<BidKey(c, d), [bidder |-> d, value |-> v]>>}
  BY DEF TxBids
<1>2. (CHOOSE w \in t.writes : TRUE) = <<BidKey(c, d), [bidder |-> d, value |-> v]>>
  BY <1>1
<1>3. offers' = [offers EXCEPT ![c][d] = (CHOOSE w \in t.writes : TRUE)[2].value]
  BY DEF Apply
<1>4. <<BidKey(c, d), [bidder |-> d, value |-> v]>>[2].value = v
  OBVIOUS
<1>5. offers' = [offers EXCEPT ![c][d] = v]
  BY ONLY <1>2, <1>3, <1>4, Zenon
<1> QED BY <1>1, <1>5, Zenon

\* A commit of a bid enters it in the ledger and in offers alike.
LEMMA CommitKeepsBids ==
  ASSUME AuctionInv, TypeInv, BidsInv, NamesApart(Auctions), NEW t \in pool, Commit(t)
  PROVE  OffersType' /\ LedgerBids'
<1>1. TxBids(t) /\ t.auction \in Auctions /\ height \in Nat
  BY DEF AuctionInv, TxInv, BidsInv
<1>2. CASE Unchanged(t) /\ t.bidder # Nothing
  <2> DEFINE c == t.auction
             d == t.bidder
  <2>1. Apply(t) /\ d \in Bidders /\ c \in Auctions
    BY <1>1, <1>2 DEF Commit, TxBids
  <2>2. PICK v \in Values :
          /\ t.writes = {<<BidKey(c, d), [bidder |-> d, value |-> v]>>}
          /\ offers' = [offers EXCEPT ![c][d] = v]
    BY <1>1, <1>2, <2>1, BidCommitted, Zenon
  <2>5. OffersType'
    BY <2>1, <2>2 DEF BidsInv, OffersType
  <2>6. ASSUME NEW a \in Auctions, NEW b \in Bidders
        PROVE  IF offers'[a][b] = Nothing THEN ledger'[BidKey(a, b)].ver = 0
               ELSE /\ ledger'[BidKey(a, b)].ver # 0
                    /\ ledger'[BidKey(a, b)].val = [bidder |-> b, value |-> offers'[a][b]]
    <3>1. BidKey(a, b) \in Key
      BY KeyKinds
    <3>2. CASE a = c /\ b = d
      <4>1. offers'[a][b] = v /\ v # Nothing
        BY <2>1, <2>2, <3>2, AuctionAssumption DEF BidsInv, OffersType
      <4>2. PICK w \in t.writes : ledger'[BidKey(a, b)] = [val |-> w[2], ver |-> height + 1]
        <5>1. \E w \in t.writes : w[1] = BidKey(a, b)
          BY <2>2, <3>2
        <5> QED BY <1>2, <3>1, <5>1, CommitEntry
      <4>3. w[2] = [bidder |-> b, value |-> v]
        BY <2>2, <3>2
      <4>4. ledger'[BidKey(a, b)].ver = height + 1 /\ ledger'[BidKey(a, b)].val = w[2]
        BY <4>2
      <4> QED BY <1>1, <4>1, <4>3, <4>4
    <3>3. CASE ~(a = c /\ b = d)
      <4>1. offers'[a][b] = offers[a][b]
        BY <2>1, <2>2, <3>3 DEF BidsInv, OffersType
      <4>2. BidKey(a, b) # BidKey(c, d)
        BY <2>1, <3>3, BidKeysApart
      <4>3. ~ \E w \in t.writes : w[1] = BidKey(a, b)
        BY <2>2, <4>2
      <4>4. ledger'[BidKey(a, b)] = ledger[BidKey(a, b)]
        BY <3>1, <4>3, CommitEntry, Zenon
      <4> QED BY <4>1, <4>4 DEF BidsInv, LedgerBids
    <3> QED BY <3>2, <3>3
  <2> QED BY <2>5, <2>6 DEF LedgerBids
<1>3. CASE ~(Unchanged(t) /\ t.bidder # Nothing)
  <2>1. offers' = offers
    BY <1>3 DEF Commit, Apply
  <2>2. ASSUME NEW a \in Auctions, NEW b \in Bidders
        PROVE  ledger'[BidKey(a, b)] = ledger[BidKey(a, b)]
    <3>1. BidKey(a, b) \in Key /\ BidKey(a, b)[1] = "bid"
      BY KeyKinds
    <3>2. Unchanged(t) => ~ \E w \in t.writes : w[1] = BidKey(a, b)
      BY <1>1, <1>3, <3>1 DEF TxBids
    <3> QED BY <3>1, <3>2, CommitEntry, Zenon
  <2> QED BY <2>1, <2>2 DEF BidsInv, OffersType, LedgerBids
<1> QED BY <1>2, <1>3

\* Commit keeps the invariant.
LEMMA CommitBids ==
  ASSUME AuctionInv, TypeInv, BidsInv, NamesApart(Auctions), NEW t \in pool, Commit(t)
  PROVE  BidsInv'
<1>1. OffersType' /\ LedgerBids'
  BY CommitKeepsBids
<1>2. TxBids(t) /\ t.auction \in Auctions /\ pool' \subseteq pool
  BY DEF AuctionInv, TxInv, BidsInv, Commit
<1>3. ASSUME NEW u \in pool' PROVE TxBids(u)'
  <2>1. TxBids(u) /\ u.auction \in Auctions
    BY <1>2 DEF AuctionInv, TxInv, BidsInv
  <2>2. u.rows # Nothing =>
          u.writes = {} /\ Closed(u.auction)' /\ u.result = HighestBid(offers'[u.auction])
    BY <2>1, ClosedStays DEF TxBids
  <2> QED BY ONLY <2>1, <2>2 DEF TxBids, Closed
<1>4. DOMAIN outcome' = Auctions
  BY <1>2 DEF BidsInv, Commit, Apply
<1>5. ASSUME NEW a \in Auctions, outcome'[a] # Nothing
      PROVE  Closed(a)' /\ outcome'[a] = HighestBid(offers'[a])
  <2>1. CASE outcome'[a] = outcome[a]
    BY <1>5, <2>1, ClosedStays DEF BidsInv
  <2>2. CASE outcome'[a] # outcome[a]
    <3>1. a = t.auction /\ t.rows # Nothing /\ outcome'[a] = t.result
      BY <1>2, <2>2 DEF BidsInv, Commit, Apply
    <3>2. Closed(a) /\ t.result = HighestBid(offers[a])
      BY <1>2, <3>1 DEF TxBids
    <3> QED BY <3>1, <3>2, ClosedStays
  <2> QED BY <2>1, <2>2
<1> QED BY ONLY <1>1, <1>3, <1>4, <1>5 DEF BidsInv

\* Every step keeps the bids and the outcomes together.
LEMMA NextBids ==
  ASSUME NamesApart(Auctions), Values \subseteq Nat
  PROVE  AuctionInv /\ TypeInv /\ BidsInv /\ [Next]_vars => BidsInv'
<1> SUFFICES ASSUME AuctionInv, TypeInv, BidsInv, [Next]_vars
             PROVE  BidsInv'
  OBVIOUS
<1>1. CASE UNCHANGED vars
  <2>1. ledger' = ledger /\ pool' = pool /\ offers' = offers /\ outcome' = outcome
    BY <1>1 DEF vars
  <2>2. OffersType' /\ LedgerBids'
    BY <2>1 DEF BidsInv, OffersType, LedgerBids
  <2>3. ASSUME NEW t \in pool' PROVE TxBids(t)'
    <3>1. TxBids(t)
      BY <2>1 DEF BidsInv
    <3> QED BY ONLY <2>1, <3>1 DEF TxBids, Closed
  <2>4. \A a \in Auctions :
          outcome'[a] # Nothing => Closed(a)' /\ outcome'[a] = HighestBid(offers'[a])
    BY <2>1 DEF BidsInv, Closed
  <2>5. DOMAIN outcome' = Auctions
    BY <2>1 DEF BidsInv
  <2> QED BY ONLY <2>2, <2>3, <2>4, <2>5 DEF BidsInv
<1>2. ASSUME NEW a \in Auctions,
             Endorse(auction_create(a)) \/ Endorse(auction_close(a)) \/ Endorse(auction_eval(a))
      PROVE  BidsInv'
  <2>1. ASSUME NEW t, TxBids(t), Endorse(t) PROVE BidsInv'
    BY <2>1, EndorseBids
  <2> QED BY <1>2, <2>1, RecordBids, EvalBids
<1>3. ASSUME NEW a \in Auctions, NEW b \in Bidders, NEW v \in Values,
             Endorse(auction_submit(a, b, v))
      PROVE  BidsInv'
  BY <1>3, SubmitBids, EndorseBids
<1>4. ASSUME NEW t \in pool, Commit(t)
      PROVE  BidsInv'
  BY <1>4, CommitBids
<1> QED BY <1>1, <1>2, <1>3, <1>4 DEF Next

\* auction_eval searches the rows of its range query, some time before it is
\* committed: every committed result is the highest of all bids of its auction, or
\* a draw, or no bids, and stays so.  Names must not continue each other (PREFIX +
\* auction_name + SEP is a prefix of the keys of another auction otherwise), and
\* values must not be negative (high starts at -1).
THEOREM EvalNamesTheHighest ==
  ASSUME NamesApart(Auctions), Values \subseteq Nat
  PROVE  Spec => []EvalIsHighest
<1>1. BidsInv => EvalIsHighest
  BY DEF BidsInv, EvalIsHighest
<1> QED
  BY <1>1, InitAuction, InitTypes, InitBids, NextAuction, NextTypes, NextBids, PTL DEF Spec

----------------------------------------------------------------------------
(***************************************************************************)
(* Refinement: the pipeline implements the atomic auction.                 *)
(***************************************************************************)

\* A commit touches the record of no auction but its own.
LEMMA OtherRecords ==
  ASSUME AuctionInv, TypeInv, NEW t \in pool, Commit(t), NEW a \in Auctions, a # t.auction
  PROVE  ledger'[AuctionKey(a)] = ledger[AuctionKey(a)]
<1>1. ~ \E w \in t.writes : w[1] = AuctionKey(a)
  BY DEF AuctionInv, TxInv
<1> QED BY <1>1, CommitEntry, KeysApart, Zenon

\* A bid that is committed is a Submit of the atomic auction: the auction is
\* still open.
LEMMA SubmitIsAtomic ==
  ASSUME AuctionInv, TypeInv, BidsInv, NEW t \in pool, Commit(t), Unchanged(t),
         t.bidder # Nothing
  PROVE  Atomic!Next
<1>1. TxInv(t) /\ TxBids(t) /\ Apply(t) /\ t.read = ledger[AuctionKey(t.auction)].ver
  BY DEF AuctionInv, BidsInv, Commit, Unchanged
<1>2. t.auction \in Auctions /\ t.bidder \in Bidders /\ t.rows = Nothing
  BY <1>1 DEF TxInv, TxBids
<1>3. PICK v \in Values :
        /\ t.writes = {<<BidKey(t.auction, t.bidder), [bidder |-> t.bidder, value |-> v]>>}
        /\ offers' = [offers EXCEPT ![t.auction][t.bidder] = v]
  BY <1>1, BidCommitted
<1>4. ASSUME NEW a \in Auctions PROVE ledger'[AuctionKey(a)] = ledger[AuctionKey(a)]
  <2>1. ~ \E w \in t.writes : w[1] = AuctionKey(a)
    BY <1>3, KeysApart
  <2> QED BY <2>1, CommitEntry, KeysApart, Zenon
<1>5. outcome' = outcome
  BY <1>1, <1>2 DEF Apply
<1>6. ledger[AuctionKey(t.auction)].val = "open"
  BY <1>1 DEF TxInv, StillHolds, IsOpen
<1>7. Atomic!Submit(t.auction, t.bidder, v)
  BY <1>2, <1>3, <1>4, <1>5, <1>6 DEF Atomic!Submit
<1> QED BY <1>2, <1>7 DEF Atomic!Next

\* A result that is committed is an Eval of the atomic auction: the bids are
\* still those that were searched.
LEMMA EvalIsAtomic ==
  ASSUME AuctionInv, TypeInv, BidsInv, NEW t \in pool, Commit(t), Unchanged(t),
         t.rows # Nothing
  PROVE  Atomic!Next
<1>1. TxInv(t) /\ TxBids(t) /\ Apply(t)
  BY DEF AuctionInv, BidsInv, Commit
<1>2. /\ t.auction \in Auctions /\ t.bidder = Nothing /\ t.writes = {}
      /\ Closed(t.auction) /\ t.result = HighestBid(offers[t.auction])
  BY <1>1 DEF TxInv, TxBids
<1>3. ASSUME NEW a \in Auctions PROVE ledger'[AuctionKey(a)] = ledger[AuctionKey(a)]
  BY <1>2, CommitEntry, KeysApart, Zenon
<1>4. offers' = offers /\ outcome' = [outcome EXCEPT ![t.auction] = t.result]
  BY <1>1, <1>2 DEF Apply
<1>5. Atomic!Eval(t.auction)
  BY <1>2, <1>3, <1>4 DEF Atomic!Eval, Closed
<1> QED BY <1>2, <1>5 DEF Atomic!Next

\* A record that is committed is a Create or a Close of the atomic auction: the
\* record is still what they looked at.
LEMMA RecordIsAtomic ==
  ASSUME AuctionInv, TypeInv, NEW t \in pool, Commit(t), Unchanged(t),
         t.bidder = Nothing, t.rows = Nothing
  PROVE  Atomic!Next \/ UNCHANGED Atomic!vars
<1> DEFINE k == AuctionKey(t.auction)
           status == [a \in Auctions |-> ledger[AuctionKey(a)].val]
<1>1. Apply(t) /\ t.auction \in Auctions
  BY DEF AuctionInv, TxInv, Commit
<1>2. offers' = offers /\ outcome' = outcome
  BY <1>1 DEF Apply
<1>3. ASSUME NEW a \in Auctions, a # t.auction
      PROVE  ledger'[AuctionKey(a)] = ledger[AuctionKey(a)]
  BY <1>3, OtherRecords
<1>4. status' = [status EXCEPT ![t.auction] = ledger'[k].val]
  <2>1. ASSUME NEW old, NEW new, old = [a \in Auctions |-> old[a]],
               new = [a \in Auctions |-> new[a]],
               \A a \in Auctions : a # t.auction => new[a] = old[a]
        PROVE  new = [old EXCEPT ![t.auction] = new[t.auction]]
    BY <1>1, <2>1
  <2>2. status'[t.auction] = ledger'[k].val
    BY <1>1
  <2>3. \A a \in Auctions : a # t.auction => status'[a] = status[a]
    BY <1>3
  <2>4. status = [a \in Auctions |-> status[a]] /\ status' = [a \in Auctions |-> status'[a]]
    BY Zenon
  <2>5. status' = [status EXCEPT ![t.auction] = status'[t.auction]]
    <3> HIDE DEF status
    <3> QED BY ONLY <2>1, <2>3, <2>4
  <2> QED BY ONLY <2>2, <2>5, Zenon
<1>5. CASE ledger'[k] = ledger[k]
  <2>1. status' = status
    BY <1>3, <1>5
  <2> QED BY <1>2, <2>1 DEF Atomic!vars
<1>6. CASE Advance(ledger[k].val, ledger'[k].val)
  <2>1. \/ status[t.auction] = Nothing /\ ledger'[k].val = "open"
        \/ status[t.auction] = "open" /\ ledger'[k].val = "closed"
    BY <1>1, <1>6 DEF Advance
  <2>2. Atomic!Create(t.auction) \/ Atomic!Close(t.auction)
    BY ONLY <1>2, <1>4, <2>1, Zenon DEF Atomic!Create, Atomic!Close
  <2> QED BY <1>1, <2>2 DEF Atomic!Next
<1> QED BY <1>1, <1>5, <1>6, CommitEffect

\* Every step is one of the atomic auction, or changes nothing of it.
LEMMA StepIsAtomic ==
  AuctionInv /\ TypeInv /\ BidsInv /\ [Next]_vars => [Atomic!Next]_(Atomic!vars)
<1> SUFFICES ASSUME AuctionInv, TypeInv, BidsInv, [Next]_vars
             PROVE  Atomic!Next \/ UNCHANGED Atomic!vars
  OBVIOUS
<1>1. CASE UNCHANGED <<ledger, offers, outcome>>
  BY <1>1 DEF Atomic!vars
<1>2. ASSUME NEW t \in pool, Commit(t) PROVE Atomic!Next \/ UNCHANGED Atomic!vars
  <2>1. CASE ~Unchanged(t)
    BY <1>1, <1>2, <2>1 DEF Commit
  <2>2. CASE Unchanged(t)
    BY <1>2, <2>2, SubmitIsAtomic, EvalIsAtomic, RecordIsAtomic
  <2> QED BY <2>1, <2>2
<1>3. UNCHANGED <<ledger, offers, outcome>> \/ \E t \in pool : Commit(t)
  BY DEF Next, vars, Endorse
<1> QED BY <1>1, <1>2, <1>3

\* The calls read at their endorsement and write at their commit, with others in
\* between: yet the auctions go through the states of an execution in which every
\* committed call runs alone, as a whole, when it is committed.
THEOREM AuctionIsAtomic ==
  ASSUME NamesApart(Auctions), Values \subseteq Nat
  PROVE  Spec => AppliesCallsAtomically
<1>1. Init => Atomic!Init
  BY KeysApart DEF Init, Atomic!Init
<1> QED
  BY <1>1, InitAuction, InitTypes, InitBids, NextAuction, NextTypes, NextBids, StepIsAtomic, PTL
  DEF Spec, AppliesCallsAtomically, Atomic!Spec
=============================================================================
