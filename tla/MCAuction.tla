----------------------------- MODULE MCAuction -----------------------------
(***************************************************************************)
(* Names and values for TLC.                                               *)
(***************************************************************************)
EXTENDS Auction

OneAuction == {<<"a">>}
ThreeBidders == {<<"x">>, <<"y">>, <<"z">>}

\* An auction whose name continues that of another after the separator.
NestedAuctions == {<<"a">>, <<"a", "b">>}

ThreeValues == 0..2
WithMinusOne == {-1, 0}

\* The setting in which EvalIsHighest is proved covers this instance.
ASSUME SettingAssumption == NamesApart(OneAuction) /\ ThreeValues \subseteq Nat
=============================================================================
