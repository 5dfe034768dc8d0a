------------------------------ MODULE KeyCodec ------------------------------
(***************************************************************************)
(* The forms in which the public key of an enclave travels: little endian  *)
(* inside, big endian in the ecalls, and DER in Go, where the coordinates  *)
(* are integers (here the bytes that big.Int.Bytes gives, which have no    *)
(* leading zeros).  SHA-256 is taken to be injective and left out.         *)
(***************************************************************************)
EXTENDS Integers, Sequences

CONSTANT Width   \* bytes of a coordinate: 32 in the code

ASSUME WidthAssumption == Width \in Nat \ {0}

Coordinates == [1..Width -> 0..255]

Zeros == [i \in 1..Width |-> 0]
ZeroKey == [x |-> Zeros, y |-> Zeros]

bytes_swap(b) == [i \in 1..Len(b) |-> b[Len(b) + 1 - i]]

\* The enclave key, as the caller gets it.
ecall_get_pk(key) == [x |-> bytes_swap(key.x), y |-> bytes_swap(key.y)]

\* What ecall_create_report hashes into the report.
ReportData(key) == ecall_get_pk(key).x \o ecall_get_pk(key).y

\* big.Int.SetBytes, then Bytes: the leading zeros are lost.
IntBytes(b) ==
  LET IsTop(i) == b[i] # 0 /\ \A j \in 1..(i - 1) : b[j] = 0
  IN  IF \E i \in 1..Width : IsTop(i)
      THEN SubSeq(b, CHOOSE i \in 1..Width : IsTop(i), Width)
      ELSE <<>>

\* A point that is not on the curve is refused; memory nobody wrote to is one.
IsOnCurve(pk) == pk # ZeroKey

MarshalEnclavePk(pk) == [x |-> IntBytes(pk.x), y |-> IntBytes(pk.y)]

\* The integers go to the left of their places.
UnmarshalEnclavePk(der) ==
  LET Placed(b) == [i \in 1..Width |-> IF i <= Len(b) THEN b[i] ELSE 0]
  IN  [x |-> Placed(der.x), y |-> Placed(der.y)]

\* Mutant: only the x coordinate is compared.
CheckHalf(der, data) == der.x = SubSeq(data, 1, Width)

CheckEnclavePkHash(der, data) == der.x \o der.y = data
=============================================================================
