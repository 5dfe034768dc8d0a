------------------------------- MODULE Base64 -------------------------------
(***************************************************************************)
(* common/base64/base64.cpp, which carries values, keys and signatures     *)
(* between the enclaves and the chaincode.  A symbol is the index of a     *)
(* letter in base64_chars, the padding sign, or any other character.       *)
(***************************************************************************)
EXTENDS Integers, Sequences

Pad == 64
Foreign == 65

is_base64(c) == c < Pad

\* Mutant: as many letters as bytes.
EncodeShort(b) ==
  LET at(j) == IF j <= Len(b) THEN b[j] ELSE 0
      letters == <<at(1) \div 4, (at(1) % 4) * 16 + at(2) \div 16,
                   (at(2) % 16) * 4 + at(3) \div 64>>
  IN  SubSeq(letters, 1, Len(b)) \o [j \in 1..(4 - Len(b)) |-> Pad]

\* Up to three bytes become up to four letters; i bytes need i + 1 of them.
EncodeGroup(b) ==
  LET at(j) == IF j <= Len(b) THEN b[j] ELSE 0
      letters == <<at(1) \div 4,
                   (at(1) % 4) * 16 + at(2) \div 16,
                   (at(2) % 16) * 4 + at(3) \div 64,
                   at(3) % 64>>
  IN  SubSeq(letters, 1, Len(b) + 1) \o [j \in 1..(3 - Len(b)) |-> Pad]

Groups(s, size) ==
  [g \in 1..((Len(s) + size - 1) \div size) |->
     SubSeq(s, size * (g - 1) + 1, IF size * g < Len(s) THEN size * g ELSE Len(s))]

\* What the loops append to ret, group by group.
Appended(groups) ==
  LET ret[n \in 0..Len(groups)] == IF n = 0 THEN <<>> ELSE ret[n-1] \o groups[n]
  IN  ret[Len(groups)]

base64_encode(bytes) ==
  LET in == Groups(bytes, 3)
  IN  Appended([g \in DOMAIN in |-> EncodeGroup(in[g])])

\* i letters give i - 1 bytes; a byte is eight bits wide.
DecodeGroup(c) ==
  LET at(j) == IF j <= Len(c) THEN c[j] ELSE 0
      bytes == <<((at(1) * 4) % 256) + at(2) \div 16,
                 (at(2) % 16) * 16 + at(3) \div 4,
                 (at(3) % 4) * 64 + at(4)>>
  IN  SubSeq(bytes, 1, Len(c) - 1)

\* Mutant: padding and foreign characters are skipped, not an end.
DecodeAllLetters(encoded) ==
  LET in == Groups(SelectSeq(encoded, is_base64), 4)
  IN  Appended([g \in DOMAIN in |-> DecodeGroup(in[g])])

\* Decoding stops at the first character that is not a letter.
base64_decode(encoded) ==
  LET stops == {i \in DOMAIN encoded : ~is_base64(encoded[i])}
      letters == {i \in DOMAIN encoded : \A j \in stops : i < j}
      in == Groups([i \in letters |-> encoded[i]], 4)
  IN  Appended([g \in DOMAIN in |-> DecodeGroup(in[g])])
=============================================================================
