------------------------------- MODULE Codecs -------------------------------
(***************************************************************************)
(* Base64 and the escapes of JSON strings.  A behaviour starts from some   *)
(* bytes and their base64 text, which is then damaged symbol by symbol, as *)
(* a caller with other text would, or from the units of an escape.         *)
(***************************************************************************)
EXTENDS FiniteSets, Base64, Utf8

CONSTANTS
  Units,       \* UTF-16 units, singly and in pairs
  Bytes,       \* byte values
  MaxBytes,    \* bound on the bytes encoded
  MaxEdits     \* bound on the edits of a text

ASSUME CodecAssumption ==
  /\ \A u \in Units : u \in Nat /\ u < 65536
  /\ \A b \in Bytes : b \in Nat /\ b < 256
  /\ MaxBytes \in Nat

VARIABLES
  bytes,    \* bytes to encode
  letters,  \* their base64 text
  edits,    \* how often it was edited
  units     \* the units of a \u escape

codecVars == <<bytes, letters, edits, units>>

\* Inserting symbol c before place i, or putting it there, or taking it out.
Edited(s, i, c) ==
  LET before == SubSeq(s, 1, i - 1)
      after == SubSeq(s, i + 1, Len(s))
  IN  {before \o <<c, s[i]>> \o after, before \o <<c>> \o after, before \o after}

CodecInit ==
  /\ edits = 0
  /\ \/ /\ bytes \in UNION {[1..n -> Bytes] : n \in 0..MaxBytes}
        /\ letters = base64_encode(bytes)
        /\ units = <<0>>
     \/ /\ units \in {<<u>> : u \in Units} \cup (Units \X Units)
        /\ bytes = <<>> /\ letters = <<>>

EditLetters ==
  /\ edits < MaxEdits
  /\ \E i \in DOMAIN letters, c \in {0, Pad, Foreign} : letters' \in Edited(letters, i, c)
  /\ edits' = edits + 1
  /\ UNCHANGED <<bytes, units>>

CodecSpec == CodecInit /\ [][EditLetters]_codecVars

----------------------------------------------------------------------------
(* Properties *)

\* Every \u escape that parse_utf16 accepts, alone or as a surrogate pair,
\* comes out as one UTF-8 sequence of exactly its length, which
\* verify_utf8_sequence accepts as the code point that was meant; every
\* escape it refuses names no character.
EscapesGiveUtf8 ==
  LET r == parse_utf16(units)
      meant == IF Len(units) > 1 /\ IsLead(units[1]) /\ IsTrail(units[2])
               THEN 65536 + (units[1] - 55296) * 1024 + (units[2] - 56320)
               ELSE units[1]
  IN  IF r.ok
      THEN /\ verify_utf8_sequence(r.value) = meant
           /\ num_bytes_in_utf8_sequence(r.value[1]) = Len(r.value)
      ELSE IsLead(meant) \/ IsTrail(meant)

\* The bit at place k, from the left, of a sequence of digits of width w.
Powers == <<1, 2, 4, 8, 16, 32, 64, 128>>
BitAt(s, w, k) == (s[k \div w + 1] \div Powers[w - (k % w)]) % 2

\* base64_decode gives the whole bytes that the letters before the first
\* other character hold, bit for bit, whether the text is complete, cut off
\* or damaged.
DecodesLeadingLetters ==
  LET n == Cardinality({i \in DOMAIN letters : \A j \in 1..i : is_base64(letters[j])})
      out == base64_decode(letters)
  IN  /\ Len(out) = (6 * n) \div 8
      /\ \A k \in 0..(8 * Len(out) - 1) : BitAt(out, 8, k) = BitAt(letters, 6, k)

\* base64_encode pads to groups of four, and what it wrote decodes to the
\* bytes that went in, one or two more than a multiple of three included.
EncodesWhole ==
  edits = 0 => Len(letters) % 4 = 0 /\ base64_decode(letters) = bytes
=============================================================================
