-------------------------------- MODULE Utf8 --------------------------------
(***************************************************************************)
(* Unicode in common/json/parson.c: a \uXXXX escape gives one UTF-16 unit, *)
(* a pair of them above 0xFFFF, and comes out as UTF-8.                    *)
(***************************************************************************)
EXTENDS Integers, Sequences

\* What a function that reads returns: what it read and the place after it.
Good(v, at) == [ok |-> TRUE, value |-> v, at |-> at]
Bad == [ok |-> FALSE, value |-> <<>>, at |-> 0]

\* n >> s and a mask of b bits, for unit = 2^s and range = 2^b.
Bits(n, unit, range) == (n \div unit) % range
Continuation(cp, unit) == 128 + Bits(cp, unit, 64)

\* Mutant: 0x10000 is not added.
SurrogateWithoutPlane(lead, trail) == (lead - 55296) * 1024 + (trail - 56320)

Surrogate(lead, trail) == 65536 + (lead - 55296) * 1024 + (trail - 56320)

IsLead(u) == 55296 <= u /\ u <= 56319
IsTrail(u) == 56320 <= u /\ u <= 57343

parse_utf16(units) ==
  LET lead == units[1]
      surrogate == Surrogate(lead, units[2])
  IN  CASE lead < 128 -> Good(<<lead>>, 1)
        [] lead >= 128 /\ lead < 2048 -> Good(<<192 + Bits(lead, 64, 32), Continuation(lead, 1)>>, 1)
        [] lead >= 2048 /\ ~IsLead(lead) /\ ~IsTrail(lead) ->
             Good(<<224 + Bits(lead, 4096, 16), Continuation(lead, 64), Continuation(lead, 1)>>, 1)
        [] IsLead(lead) /\ Len(units) > 1 /\ IsTrail(units[2]) ->
             Good(<<240 + Bits(surrogate, 262144, 8), Continuation(surrogate, 4096),
                    Continuation(surrogate, 64), Continuation(surrogate, 1)>>, 2)
        [] OTHER -> Bad

IS_CONT(b) == b \div 64 = 2

num_bytes_in_utf8_sequence(c) ==
  CASE c \in {192, 193} \/ c > 244 \/ IS_CONT(c) -> 0
    [] c < 128 -> 1
    [] c \div 32 = 6 -> 2
    [] c \div 16 = 14 -> 3
    [] OTHER -> 4

\* The code point of the first sequence of bytes, or -1; bytes ends with NUL.
verify_utf8_sequence(bytes) ==
  LET len == num_bytes_in_utf8_sequence(bytes[1])
      cont(i) == bytes[i] % 64
      cp == CASE len = 1 -> bytes[1]
              [] len = 2 -> (bytes[1] % 32) * 64 + cont(2)
              [] len = 3 -> ((bytes[1] % 16) * 64 + cont(2)) * 64 + cont(3)
              [] len = 4 -> (((bytes[1] % 8) * 64 + cont(2)) * 64 + cont(3)) * 64 + cont(4)
  IN  IF \/ len = 0
         \/ \E i \in 2..len : i > Len(bytes) \/ ~IS_CONT(bytes[i])
         \/ len > 1 /\ cp < 128
         \/ len > 2 /\ cp < 2048
         \/ len > 3 /\ cp < 65536
         \/ cp > 1114111
         \/ IsLead(cp) \/ IsTrail(cp)
      THEN -1 ELSE cp
=============================================================================
