---------------------------- MODULE RusiEncoding ----------------------------
(***************************************************************************)
(* The payload of a message on its way through the rusi transport:         *)
(* toUTF8Array makes bytes of a string, fromUTF8Array a string of bytes.   *)
(* A string is a sequence of UTF-16 code units.  As elsewhere in           *)
(* JavaScript, reading past the end and masking the result gives 0; masks  *)
(* and shifts are written as remainders and quotients, and `|` as a sum    *)
(* where the operands have no bit in common, which is everywhere.          *)
(***************************************************************************)
EXTENDS Integers, Sequences

Unit == {u \in Nat : u < 65536}
IsSurrogate(u) == 55296 <= u /\ u < 57344
IsHigh(u) == 55296 <= u /\ u < 56320
IsLow(u) == 56320 <= u /\ u < 57344

(* A string without half a surrogate pair.  JSON.stringify, with which     *)
(* serDes.ts makes every payload, writes a half one as an escape.          *)
WellFormed(str) ==
  \A i \in DOMAIN str :
    /\ IsHigh(str[i]) => i + 1 \in DOMAIN str /\ IsLow(str[i + 1])
    /\ IsLow(str[i]) => i - 1 \in DOMAIN str /\ IsHigh(str[i - 1])

At(s, i) == IF i \in DOMAIN s THEN s[i] ELSE 0

Tail6(n) == 128 + (n % 64)  \* 0x80 | (n & 0x3f)

(* Mutant: 0x800 is written in two bytes.                                  *)
UnitBytesShort(u) ==
  IF u < 128 THEN <<u>>
  ELSE IF u <= 2048 THEN <<192 + (u \div 64), Tail6(u)>>
  ELSE <<224 + (u \div 4096), Tail6(u \div 64), Tail6(u)>>

UnitBytes(u) ==
  IF u < 128 THEN <<u>>
  ELSE IF u < 2048 THEN <<192 + (u \div 64), Tail6(u)>>
  ELSE <<224 + (u \div 4096), Tail6(u \div 64), Tail6(u)>>

CodePoint(hi, lo) == 65536 + ((hi % 1024) * 1024) + (lo % 1024)

PairBytes(hi, lo) ==
  LET c == CodePoint(hi, lo) IN
    <<240 + (c \div 262144), Tail6(c \div 4096), Tail6(c \div 64), Tail6(c)>>

toUTF8Array(str) ==
  LET from[i \in 1..(Len(str) + 2)] ==
        IF i > Len(str) THEN << >>
        ELSE IF IsSurrogate(str[i])
          THEN PairBytes(str[i], At(str, i + 1)) \o from[i + 2]
          ELSE UnitBytes(str[i]) \o from[i + 1]
  IN from[1]

-----------------------------------------------------------------------------
Bits6(data, i) == At(data, i) % 64

(* How many bytes the character has that begins at a byte.                 *)
Width(byte) ==
  IF byte < 128 THEN 1
  ELSE IF 191 < byte /\ byte < 224 THEN 2
  ELSE IF 223 < byte /\ byte < 240 THEN 3
  ELSE 4

(* The code units of the character that begins at data[i].                 *)
UnitsAt(data, i) ==
  CASE Width(data[i]) = 1 -> <<data[i]>>
    [] Width(data[i]) = 2 -> <<((data[i] % 32) * 64) + Bits6(data, i + 1)>>
    [] Width(data[i]) = 3 ->
         <<(data[i] % 16) * 4096 + Bits6(data, i + 1) * 64 + Bits6(data, i + 2)>>
    [] OTHER ->
         LET c == (data[i] % 8) * 262144 + Bits6(data, i + 1) * 4096
                    + Bits6(data, i + 2) * 64 + Bits6(data, i + 3) - 65536
         IN <<55296 + (c \div 1024), 56320 + (c % 1024)>>

fromUTF8Array(data) ==
  LET from[i \in 1..(Len(data) + 4)] ==
        IF i > Len(data) THEN << >>
        ELSE UnitsAt(data, i) \o from[i + Width(data[i])]
  IN from[1]
=============================================================================
