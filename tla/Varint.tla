---- MODULE Varint ----
(***************************************************************************)
(* The binary helpers the protobuf and avro codecs are written with. A     *)
(* wire is a sequence of cells; a reader takes an offset and returns       *)
(* <<result, next offset>>, and what lies past the end reads as zero, as   *)
(* undefined does in the code's bitwise expressions.                       *)
(***************************************************************************)
EXTENDS Validator

concat(seqs) == LET upTo[i \in 0..Len(seqs)] == IF i = 0 THEN <<>> ELSE upTo[i - 1] \o seqs[i]
                IN upTo[Len(seqs)]

byte(buf, o) == IF o <= Len(buf) /\ Len(buf[o]) = 1 THEN buf[o][1] ELSE 0

RECURSIVE groups(_), readGroups(_, _, _, _)
groups(n) == IF n < Radix THEN <<<<n>>>> ELSE <<<<(n % Radix) + Radix>>>> \o groups(n \div Radix)
readGroups(buf, o, scale, res) ==
  LET b == byte(buf, o)  sum == res + (b % Radix) * scale
  IN IF b < Radix THEN <<sum, o + 1>> ELSE readGroups(buf, o + 1, scale * Radix, sum)

writeVarint64(n) == groups(asUintN(Two64, n))
writeVarint(n) == IF n < 0 THEN writeVarint64(n) ELSE groups(n)
readVarint(buf, o) == readGroups(buf, o, 1, 0)
readVarint64(buf, o) == LET signed(r) == <<asIntN(Two64, r[1]), r[2]>> IN signed(readVarint(buf, o))
(* (v << 1) ^ (v >> 63), which for a v beyond int64 is not its zig-zag. *)
zigZag(n) == asUintN(Two64, IF n < 0 THEN -2 * n - 1 ELSE IF n < Two64 \div 2 THEN 2 * n ELSE 2 * n + 1)
unZigZag(u) == IF u % 2 = 0 THEN u \div 2 ELSE -(u \div 2) - 1
writeZigZag(n) == groups(zigZag(n))
readZigZag(buf, o) ==
  LET plain(r) == <<unZigZag(asUintN(Two64, r[1])), r[2]>> IN plain(readVarint64(buf, o))

(* A run of cells behind its length. *)
lengthDelimited(cells) == writeVarint(Len(cells)) \o cells
sub(buf, start, stop) == SubSeq(buf, start, IF stop > Len(buf) + 1 THEN Len(buf) ELSE stop - 1)
readDelimited(buf, o) ==
  LET of(len) == <<sub(buf, len[2], len[2] + len[1]), len[2] + len[1]>> IN of(readVarint(buf, o))

(* The 32 and 64 bits of a DataView, in one cell and in two. *)
fixed32(n) == <<<<asUintN(Two32, n)>>>>
fixed64(n) == LET u == asUintN(Two64, n) IN <<<<u % (2 * Radix)>>, <<u \div (2 * Radix)>>>>
readFixed64(buf, o) == byte(buf, o) + byte(buf, o + 1) * 2 * Radix
====
