---- MODULE Erlang ----
(***************************************************************************)
(* The Erlang codecs (src/src/generators/erlang.ts): the text of a term, a *)
(* sequence of tokens, and the external term format, a sequence of cells.  *)
(* A string that starts with a colon is an atom. An atom's name is a       *)
(* sequence of cells too; the names true, false, nil and undefined are the *)
(* texts of the values they stand for. What is in quotes is one token for  *)
(* each character, the quotes among them.                                  *)
(***************************************************************************)
EXTENDS Varint

Colon == <<0>>
Quote == <<2>>
Newline == <<3>>
Apostrophe == <<4>>
LetterN == <<6>>
Backslash == <<7>>
Fails == <<"fails">>
isAtom(v) == Is(v, "string") /\ v[2] # <<>> /\ v[2][1] = Colon
atomName(v) == Tail(v[2])
named(v) == <<Text(v)>>

(* What an atom stands for: __wizParseTextAtomVal and parseAtomVal. *)
parseAtomVal(name) ==
  IF isText(name) /\ name[1][2][1] \in {"bool", "null", "undefined"} THEN name[1][2]
  ELSE Str(<<Colon>> \o name)

(* An integer comes back as a number when a number can hold it. *)
integerVal(n) == IF abs(n) <= Safe THEN Whole(n) ELSE Big(n)

(* --------------------------------- text --------------------------------- *)

RECURSIVE formatVal(_), separated(_)
separated(parts) == IF Len(parts) <= 1 THEN concat(parts)
                    ELSE Head(parts) \o <<<<",">>>> \o separated(Tail(parts))
(* The emitted expressions replace a backslash by a backslash: it stands in the *)
(* text as it is, before whatever came after it in the string.             *)
escaped(cells) ==
  concat([i \in 1..Len(cells) |-> CASE cells[i] = Quote -> <<Backslash, Quote>>
                                     [] cells[i] = Newline -> <<Backslash, LetterN>>
                                     [] OTHER -> <<cells[i]>>])
escapedName(name) ==
  concat([i \in 1..Len(name) |-> IF name[i] = Apostrophe THEN <<Backslash, Apostrophe>> ELSE <<name[i]>>])
quoted(mark, cells) ==
  <<<<"char", mark>>>> \o [i \in 1..Len(cells) |-> <<"char", cells[i]>>] \o <<<<"char", mark>>>>
(* A name of letters and digits needs no quotes. *)
bare(name) ==
  name # <<>> /\ \A i \in 1..Len(name) : name[i] \notin {Colon, Quote, Newline, Apostrophe, Backslash}
atomText(name) == IF bare(name) THEN <<<<"atom", name>>>> ELSE quoted(Apostrophe, escapedName(name))

formatVal(v) ==
  CASE v[1] \in {"null", "undefined", "bool"} -> <<<<"atom", named(v)>>>>
    [] v[1] \in {"num", "bigint"} -> <<<<"digits", v>>>>
    [] Is(v, "string") -> IF isAtom(v) THEN atomText(atomName(v)) ELSE quoted(Quote, escaped(v[2]))
    [] Is(v, "bytes") -> <<<<"<<">>>> \o separated([i \in 1..Len(v[2]) |-> <<<<"digits", Whole(v[2][i][1])>>>>]) \o <<<<">>">>>>
    [] Is(v, "date") -> quoted(Quote, named(v))
    [] Is(v, "array") -> <<<<"[">>>> \o separated([i \in 1..Len(v[2]) |-> formatVal(v[2][i])]) \o <<<<"]">>>>
    [] OTHER -> <<<<"#{">>>>
                \o separated([i \in 1..Len(v[2]) |->
                     <<<<"atom", keyCells(v[2][i][1])>>, <<"=>">>>> \o formatVal(v[2][i][2])])
                \o <<<<"}">>>>

encodeErlangText(v) == formatVal(v)

token(toks, i) == IF i <= Len(toks) THEN toks[i][1] ELSE "end"
closed(toks, i, close) == IF token(toks, i) = close THEN i + 1 ELSE i
characterOf(tok) == IF tok[1] = "char" THEN tok[2] ELSE Text(tok)

(* What is in quotes, up to the next mark that no backslash stands before. *)
RECURSIVE readQuoted(_, _, _, _)
readQuoted(toks, i, mark, cells) ==
  LET c == characterOf(toks[i])
      next == IF i < Len(toks) THEN characterOf(toks[i + 1]) ELSE Text(Undef)
      meant == IF mark = Quote /\ next = LetterN THEN Newline ELSE next
  IN CASE i > Len(toks) -> <<cells, i>>
       [] i <= Len(toks) /\ c = mark -> <<cells, i + 1>>
       [] i <= Len(toks) /\ c = Backslash -> readQuoted(toks, i + 2, mark, Append(cells, meant))
       [] OTHER -> readQuoted(toks, i + 1, mark, Append(cells, c))

(* BigInt for digits alone, parseFloat for a fraction. *)
parseDigits(v) == IF Is(v, "num") /\ v[2] % 2 = 1 THEN v ELSE integerVal(toInteger(v))

RECURSIVE parseTerm(_, _), parseTerms(_, _, _), parsePairs(_, _, _)
parseTerms(toks, i, terms) ==
  LET term == parseTerm(toks, i)
      more == Append(terms, term[1])
  IN IF token(toks, term[2]) = "," THEN parseTerms(toks, term[2] + 1, more) ELSE <<more, term[2]>>
parsePairs(toks, i, pairs) ==
  LET value == parseTerm(toks, i + 2)
      key == IF token(toks, i) = "atom" THEN keyOf(toks[i][2]) ELSE ""
      more == Append(pairs, <<key, value[1]>>)
  IN IF token(toks, value[2]) = "," THEN parsePairs(toks, value[2] + 1, more) ELSE <<more, value[2]>>

parseTerm(toks, i) ==
  LET empty(close) == token(toks, i + 1) = close
      terms == parseTerms(toks, i + 1, <<>>)
      pairs == parsePairs(toks, i + 1, <<>>)
      string == readQuoted(toks, i + 1, Quote, <<>>)
      name == readQuoted(toks, i + 1, Apostrophe, <<>>)
  IN CASE token(toks, i) = "[" -> IF empty("]") THEN <<Arr(<<>>), i + 2>> ELSE <<Arr(terms[1]), closed(toks, terms[2], "]")>>
       [] token(toks, i) = "<<" ->
            IF empty(">>") THEN <<Bytes(<<>>), i + 2>>
            ELSE <<Bytes([k \in 1..Len(terms[1]) |-> <<trunc(terms[1][k][2])>>]), closed(toks, terms[2], ">>")>>
       [] token(toks, i) = "#{" -> IF empty("}") THEN <<Obj(<<>>), i + 2>> ELSE <<Obj(pairs[1]), closed(toks, pairs[2], "}")>>
       [] token(toks, i) = "char" /\ toks[i][2] = Quote -> <<Str(string[1]), string[2]>>
       [] token(toks, i) = "char" /\ toks[i][2] = Apostrophe -> <<parseAtomVal(name[1]), name[2]>>
       [] token(toks, i) = "atom" -> <<parseAtomVal(toks[i][2]), i + 1>>
       [] token(toks, i) = "digits" -> <<parseDigits(toks[i][2]), i + 1>>
       [] OTHER -> <<Fails, i>>

decodeErlangText(toks) == parseTerm(toks, 1)[1]

(* -------------------------------- binary -------------------------------- *)

u8(n) == <<<<n>>>>
atomCells(name) == u8(119) \o u8(Len(name)) \o name
binaryCells(cells) == u8(109) \o u8(Len(cells)) \o cells

RECURSIVE littleEndian(_), fromLittleEndian(_), encodeTerm(_)
littleEndian(n) == IF n < 2 * Radix THEN u8(n) ELSE u8(n % (2 * Radix)) \o littleEndian(n \div (2 * Radix))
fromLittleEndian(cells) == IF cells = <<>> THEN 0 ELSE cells[1][1] + 2 * Radix * fromLittleEndian(Tail(cells))

encodeTerm(v) ==
  CASE v[1] \in {"null", "undefined", "bool"} -> atomCells(named(v))
    [] Is(v, "num") ->
         LET n == trunc(v[2])
         IN CASE v[2] % 2 = 0 /\ n \in 0..Two8 - 1 -> u8(97) \o u8(n)
              [] v[2] % 2 = 0 /\ n \in -(Two32 \div 2)..Two32 \div 2 - 1 /\ n \notin 0..Two8 - 1 -> u8(98) \o fixed32(n)
              [] OTHER -> u8(70) \o fixed64(v[2])
    [] Is(v, "bigint") ->
         LET b == littleEndian(abs(v[2]))
         IN u8(110) \o u8(Len(b)) \o u8(IF v[2] < 0 THEN 1 ELSE 0) \o b
    [] Is(v, "string") -> IF isAtom(v) THEN atomCells(atomName(v)) ELSE binaryCells(v[2])
    [] Is(v, "bytes") -> binaryCells(v[2])
    [] Is(v, "date") -> binaryCells(named(v))
    [] Is(v, "array") ->
         IF v[2] = <<>> THEN u8(106)
         ELSE u8(108) \o u8(Len(v[2])) \o concat([i \in 1..Len(v[2]) |-> encodeTerm(v[2][i])]) \o u8(106)
    [] OTHER -> u8(116) \o u8(Len(v[2]))
                \o concat([i \in 1..Len(v[2]) |-> atomCells(keyCells(v[2][i][1])) \o encodeTerm(v[2][i][2])])

encodeErlangBinary(v) == u8(131) \o encodeTerm(v)

RECURSIVE decodeTerm(_, _), decodeTerms(_, _, _, _)
decodeTerms(buf, o, n, terms) ==
  IF n = 0 THEN <<terms, o>>
  ELSE LET term == decodeTerm(buf, o) IN decodeTerms(buf, term[2], n - 1, Append(terms, term[1]))

decodeTerm(buf, o) ==
  LET tag == byte(buf, o)
      len == byte(buf, o + 1)
      run(at) == sub(buf, at, at + len)
      terms == decodeTerms(buf, o + 2, IF tag = 116 THEN 2 * len ELSE len, <<>>)
      (* A key is an atom, whose name is what parseAtomVal put behind the colon. *)
      key(i) == LET k == terms[1][2 * i - 1] IN IF isAtom(k) THEN keyOf(atomName(k)) ELSE ""
  IN CASE o > Len(buf) -> <<Fails, o>>
       [] tag = 97 -> <<Whole(len), o + 2>>
       [] tag = 98 -> <<Whole(asIntN(Two32, len)), o + 2>>
       [] tag = 70 -> <<Num(asIntN(Two64, readFixed64(buf, o + 1))), o + 3>>
       [] tag = 110 ->
            LET n == fromLittleEndian(run(o + 3))
            IN <<integerVal(IF byte(buf, o + 2) = 1 THEN -n ELSE n), o + 3 + len>>
       [] tag = 119 -> <<parseAtomVal(run(o + 2)), o + 2 + len>>
       [] tag = 109 -> <<Str(run(o + 2)), o + 2 + len>>
       [] tag = 106 -> <<Arr(<<>>), o + 1>>
       [] tag = 108 -> <<Arr(terms[1]), terms[2] + 1>>
       [] tag = 116 -> <<Obj([i \in 1..len |-> <<key(i), terms[1][2 * i]>>]), terms[2]>>
       [] OTHER -> <<Fails, o>>

decodeErlangBinary(buf) == IF byte(buf, 1) # 131 THEN Fails ELSE decodeTerm(buf, 2)[1]
====
