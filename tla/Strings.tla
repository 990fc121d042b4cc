------------------------------- MODULE Strings -------------------------------
(***************************************************************************)
(* The string_t of src/src/string/string.c: a pointer and a count of       *)
(* bytes, with no state of its own.  The operators below are its           *)
(* functions.  A byte is its number, and {NULL, 0} is told apart from a    *)
(* string of no bytes, as the code does in places.                         *)
(***************************************************************************)
EXTENDS Integers, Sequences, FiniteSets, FiniteSetsExt, SequencesExt

CONSTANTS
  IntBuf,    (* the size of string_to_int's buffer: 24 in the code          *)
  IntMax     (* the largest long long                                       *)

Null    == [ptr |-> FALSE, bytes |-> <<>>]
Str(bs) == [ptr |-> TRUE, bytes |-> bs]
Size(s) == Len(s.bytes)
NotFound == -1   (* STRING_NOT_FOUND *)

(* string_copy, and with it strbuf_to_string: nothing is copied of an      *)
(* empty string.                                                           *)
Copy(s) == IF s.bytes = <<>> THEN Null ELSE s

(* string_slice of the bytes from start, counted from 0, to before end.    *)
Slice(s, start, end) ==
  IF ~s.ptr \/ start >= Size(s) \/ end <= start THEN Null
  ELSE Str(SubSeq(s.bytes, start + 1, IF end > Size(s) THEN Size(s) ELSE end))

-----------------------------------------------------------------------------
AsciiLower(c) == IF c \in 65 .. 90 THEN c + 32 ELSE c
AsciiUpper(c) == IF c \in 97 .. 122 THEN c - 32 ELSE c
ToLower(s) == Copy([s EXCEPT !.bytes = [i \in DOMAIN @ |-> AsciiLower(@[i])]])
ToUpper(s) == Copy([s EXCEPT !.bytes = [i \in DOMAIN @ |-> AsciiUpper(@[i])]])

Equals(a, b) == a.bytes = b.bytes
EqualsCI(a, b) ==
  /\ Size(a) = Size(b)
  /\ \A i \in 1 .. Size(a) : AsciiLower(a.bytes[i]) = AsciiLower(b.bytes[i])

(* The sign of a comparison by the first byte that differs, each seen      *)
(* through Fold, and else by length.                                       *)
Sign(n) == CASE n < 0 -> -1 [] n = 0 -> 0 [] n > 0 -> 1
ComparedBy(a, b, Fold(_)) ==
  LET n == Min({Size(a), Size(b)})
      differ == {i \in 1 .. n : Fold(a.bytes[i]) # Fold(b.bytes[i])}
  IN IF differ = {} THEN Sign(Size(a) - Size(b))
     ELSE Sign(Fold(a.bytes[Min(differ)]) - Fold(b.bytes[Min(differ)]))
Compare(a, b)   == ComparedBy(a, b, LAMBDA c : c)
CompareCI(a, b) == ComparedBy(a, b, AsciiLower)

(* string_hash and string_hash_case_insensitive: FNV-1a over the bytes,    *)
(* whose mixing is abstracted to the sequence it is fed; nothing hashes    *)
(* to 0 whether it is {NULL, 0} or not.                                    *)
HashRaw(s) == s.bytes
HashCI(s) == [i \in DOMAIN s.bytes |-> AsciiLower(s.bytes[i])]

-----------------------------------------------------------------------------
StartsWith(s, p) == Size(p) <= Size(s) /\ SubSeq(s.bytes, 1, Size(p)) = p.bytes
EndsWith(s, p) ==
  Size(p) <= Size(s) /\ SubSeq(s.bytes, Size(s) - Size(p) + 1, Size(s)) = p.bytes

Earliest(hits) == IF hits = {} THEN NotFound ELSE Min(hits)
Latest(hits)   == IF hits = {} THEN NotFound ELSE Max(hits)
CharHits(s, cs) == {i \in 0 .. Size(s) - 1 : s.bytes[i + 1] \in cs}
FindChar(s, c)   == Earliest(CharHits(s, {c}))
RFindChar(s, c)  == Latest(CharHits(s, {c}))
CharsetFind(s, set) == Earliest(CharHits(s, Range(set.bytes)))
Find(s, needle) ==
  IF needle.bytes = <<>> THEN 0
  ELSE Earliest({i \in 0 .. Size(s) - Size(needle) :
                SubSeq(s.bytes, i + 1, i + Size(needle)) = needle.bytes})
HasSub(s, needle) == Find(s, needle) # NotFound

(* string_trim: the blanks at either end go, one byte after another.       *)
IsSpace(c) == c \in 9 .. 13 \cup {32}
RECURSIVE TrimLeft(_), TrimRight(_)
TrimLeft(s) ==
  IF s.bytes # <<>> /\ IsSpace(Head(s.bytes)) THEN TrimLeft([s EXCEPT !.bytes = Tail(@)]) ELSE s
TrimRight(s) ==
  IF s.bytes # <<>> /\ IsSpace(s.bytes[Size(s)]) THEN TrimRight([s EXCEPT !.bytes = Front(@)]) ELSE s
Trim(s) == TrimRight(TrimLeft(s))

-----------------------------------------------------------------------------
(* split_next of string_split_substr and string_split_any: the token at    *)
(* pos and the position after its boundary; past the end of the string     *)
(* the iterator is exhausted.                                              *)
Split(s, delim, any, pos) ==
  LET remaining == [s EXCEPT !.bytes = SubSeq(@, pos + 1, Len(@))]
      off == CASE delim.bytes = <<>> -> NotFound
               [] delim.bytes # <<>> /\ any -> CharsetFind(remaining, delim)
               [] OTHER -> Find(remaining, delim)
      blen == IF any THEN 1 ELSE Size(delim)
  IN IF off = NotFound THEN [token |-> remaining, pos |-> Size(s) + 1]
     ELSE [token |-> [remaining EXCEPT !.bytes = SubSeq(@, 1, off)], pos |-> pos + off + blen]
RECURSIVE Tokens(_, _, _, _)
Tokens(s, delim, any, pos) ==
  IF pos > Size(s) THEN <<>>
  ELSE LET t == Split(s, delim, any, pos) IN
       <<t.token.bytes>> \o Tokens(s, delim, any, t.pos)

(* string_split_next: the piece before sep and the rest after it, which is *)
(* {NULL, 0} after the last piece only.                                    *)
RestSliced(s, i) == Slice(s, i + 1, Size(s))
RestAfter(s, i) == Str(SubSeq(s.bytes, i + 2, Size(s)))
SplitNext(rest, sep) ==
  LET i == FindChar(rest, sep) IN
  IF i = NotFound THEN [token |-> rest, rest |-> Null]
  ELSE [token |-> Str(SubSeq(rest.bytes, 1, i)), rest |-> RestAfter(rest, i)]
RECURSIVE Pieces(_, _)
Pieces(rest, sep) ==
  IF ~rest.ptr THEN <<>>
  ELSE LET t == SplitNext(rest, sep) IN <<t.token.bytes>> \o Pieces(t.rest, sep)

-----------------------------------------------------------------------------
(* string_to_int: strtoll of a NUL-terminated copy, which skips blanks and *)
(* takes a sign, and must end at a NUL, the one added or one within.       *)
Digit(c) == c \in 48 .. 57
RECURSIVE Decimal(_)
Decimal(ds) == IF ds = <<>> THEN 0 ELSE Decimal(Front(ds)) * 10 + ds[Len(ds)] - 48
ToInt(s) ==
  LET nul    == FindChar(s, 0)
      text   == TrimLeft(IF nul = NotFound THEN s ELSE Str(SubSeq(s.bytes, 1, nul))).bytes
      signed == text # <<>> /\ Head(text) \in {43, 45}
      digits == IF signed THEN Tail(text) ELSE text
      value  == (IF signed /\ Head(text) = 45 THEN -1 ELSE 1) * Decimal(digits)
  IN IF /\ s.bytes # <<>> /\ Size(s) < IntBuf
        /\ digits # <<>> /\ \A i \in DOMAIN digits : Digit(digits[i])
        /\ value \in -IntMax - 1 .. IntMax
     THEN [ok |-> TRUE, value |-> value]
     ELSE [ok |-> FALSE, value |-> 0]

(* What strbuf_append_int formats.                                         *)
RECURSIVE Digits(_)
Digits(n) == IF n < 10 THEN <<48 + n>> ELSE Append(Digits(n \div 10), 48 + (n % 10))
IntText(n) == IF n < 0 THEN Str(<<45>> \o Digits(-n)) ELSE Str(Digits(n))
=============================================================================
