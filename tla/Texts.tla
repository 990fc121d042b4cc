-------------------------------- MODULE Texts --------------------------------
(***************************************************************************)
(* What of src/src/string/string.c has a state: the builder strbuf_t, a    *)
(* handle on a vec_t of bytes, and string_join and string_replace, which   *)
(* build their result in one.                                              *)
(*                                                                         *)
(* A call on the caller's own builder is one step; a join is a step for    *)
(* each token that the split iterator it is given yields, a replacement a  *)
(* step for each occurrence.  Every allocation may be refused.             *)
(***************************************************************************)
EXTENDS Strings

CONSTANTS
  Sources,   (* the strings that are split, searched and appended           *)
  Delims,    (* and those they are split by, searched for and joined with   *)
  Questions, (* the strings of the calls that only look                     *)
  InitCap,   (* of a vec_t: 16 in the code                                  *)
  StackBuf,  (* strbuf_append_fmt formats more in a block of the allocator:  *)
             (* 256 in the code                                             *)
  MaxLen     (* a builder of more bytes than this is always refused         *)

ASSUME TextsAssumption == InitCap \in Nat \ {0} /\ MaxLen \in Nat

VARIABLES
  pc,        (* "idle", "build" with a builder of the caller's, or in a call *)
  call,      (* the arguments and position of the last call                 *)
  sb,        (* the strbuf_t, if there is one                               *)
  result,    (* the string the last call returned                           *)
  ret,       (* or its status                                               *)
  denied,    (* an allocation of the call has been refused                  *)
  blocks     (* allocator blocks not yet freed                              *)

vars == <<pc, call, sb, result, ret, denied, blocks>>

NoBuilder == [on |-> FALSE, chars |-> <<>>, cap |-> 0]
NewBuilder == [NoBuilder EXCEPT !.on = TRUE]
NoCall == [op |-> "none", s |-> Null, d |-> Null, with |-> Null, any |-> FALSE, pos |-> 0]

Init ==
  /\ pc = "idle" /\ call = NoCall /\ sb = NoBuilder
  /\ result = Null /\ ret = "none" /\ denied = FALSE /\ blocks = 0

(* The handle, the vec_t and its buffer; vec_destroy frees the last two.   *)
HandleOnly(b) == 1
BuilderBlocks(b) == IF b.cap = 0 THEN 2 ELSE 3

-----------------------------------------------------------------------------
(* strbuf_append of the bytes, pushed one by one: what it may come to.     *)
RECURSIVE Appended(_, _)
Appended(b, bytes) ==
  IF bytes = <<>> THEN {[sb |-> b, ok |-> TRUE, gain |-> 0]}
  ELSE LET full   == Len(b.chars) = b.cap
           newcap == IF b.cap = 0 THEN InitCap ELSE b.cap * 2
           pushed == [b EXCEPT !.chars = Append(@, Head(bytes)), !.cap = IF full THEN newcap ELSE @]
           more   == IF full /\ newcap > MaxLen THEN {} ELSE Appended(pushed, Tail(bytes))
       IN {[o EXCEPT !.gain = @ + IF b.cap = 0 THEN 1 ELSE 0] : o \in more}
            \cup IF full THEN {[sb |-> b, ok |-> FALSE, gain |-> 0]} ELSE {}

(* Two strings one after the other, the second only if the first was.      *)
BothAppended(b, one, two) ==
  UNION {IF o.ok THEN {[p EXCEPT !.gain = @ + o.gain] : p \in Appended(o.sb, two)} ELSE {o} :
           o \in Appended(b, one)}

-----------------------------------------------------------------------------
(* The caller's own builder.  *)

Calm == pc = "idle" /\ call = NoCall
Building == pc = "build" /\ ~result.ptr

(* A handle whose vec_t is refused is freed again.  *)
Create ==
  /\ Calm
  /\ \/ sb' = NewBuilder /\ blocks' = blocks + 2 /\ pc' = "build" /\ ret' = "OK"
     \/ ret' = "OOM" /\ UNCHANGED <<sb, blocks, pc>>
  /\ UNCHANGED <<call, result, denied>>
Destroy ==
  /\ Building
  /\ blocks' = blocks - BuilderBlocks(sb) /\ sb' = NoBuilder /\ pc' = "idle" /\ ret' = "OK"
  /\ UNCHANGED <<call, result, denied>>

Outcome(o) == sb' = o.sb /\ ret' = (IF o.ok THEN "OK" ELSE "OOM") /\ blocks' = blocks + o.gain

AppendTo(s) ==
  /\ Building
  /\ \E o \in Appended(sb, s.bytes) : Outcome(o)
  /\ UNCHANGED <<pc, call, result, denied>>
(* strbuf_append_int is such a call with IntText of the number.             *)
(* The block for a long text is freed whatever becomes of the pushes.      *)
AppendFmtRefused(s) ==
  /\ Building /\ Size(s) + 1 > StackBuf
  /\ ret' = "OOM" /\ UNCHANGED <<pc, call, sb, result, denied, blocks>>

Truncate(n) ==
  /\ Building
  /\ sb' = [sb EXCEPT !.chars = IF n < Len(@) THEN SubSeq(@, 1, n) ELSE @]
  /\ ret' = "OK" /\ UNCHANGED <<pc, call, result, denied, blocks>>
Clear ==
  /\ Building
  /\ sb' = [sb EXCEPT !.chars = <<>>] /\ ret' = "OK"
  /\ UNCHANGED <<pc, call, result, denied, blocks>>

(* strbuf_to_string of builder b, or nothing: the result of every call     *)
(* that makes a string, with gain blocks changed besides it.               *)
Returns(s, gain) ==
  \/ /\ s.bytes = <<>> /\ result' = Null /\ blocks' = blocks + gain /\ denied' = FALSE
  \/ /\ s.bytes # <<>> /\ result' = Copy(s) /\ blocks' = blocks + gain + 1 /\ denied' = FALSE
  \/ /\ s.bytes # <<>> /\ result' = Null /\ blocks' = blocks + gain /\ denied' = TRUE
TakeString ==
  /\ Building
  /\ Returns(Str(sb.chars), 0) /\ ret' = "none"
  /\ UNCHANGED <<pc, call, sb>>

(* The caller frees the result of a call, if it has one, before the next.  *)
FreeResult ==
  /\ pc \in {"idle", "build"} /\ (result.ptr \/ call # NoCall)
  /\ result' = Null /\ blocks' = (IF result.ptr THEN blocks - 1 ELSE blocks)
  /\ call' = NoCall /\ denied' = FALSE
  /\ UNCHANGED <<pc, sb, ret>>

-----------------------------------------------------------------------------
(* string_join of string_split_substr or string_split_any, whose state is  *)
(* a block.  An iterator that is refused its state is invalid; a builder   *)
(* that is refused costs the iterator.                                     *)

JoinCall(s, d, any, sep) ==
  /\ Calm
  /\ call' = [op |-> "join", s |-> s, d |-> d, with |-> sep, any |-> any, pos |-> 0]
  /\ ret' = "none" /\ UNCHANGED result
  /\ \/ sb' = NewBuilder /\ blocks' = blocks + 3 /\ pc' = "join" /\ denied' = FALSE
     \/ denied' = TRUE /\ UNCHANGED <<sb, blocks, pc>>

JoinToken ==
  /\ pc = "join" /\ call.pos <= Size(call.s) /\ ~denied
  /\ LET t == Split(call.s, call.d, call.any, call.pos)
         sep == IF call.pos = 0 THEN <<>> ELSE call.with.bytes
     IN /\ call' = [call EXCEPT !.pos = t.pos]
        /\ \E o \in BothAppended(sb, sep, t.token.bytes) :
             sb' = o.sb /\ denied' = ~o.ok /\ blocks' = blocks + o.gain
  /\ UNCHANGED <<pc, result, ret>>

(* What is left when the loop is over: the result, if nothing failed, and  *)
(* the iterator's and the builder's blocks are given back.                 *)
Finish(owned) ==
  /\ IF denied THEN result' = Null /\ blocks' = blocks - owned /\ UNCHANGED denied
               ELSE Returns(Str(sb.chars), -owned)
  /\ sb' = NoBuilder /\ pc' = "idle" /\ UNCHANGED <<call, ret>>
JoinEnd ==
  /\ pc = "join" /\ (denied \/ call.pos > Size(call.s))
  /\ Finish(BuilderBlocks(sb) + 1)

(* string_replace.  An empty needle is nowhere: s is copied.               *)
ReplaceCall(s, needle, with) ==
  /\ Calm
  /\ call' = [op |-> "replace", s |-> s, d |-> needle, with |-> with, any |-> FALSE, pos |-> 0]
  /\ ret' = "none"
  /\ IF needle.bytes = <<>>
     THEN Returns(s, 0) /\ UNCHANGED <<sb, pc>>
     ELSE /\ UNCHANGED result
          /\ \/ sb' = NewBuilder /\ blocks' = blocks + 2 /\ pc' = "replace" /\ denied' = FALSE
             \/ denied' = TRUE /\ UNCHANGED <<sb, blocks, pc>>

NextByte(found, needle) == found + 1
PastMatch(found, needle) == found + Size(needle)
ReplaceTurn ==
  /\ pc = "replace" /\ call.pos < Size(call.s) /\ ~denied
  /\ LET remaining == Slice(call.s, call.pos, Size(call.s))
         found == Find(remaining, call.d)
     IN \E o \in (IF found = NotFound THEN Appended(sb, remaining.bytes)
                  ELSE BothAppended(sb, Slice(remaining, 0, found).bytes, call.with.bytes)) :
          /\ sb' = o.sb /\ denied' = ~o.ok /\ blocks' = blocks + o.gain
          /\ call' = [call EXCEPT !.pos = IF found = NotFound THEN Size(call.s)
                                          ELSE @ + PastMatch(found, call.d)]
  /\ UNCHANGED <<pc, result, ret>>
ReplaceEnd ==
  /\ pc = "replace" /\ (denied \/ call.pos >= Size(call.s))
  /\ Finish(BuilderBlocks(sb))

(* The calls that only look at two strings.  *)
Look(a, b) ==
  /\ Calm
  /\ call' = [NoCall EXCEPT !.op = "look", !.s = a, !.d = b]
  /\ ret' = "none" /\ denied' = FALSE /\ UNCHANGED <<pc, sb, result, blocks>>

-----------------------------------------------------------------------------
Next ==
  \/ Create \/ Destroy \/ Clear \/ TakeString \/ FreeResult
  \/ \E s \in Delims : AppendTo(s) \/ AppendFmtRefused(s)
  \/ \E n \in 0 .. MaxLen : Truncate(n)
  \/ \E s \in Sources, d, with \in Delims :
       \/ ReplaceCall(s, d, with)
       \/ \E any \in BOOLEAN : JoinCall(s, d, any, with)
  \/ JoinToken \/ JoinEnd \/ ReplaceTurn \/ ReplaceEnd
  \/ \E a, b \in Questions : Look(a, b)

Spec == Init /\ [][Next]_vars

-----------------------------------------------------------------------------
(* s with each occurrence of d, or each byte of d, replaced: byte by byte  *)
(* from the left, which is how neither call computes it.                   *)
RECURSIVE Substituted(_, _, _, _)
Substituted(s, d, any, with) ==
  LET n == IF any THEN 1 ELSE Len(d)
      hit == IF any THEN s[1] \in Range(d) ELSE n <= Len(s) /\ SubSeq(s, 1, n) = d
  IN IF s = <<>> \/ d = <<>> THEN s
     ELSE IF hit THEN with \o Substituted(SubSeq(s, n + 1, Len(s)), d, any, with)
     ELSE <<Head(s)>> \o Substituted(Tail(s), d, any, with)

(* A string that is split and joined with another separator, or replaced   *)
(* in, is the string with the occurrences substituted; with its own        *)
(* delimiter it comes back as it was.  A refused allocation at any point   *)
(* gives {NULL, 0} and never a part of the result.                         *)
CallsRight ==
  (pc = "idle" /\ call.op \in {"join", "replace"}) =>
    result = IF denied THEN Null
             ELSE Copy(Str(Substituted(call.s.bytes, call.d.bytes, call.any, call.with.bytes)))

(* No path of string.c through its builder loses a block or frees one      *)
(* twice; a result is one block of the caller's.                           *)
NothingLeaks ==
  blocks = (IF sb.on THEN 2 + (IF sb.cap = 0 THEN 0 ELSE 1) ELSE 0)
             + (IF pc = "join" THEN 1 ELSE 0) + (IF result.ptr THEN 1 ELSE 0)

(* The three tokenizers agree on a one-byte separator: every empty piece   *)
(* is kept by each, also the one after a separator that ends the string.   *)
(* Of {NULL, 0} string_split_next gives nothing.                           *)
TokenizersAgree ==
  \A c \in Range(call.d.bytes) :
    call.op = "look" =>
      LET pieces == Pieces(call.s, c) IN
      IF call.s.ptr
      THEN pieces = Tokens(call.s, Str(<<c>>), FALSE, 0) /\ pieces = Tokens(call.s, Str(<<c>>), TRUE, 0)
      ELSE pieces = <<>>

(* string_to_int reads back every number that strbuf_append_int writes,    *)
(* the least included: its buffer has room for the longest.                *)
IntsReadBack ==
  \A n \in -IntMax - 1 .. IntMax : ToInt(IntText(n)) = [ok |-> TRUE, value |-> n]

(* What the calls say of two strings fits together: keys that are equal    *)
(* hash alike, a comparison is 0 for equal strings only and changes sign   *)
(* with its arguments, the first and last place of a byte bound all the    *)
(* others, a needle is found where the string starts with it, trimming     *)
(* takes blanks only and leaves none at the ends, and numbers read back.   *)
LooksAgree ==
  call.op = "look" =>
    LET a == call.s
        b == call.d
        t == Trim(a)
    IN /\ IntsReadBack
       /\ CompareCI(a, b) = 0 <=> EqualsCI(a, b)
       /\ Compare(a, b) = 0 <=> Equals(a, b)
       /\ Compare(a, b) = -Compare(b, a) /\ CompareCI(a, b) = -CompareCI(b, a)
       /\ EqualsCI(a, b) => HashCI(a) = HashCI(b)
       /\ EqualsCI(a, b) <=> Equals(ToLower(a), ToLower(b))
       /\ EqualsCI(a, b) <=> Equals(ToUpper(a), ToUpper(b))
       /\ StartsWith(a, b) <=> Find(a, b) = 0
       /\ HasSub(a, b) <=> \E i \in 0 .. Size(a) : StartsWith(Str(SubSeq(a.bytes, i + 1, Size(a))), b)
       /\ EndsWith(a, b) => HasSub(a, b)
       /\ \A c \in Range(a.bytes) :
            \A i \in DOMAIN a.bytes : a.bytes[i] = c => i - 1 \in FindChar(a, c) .. RFindChar(a, c)
       /\ t.bytes # <<>> => ~IsSpace(t.bytes[1]) /\ ~IsSpace(t.bytes[Size(t)])
       /\ \E l \in 0 .. Size(a) :
            /\ SubSeq(a.bytes, l + 1, l + Size(t)) = t.bytes
            /\ \A i \in DOMAIN a.bytes \ (l + 1 .. l + Size(t)) : IsSpace(a.bytes[i])
=============================================================================
