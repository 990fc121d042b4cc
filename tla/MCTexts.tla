------------------------------ MODULE MCTexts ------------------------------
(***************************************************************************)
(* Texts for TLC: strings of up to four bytes "a" and "b", split, joined   *)
(* and replaced by strings of up to two; the looks are at strings of up to *)
(* three bytes of "A", "a", "_", which sorts between the two, and " ".      *)
(***************************************************************************)
EXTENDS Texts

CONSTANTS SourceLen, LookLen, LookBytes

MCSources == {Null} \cup {Str(bs) : bs \in BoundedSeq({97, 98}, SourceLen)}
MCDelims == {Str(bs) : bs \in {<<>>, <<97>>, <<98>>, <<97, 97>>, <<97, 98>>}}
MCQuestions == {Null} \cup {Str(bs) : bs \in BoundedSeq(LookBytes, LookLen)}
=============================================================================
