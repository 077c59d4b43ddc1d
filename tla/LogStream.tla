------------------------------ MODULE LogStream ------------------------------
(***************************************************************************)
(* turbo::LogStream and the FixedBuffer it fills                           *)
(* (src/src/logger/log_stream.{h,cpp}, fixed_buffer.h).                    *)
(*                                                                         *)
(* A stream is a record: how many bytes are used, and the pieces kept, in  *)
(* order.  A piece that does not fit is left out whole, without a trace.   *)
(***************************************************************************)
EXTENDS Integers, Sequences, SequencesExt

CONSTANTS
  BufferSize,       \* kSmallBuffer
  MaxNumericSize    \* kMaxNumericSize

ASSUME LogStreamAssumption == BufferSize \in Nat \ {0} /\ MaxNumericSize \in Nat \ {0}

Empty == [len |-> 0, kept |-> <<>>]

Avail(s) == BufferSize - s.len

-----------------------------------------------------------------------------
(* Numbers.  A character is a number: a digit its value.                   *)

Minus == 16
LetterX == 17
NewLine == 18

\* Mutant: the remainder is never negative, as in mathematics.
RemFloor(i, base) == i % base

\* C++ divides towards zero: the remainder has the sign of the dividend.
Rem(i, base) == IF i < 0 THEN -((-i) % base) ELSE i % base
Quot(i, base) == IF i < 0 THEN -((-i) \div base) ELSE i \div base

\* zero[lsd], a table that is symmetric around 0.
Zero(lsd) == IF lsd < 0 THEN -lsd ELSE lsd

\* The do-while loop: the digits of i, the lowest first.
LowFirst(i, base) ==
  LET digits[n \in Int] ==
        <<Zero(Rem(n, base))>>
        \o (IF Quot(n, base) = 0 THEN <<>> ELSE digits[Quot(n, base)])
  IN digits[i]

\* FormatInteger, and the hexadecimal digits of a pointer: a sign is put behind
\* the digits, and everything is turned round.
FormatInteger(v) == Reverse(LowFirst(v, 10) \o (IF v < 0 THEN <<Minus>> ELSE <<>>))
FormatPointer(v) == <<0, LetterX>> \o Reverse(LowFirst(v, 16))

-----------------------------------------------------------------------------
(* The operators << of the stream.                                         *)

\* Mutant: a piece may use the last byte.
FitsExactly(s, p) ==
  IF p.kind \in {"integer", "pointer"} THEN Avail(s) >= MaxNumericSize
                                        ELSE Avail(s) >= Len(p.text)

\* A number is written in place, if there is room for the longest, and counted
\* afterwards; FixedBuffer::Append takes anything else if there is more room
\* than it needs.
Fits(s, p) ==
  IF p.kind \in {"integer", "pointer"} THEN Avail(s) >= MaxNumericSize
                                        ELSE Avail(s) > Len(p.text)

Put(s, p) ==
  IF Fits(s, p) THEN [len |-> s.len + Len(p.text), kept |-> Append(s.kept, p)] ELSE s

\* A chain of << one after the other.
PutAll(s, pieces) ==
  LET after[i \in 0 .. Len(pieces)] == IF i = 0 THEN s ELSE Put(after[i - 1], pieces[i])
  IN  after[Len(pieces)]

\* Pieces.  Of a text only the length matters.
Text(n) == [kind |-> "text", val |-> n, text |-> [i \in 1 .. n |-> LetterX]]
Integer(v) == [kind |-> "integer", val |-> v, text |-> FormatInteger(v)]
Pointer(v) == [kind |-> "pointer", val |-> v, text |-> FormatPointer(v)]
End == [kind |-> "end", val |-> 0, text |-> <<NewLine>>]

\* Anything that is streamed.  kMaxNumericSize is more than a number of 64 bits or
\* a double ever needs.
Piece ==
  {p \in [kind : {"text", "integer", "pointer", "end"}, val : Int, text : Seq(Nat)] :
     /\ p.kind = "integer" => p = Integer(p.val)
     /\ p.kind = "pointer" => p.val >= 0 /\ p = Pointer(p.val)
     /\ p.kind \in {"integer", "pointer"} => Len(p.text) < MaxNumericSize}
=============================================================================
