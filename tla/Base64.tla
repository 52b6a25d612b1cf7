------------------------------- MODULE Base64 -------------------------------
(***************************************************************************)
(* The base64 codec of the messages (base64.h, and toBase64 and fromBase64 *)
(* of Message.cpp).  A character is its place in the alphabet, Pad, or Odd *)
(* (any other); a byte is a number.  Step by step a text is made of some   *)
(* bytes and read back, with the lengths the callers give.                 *)
(***************************************************************************)
EXTENDS Integers, Sequences, SequencesExt

CONSTANTS ByteStrings,  \* what is encoded
          Texts         \* further texts, of a server that pads as it likes
VARIABLES input, output
vars == <<input, output>>

Alphabet == 0..63
Pad == 64
Odd == 65
Byte == 0..255

-----------------------------------------------------------------------------
(* Three bytes to four characters and back; the tail of a group that is    *)
(* not full counts as 0 one way, and as 255 (no character) the other.      *)
a3_to_a4(a3) == <<a3[1] \div 4, (a3[1] % 4) * 16 + a3[2] \div 16,
                  (a3[2] % 16) * 4 + a3[3] \div 64, a3[3] % 64>>
b64_lookup(c) == IF c \in Alphabet THEN c ELSE 255
a4_to_a3(a4) == <<(a4[1] * 4 + (a4[2] % 64) \div 16) % 256,
                  ((a4[2] % 16) * 16 + (a4[3] % 64) \div 4) % 256,
                  ((a4[3] % 4) * 64 + a4[4]) % 256>>

EncodedLength(n) == ((n + 2) \div 3) * 4

(* Group k of s, of size n, filled up.                                     *)
Group(s, k, n, fill) == [i \in 1..n |-> IF (k - 1) * n + i <= Len(s)
                                        THEN s[(k - 1) * n + i] ELSE fill]
Groups(s, n) == (Len(s) + n - 1) \div n

Encode(bytes) ==
  LET chars == FlattenSeq([k \in 1..Groups(bytes, 3) |->
                            a3_to_a4(Group(bytes, k, 3, 0))])
      kept  == EncodedLength(Len(bytes)) - ((3 - (Len(bytes) % 3)) % 3)
  IN  [i \in 1..EncodedLength(Len(bytes)) |-> IF i <= kept THEN chars[i] ELSE Pad]

(* The length fromBase64 is given, from the pads at the end.  (Of an empty *)
(* text it reads what is in front of it.)                                  *)
Pads(text) == CHOOSE n \in 0..Len(text) :
                /\ \A i \in (Len(text) - n + 1)..Len(text) : text[i] = Pad
                /\ n < Len(text) => text[Len(text) - n] # Pad

DecodedLength(text) == (6 * Len(text)) \div 8 - Pads(text)

(* Decode stops at the first pad.  What it writes, and whether it is as    *)
(* much as announced; without the room it writes nothing.                  *)
Decode(text, room) ==
  LET chars == SelectInSeq(text, LAMBDA c : c = Pad)
      kept  == IF chars = 0 THEN text ELSE SubSeq(text, 1, chars - 1)
      all   == FlattenSeq([k \in 1..Groups(kept, 4) |->
                 a4_to_a3([i \in 1..4 |-> b64_lookup(Group(kept, k, 4, Odd)[i])])])
      size  == (Len(kept) \div 4) * 3 + (IF Len(kept) % 4 = 0 THEN 0 ELSE (Len(kept) % 4) - 1)
  IN  IF room < DecodedLength(text) THEN [bytes |-> <<>>, ok |-> FALSE]
      ELSE [bytes |-> SubSeq(all, 1, size), ok |-> size = DecodedLength(text)]

-----------------------------------------------------------------------------
Init == /\ input \in ({"bytes"} \X ByteStrings) \cup ({"text"} \X Texts)
        /\ output = <<>>

toBase64 == /\ output = <<>> /\ input[1] = "bytes"
            /\ output' = <<Encode(input[2])>> /\ UNCHANGED input
fromBase64 ==
  /\ Len(output) = (IF input[1] = "bytes" THEN 1 ELSE 0)
  /\ LET text == IF input[1] = "bytes" THEN output[1] ELSE input[2]
     IN  output' = <<text, Decode(text, DecodedLength(text))>>
  /\ UNCHANGED input

Next == toBase64 \/ fromBase64

-----------------------------------------------------------------------------
(* Bytes that have been encoded come back, as many as there were, and what *)
(* they become is as long as EncodedLength says.                           *)
Restored ==
  Len(output) = 2 /\ input[1] = "bytes" =>
    /\ Len(output[1]) = EncodedLength(Len(input[2]))
    /\ output[2] = [bytes |-> input[2], ok |-> TRUE]

(* What is read fills the room its caller made for it with DecodedLength   *)
(* and no more: of any text, a server's included, that is padded to whole  *)
(* groups or not at all.  (A group of nothing but pads, and pads that do   *)
(* not complete one, are read past the room.)                              *)
Padded(text) == Pads(text) = 0 \/ (Pads(text) <= 3 /\ Len(text) % 4 = 0)
WithinRoom ==
  Len(output) = 2 /\ output[1] # <<>> /\ Padded(output[1]) =>
    Len(output[2].bytes) <= DecodedLength(output[1])
=============================================================================
