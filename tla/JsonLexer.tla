----------------------------- MODULE JsonLexer ------------------------------
(***************************************************************************)
(* The lexer of json.hpp: the automaton that cuts a text, a sequence of    *)
(* bytes, into tokens, and the buffer it reads.                            *)
(***************************************************************************)
EXTENDS Integers, Sequences, SequencesExt, TLC

NUL       == 0
QUOTE     == 34
PLUS      == 43
COMMA     == 44
MINUS     == 45
POINT     == 46
SLASH     == 47
COLON     == 58
LBRACKET  == 91
BACKSLASH == 92
RBRACKET  == 93
LBRACE    == 123
RBRACE    == 125
Digit == 48..57
Hex   == Digit \cup (65..70) \cup (97..102)
Exp   == {69, 101}
Space == {9, 10, 13, 32}
Plain == (32..127) \ {QUOTE, BACKSLASH}
Later == 128..191                    \* bytes of a character after its first
True  == <<116, 114, 117, 101>>
False == <<102, 97, 108, 115, 101>>
Null  == <<110, 117, 108, 108>>
Escaped == [x \in {QUOTE, BACKSLASH, SLASH, 98, 102, 110, 114, 116} |->
              CASE x = 98 -> 8 [] x = 102 -> 12 [] x = 110 -> 10 [] x = 114 -> 13 [] x = 116 -> 9
                [] OTHER -> x]

-----------------------------------------------------------------------------
(* Its buffer, and where in it the token starts, the next byte is, and the *)
(* last token that could have ended did.                                   *)
lexer(t) == [buf |-> t, start |-> 1, cursor |-> 1, marker |-> 1]

(* The buffer is what is left, a NUL, and bytes to read ahead into.        *)
fill_line_buffer(l, n) ==
  [buf    |-> SubSeq(l.buf, l.start, Len(l.buf)) \o <<NUL>> \o [i \in 1..(n - 1) |-> 1],
   start  |-> 1,
   cursor |-> l.cursor - l.start + 1,
   marker |-> l.marker - l.start + 1]
Ahead(l, n) == IF Len(l.buf) - l.cursor + 1 < n THEN fill_line_buffer(l, n) ELSE l

Edge(q, bytes, r) == [from |-> q, on |-> bytes, to |-> r]

(* The automaton by the kind of its tokens: the first byte,                *)
StartEdges ==
  {Edge("start", Space, "space"), Edge("start", {NUL}, "end"), Edge("start", {QUOTE}, "quote"),
   Edge("start", {COMMA}, ","), Edge("start", {MINUS}, "minus"), Edge("start", {48}, "zero"),
   Edge("start", 49..57, "digits"), Edge("start", {COLON}, ":"), Edge("start", {LBRACKET}, "["),
   Edge("start", {RBRACKET}, "]"), Edge("start", {102}, "f"), Edge("start", {110}, "n"),
   Edge("start", {116}, "t"), Edge("start", {LBRACE}, "{"), Edge("start", {RBRACE}, "}")}

(* numbers, with a sign or without,                                        *)
IntegerEdges ==
  {Edge("minus", {48}, "minus_zero"), Edge("minus", 49..57, "minus_digits"),
   Edge("digits", Digit, "digits"), Edge("zero", Digit, "zeros")}
  \cup UNION {{Edge(q, {POINT}, "point"), Edge(q, Exp, "exp")} : q \in {"zero", "digits"}}
NegativeEdges ==
  {Edge("minus_digits", Digit, "minus_digits"), Edge("minus_zero", Digit, "zeros")}
  \cup UNION {{Edge(q, {POINT}, "point"), Edge(q, Exp, "exp")} : q \in {"minus_zero", "minus_digits"}}

(* their points and exponents, and those that begin with too many zeros,   *)
PointEdges ==
  {Edge("point", Digit, "fraction"), Edge("zeros", Digit, "zeros"),
   Edge("exp", {PLUS, MINUS}, "exp_sign"), Edge("exp", Digit, "exp_digits")}
FractionEdges ==
  {Edge("fraction", Digit, "fraction"), Edge("fraction", Exp, "exp"),
   Edge("exp_sign", Digit, "exp_digits"), Edge("exp_digits", Digit, "exp_digits")}

(* strings                                                                 *)
StringEdges ==
  UNION {{Edge(q, Plain, "string"), Edge(q, {QUOTE}, "string_end"), Edge(q, {BACKSLASH}, "escape"),
          Edge(q, 194..223, "1 more"), Edge(q, {224}, "E0"), Edge(q, (225..239) \ {237}, "2 more"),
          Edge(q, {237}, "ED"), Edge(q, {240}, "F0"), Edge(q, 241..243, "3 more"),
          Edge(q, {244}, "F4")} : q \in {"quote", "string"}}

(* with the escapes                                                        *)
EscapeEdges == {Edge("escape", DOMAIN Escaped, "string"), Edge("escape", {117}, "u")}
HexEdges ==
  {Edge("u", Hex, "u1"), Edge("u1", Hex, "u2"), Edge("u2", Hex, "u3"), Edge("u3", Hex, "string")}

(* and the bytes of UTF-8: neither longer than they have to be, nor of     *)
(* surrogates, nor beyond U+10FFFF,                                        *)
Utf8Edges ==
  {Edge("1 more", Later, "string"), Edge("E0", 160..191, "1 more"), Edge("2 more", Later, "1 more"),
   Edge("ED", 128..159, "1 more"), Edge("F0", 144..191, "2 more"), Edge("3 more", Later, "2 more"),
   Edge("F4", 128..143, "2 more")}

(* and words.                                                              *)
WordEdges ==
  {Edge("f", {97}, "fa"), Edge("fa", {108}, "fal"), Edge("fal", {115}, "fals"),
   Edge("fals", {101}, "false"), Edge("n", {117}, "nu"), Edge("nu", {108}, "nul"),
   Edge("nul", {108}, "null"), Edge("t", {114}, "tr"), Edge("tr", {117}, "tru"),
   Edge("tru", {101}, "true")}

Edges  == UNION {StartEdges, IntegerEdges, NegativeEdges, PointEdges, FractionEdges, StringEdges,
                 EscapeEdges, HexEdges, Utf8Edges, WordEdges}
States == {e.from : e \in Edges} \cup {e.to : e \in Edges} \cup {"error"}
Out    == [q \in States |-> {e \in Edges : e.from = q}]

Token == [q \in States |->
  CASE q \in {"zero", "digits"} -> "value_unsigned"
    [] q \in {"minus_zero", "minus_digits"} -> "value_integer"
    [] q \in {"fraction", "exp_digits"} -> "value_float"
    [] q = "string_end" -> "value_string"
    [] q \in {"end", "space", "true", "false", "null", "{", "}", "[", "]", ":", ","} -> q
    [] OTHER -> "parse_error"]
(* Where the automaton remembers the place, and where it may stop.         *)
Remembered == {"quote", "f", "n", "t", "zero", "digits", "minus_zero", "minus_digits", "fraction"}
CanEnd == Remembered \cup {"zeros", "minus"} \cup {q \in States : Token[q] # "parse_error"}

(* Bytes the buffer must have before the next one is looked at.  There is  *)
(* none to look at beyond it.                                              *)
Need == [q \in States |->
  CASE q = "start" -> 5
    [] q \in {"digits", "minus_digits", "fraction"} -> 3
    [] q \in {"space", "string", "escape", "1 more", "2 more", "3 more", "E0", "ED", "F0", "F4",
              "zeros", "u", "u1", "u2", "u3", "exp_digits"} -> 1
    [] OTHER -> 0]

Follow(q, byte) ==
  IF \E e \in Out[q] : byte \in e.on THEN (CHOOSE e \in Out[q] : byte \in e.on).to ELSE "none"

RECURSIVE Run(_, _, _), scan(_)
Step(here, q, to, last) ==
  LET next == [here EXCEPT !.cursor = @ + 1] IN
  CASE to \in Remembered -> Run([next EXCEPT !.marker = here.cursor + 1], to, Token[to])
    [] to \notin Remembered \cup {"none"} -> Run(next, to, last)
    [] to = "none" /\ q = "start" -> [lexer |-> next, token |-> "parse_error"]
    [] to = "none" /\ q \in CanEnd -> [lexer |-> here, token |-> Token[q]]
    [] OTHER -> [lexer |-> [here EXCEPT !.cursor = here.marker], token |-> last]
Look(here, q, last) ==
  Step(here, q, IF Out[q] = {} THEN "none" ELSE Follow(q, here.buf[here.cursor]), last)
Run(l, q, last) == Look(Ahead(l, Need[q]), q, last)

Solid(r) == IF r.token = "space" THEN scan(r.lexer) ELSE r
scan(l) == Solid(Run([l EXCEPT !.start = l.cursor, !.marker = l.cursor], "start", "parse_error"))
=============================================================================
