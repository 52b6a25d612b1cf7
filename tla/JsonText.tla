------------------------------ MODULE JsonText ------------------------------
(***************************************************************************)
(* The text of a message (json.hpp): a value is built with operator[],     *)
(* dumped, loses or changes a byte on its way or not, and is parsed.  A    *)
(* text is a sequence of bytes.  A value has one field, named for its      *)
(* kind: lit, int, float, str, arr or obj.                                 *)
(***************************************************************************)
EXTENDS JsonLexer

CONSTANTS
  Keys, Members,     \* what operator[] is called with, and what it is assigned
  MaxMembers,        \* bound of a built object
  Texts,             \* texts of others: configuration files, the server
  Damage,            \* bytes that come in place of another one
  W,                 \* width of an integer, 64
  Huge               \* numbers no double holds

VARIABLES
  doc,               \* the value built
  text,              \* what is parsed
  place,             \* build, text, parsed
  whole,             \* the text parsed is the one dumped
  got                \* what parse returned, and whether it threw
vars == <<doc, text, place, whole, got>>

-----------------------------------------------------------------------------
(* The value of a token.  An exception in the middle of one is the byte -1.*)
Thrown == <<-1>>
HexValue(s) ==
  FoldLeft(LAMBDA n, x : (16 * n) + (IF x \in Digit THEN x - 48 ELSE ((x - 65) % 32) + 10), 0, s)
High == 55296..56319
Low  == 56320..57343

to_unicode(codepoint1, codepoint2) ==
  LET c == IF codepoint1 \in High THEN (codepoint1 * 1024) + codepoint2 - 56613888 ELSE codepoint1
      Part(n) == 128 + ((c \div n) % 64)
  IN  CASE codepoint1 \in High /\ codepoint2 \notin Low -> Thrown
        [] c < 128 -> <<c>>
        [] c \in 128..2047 -> <<192 + (c \div 64), Part(1)>>
        [] c \in 2048..65535 /\ ~(codepoint1 \in High /\ codepoint2 \notin Low) ->
             <<224 + (c \div 4096), Part(64), Part(1)>>
        [] c > 65535 /\ ~(codepoint1 \in High /\ codepoint2 \notin Low) ->
             <<240 + (c \div 262144), Part(4096), Part(64), Part(1)>>

RECURSIVE Unescape(_)
Unescape(s) ==   \* up to the closing quote
  LET codepoint == HexValue(SubSeq(s, 3, 6)) IN
  CASE s[1] = QUOTE -> <<>>
    [] s[1] \notin {QUOTE, BACKSLASH} -> <<s[1]>> \o Unescape(Tail(s))
    [] s[1] = BACKSLASH /\ s[2] # 117 -> <<Escaped[s[2]]>> \o Unescape(SubSeq(s, 3, Len(s)))
    [] s[1] = BACKSLASH /\ s[2] = 117 ->
         IF codepoint \in High
         THEN IF s[7] # BACKSLASH \/ s[8] # 117 THEN Thrown
              ELSE to_unicode(codepoint, HexValue(SubSeq(s, 9, 12)))
                   \o Unescape(SubSeq(s, 13, Len(s)))
         ELSE IF codepoint \in Low THEN Thrown
         ELSE to_unicode(codepoint, 0) \o Unescape(SubSeq(s, 7, Len(s)))

get_token_string(l) == SubSeq(l.buf, l.start, l.cursor - 1)
get_string(l) == Unescape(Tail(get_token_string(l)))
Throws(s) == Contains(s, -1)

(* A number that does not fit its type is a double, which is its shortest  *)
(* text here; one that no double holds is null.                            *)
Decimal(s)  == FoldLeft(LAMBDA n, x : (10 * n) + x - 48, 0, s)
Shortest(s) ==
  LET t == [i \in DOMAIN s |-> IF s[i] = 69 THEN 101 ELSE s[i]]
  IN  IF IsSuffix(<<POINT, 48>>, t) THEN SubSeq(t, 1, Len(t) - 2) ELSE t
get_number(l, token) ==
  LET s == get_token_string(l) IN
  CASE token = "value_unsigned" /\ Decimal(s) < 2^W -> [int |-> Decimal(s)]
    [] token = "value_integer" /\ Decimal(Tail(s)) <= 2^(W - 1) -> [int |-> -Decimal(Tail(s))]
    [] OTHER -> IF s \in Huge THEN [lit |-> "null"] ELSE [float |-> Shortest(s)]

-----------------------------------------------------------------------------
(* The parser.                                                             *)
parser(t)    == [lexer |-> lexer(t), token |-> "uninitialized"]
get_token(p) == scan(p.lexer)
Read(v, p)   == [value |-> v, next |-> p, thrown |-> FALSE]
Fails        == [value |-> [lit |-> "null"], thrown |-> TRUE]
NoMembers    == <<>>
ReadString(s, p) == IF Throws(s) THEN Fails ELSE Read([str |-> s], p)

RECURSIVE parse_internal(_), Object(_, _), Array(_, _)
After(p, n) ==   \* p, and the token after it
  CASE p.token = "{" ->
         IF n.token = "}" THEN Read([obj |-> NoMembers], get_token(n))
         ELSE IF n.token = "," THEN Fails ELSE Object(n, NoMembers)
    [] p.token = "[" ->
         IF n.token = "]" THEN Read([arr |-> <<>>], get_token(n))
         ELSE IF n.token = "," THEN Fails ELSE Array(n, <<>>)
    [] p.token \in {"null", "true", "false"} -> Read([lit |-> p.token], n)
    [] p.token = "value_string" -> ReadString(get_string(p.lexer), n)
    [] p.token \in {"value_unsigned", "value_integer", "value_float"} ->
         Read(get_number(p.lexer, p.token), n)
    [] OTHER -> Fails
parse_internal(p) == After(p, get_token(p))
PastComma(p) == IF p.token = "," THEN get_token(p) ELSE p

(* Of two members with one name the later one stays.                       *)
AfterMember(key, value, members) ==
  IF value.thrown THEN Fails
  ELSE CASE value.next.token = "," -> Object(value.next, (key :> value.value) @@ members)
         [] value.next.token = "}" ->
              Read([obj |-> (key :> value.value) @@ members], get_token(value.next))
         [] OTHER -> Fails
AfterKey(key, colon, members) ==
  IF Throws(key) \/ colon.token # ":" THEN Fails
  ELSE AfterMember(key, parse_internal(get_token(colon)), members)
AtKey(k, members) ==
  IF k.token # "value_string" THEN Fails ELSE AfterKey(get_string(k.lexer), get_token(k), members)
Object(p, members) == AtKey(PastComma(p), members)

AfterElement(value, elements) ==
  IF value.thrown THEN Fails
  ELSE CASE value.next.token = "," -> Array(value.next, Append(elements, value.value))
         [] value.next.token = "]" ->
              Read([arr |-> Append(elements, value.value)], get_token(value.next))
         [] OTHER -> Fails
Array(p, elements) == AfterElement(parse_internal(PastComma(p)), elements)

AtEnd(r) == IF r.thrown \/ r.next.token # "end" THEN [ok |-> FALSE, value |-> [lit |-> "null"]]
            ELSE [ok |-> TRUE, value |-> r.value]
parse(t) == AtEnd(parse_internal(get_token(parser(t))))

-----------------------------------------------------------------------------
(* The serializer.                                                         *)
HexDigit(n) == IF n < 10 THEN 48 + n ELSE 87 + n
Short       == Range(Escaped) \ {SLASH}
extra_space(s) ==
  FoldLeft(LAMBDA n, x : n + (IF x \in Short THEN 1 ELSE IF x < 32 THEN 5 ELSE 0), 0, s)
Escape(x) ==
  CASE x \in Short -> <<BACKSLASH, CHOOSE e \in DOMAIN Escaped : Escaped[e] = x>>
    [] x < 32 /\ x \notin Short -> <<BACKSLASH, 117, 48, 48, HexDigit(x \div 16), HexDigit(x % 16)>>
    [] OTHER -> <<x>>
dump_escaped(s) ==   \* into a string of backslashes, of the size reckoned before
  LET out == FlattenSeq([i \in DOMAIN s |-> Escape(s[i])])
  IN  [i \in 1..(Len(s) + extra_space(s)) |-> IF i <= Len(out) THEN out[i] ELSE BACKSLASH]

RECURSIVE Digits(_)
Digits(n) == (IF n < 10 THEN <<>> ELSE Digits(n \div 10)) \o <<48 + (n % 10)>>
dump_integer(n) == IF n < 0 THEN <<MINUS>> \o Digits(-n) ELSE Digits(n)
dump_float(t) ==     \* what is printed without a point gets one
  IF Contains(t, POINT) \/ Contains(t, 101) THEN t ELSE t \o <<POINT, 48>>

Before(a, b) ==      \* the order of std::map
  \/ IsStrictPrefix(a, b)
  \/ \E i \in DOMAIN a \cap DOMAIN b : a[i] < b[i] /\ SubSeq(a, 1, i - 1) = SubSeq(b, 1, i - 1)
Listed(items) == FoldLeft(LAMBDA s, i : IF s = <<>> THEN i ELSE s \o <<COMMA>> \o i, <<>>, items)
Quoted(s) == <<QUOTE>> \o dump_escaped(s) \o <<QUOTE>>

RECURSIVE dump(_)
dump(v) ==
  CASE "obj" \in DOMAIN v ->
         LET keys == SetToSortSeq(DOMAIN v.obj, Before)
         IN  <<LBRACE>> \o Listed([i \in DOMAIN keys |->
                             Quoted(keys[i]) \o <<COLON>> \o dump(v.obj[keys[i]])]) \o <<RBRACE>>
    [] "arr" \in DOMAIN v ->
         <<LBRACKET>> \o Listed([i \in DOMAIN v.arr |-> dump(v.arr[i])]) \o <<RBRACKET>>
    [] "str" \in DOMAIN v -> Quoted(v.str)
    [] "int" \in DOMAIN v -> dump_integer(v.int)
    [] "float" \in DOMAIN v -> dump_float(v.float)
    [] "lit" \in DOMAIN v ->
         CASE v.lit = "true" -> True [] v.lit = "false" -> False [] v.lit = "null" -> Null

-----------------------------------------------------------------------------
Init ==
  /\ doc = [lit |-> "null"] /\ place = "build" /\ text = <<>> /\ whole = FALSE
  /\ got = [ok |-> FALSE, value |-> doc]

(* operator[] makes an object of null, and the member is assigned.         *)
Assign(key, v) ==
  /\ place = "build"
  /\ LET members == IF "obj" \in DOMAIN doc THEN doc.obj ELSE NoMembers IN
     /\ Cardinality(DOMAIN members \cup {key}) <= MaxMembers
     /\ doc' = [obj |-> (key :> v) @@ members]
  /\ UNCHANGED <<text, place, whole, got>>

Dump ==
  /\ place = "build"
  /\ text' = dump(doc) /\ whole' = TRUE /\ place' = "text"
  /\ UNCHANGED <<doc, got>>

Foreign ==
  /\ place = "build" /\ "lit" \in DOMAIN doc
  /\ text' \in Texts /\ place' = "text"
  /\ UNCHANGED <<doc, whole, got>>

(* A byte is lost or another one, or the end is.                           *)
Garble ==
  /\ place = "text" /\ whole
  /\ \E i \in DOMAIN text :
       text' \in {SubSeq(text, 1, i - 1), SubSeq(text, 1, i - 1) \o SubSeq(text, i + 1, Len(text))}
                 \cup {[text EXCEPT ![i] = x] : x \in Damage \ {text[i]}}
  /\ whole' = FALSE
  /\ UNCHANGED <<doc, place, got>>

Parse ==
  /\ place = "text"
  /\ got' = parse(text) /\ place' = "parsed"
  /\ UNCHANGED <<doc, text, whole>>

Next == (\E key \in Keys, v \in Members : Assign(key, v)) \/ Dump \/ Foreign \/ Garble \/ Parse

-----------------------------------------------------------------------------
(* What JSON is: a number, a string of characters, a word, or a list of    *)
(* them, by the parts it can be cut into.                                  *)
AllDigits(s) == s # <<>> /\ Range(s) \subseteq Digit
IsInt(s)     == AllDigits(s) /\ (s[1] = 48 => Len(s) = 1)
IsExp(s)     == /\ s # <<>> /\ s[1] \in Exp
                /\ AllDigits(IF Len(s) > 1 /\ s[2] \in {PLUS, MINUS} THEN SubSeq(s, 3, Len(s))
                             ELSE Tail(s))
IsNumber(s) ==
  LET u == IF s # <<>> /\ s[1] = MINUS THEN Tail(s) ELSE s IN
  \E i \in DOMAIN u : \E j \in i..Len(u) :
    /\ IsInt(SubSeq(u, 1, i))
    /\ j = i \/ (u[i + 1] = POINT /\ AllDigits(SubSeq(u, i + 2, j)))
    /\ j = Len(u) \/ IsExp(SubSeq(u, j + 1, Len(u)))

(* A code point is written in as few bytes as hold it, and no surrogate is.*)
First == <<0..127, 192..223, 224..239, 240..247>>
Least == <<0, 128, 2048, 65536, 1114112>>
Code(s) == FoldLeft(LAMBDA c, x : (64 * c) + (x - 128), s[1] - <<0, 192, 224, 240>>[Len(s)], Tail(s))
IsCharacter(s) ==
  /\ Len(s) <= 4 /\ s[1] \in First[Len(s)] /\ Range(Tail(s)) \subseteq Later
  /\ Least[Len(s)] <= Code(s) /\ Code(s) < Least[Len(s) + 1] /\ Code(s) \notin 55296..57343
RECURSIVE IsText(_), IsChars(_)
IsText(s) == s = <<>> \/ \E n \in 1..Len(s) :
                           IsCharacter(SubSeq(s, 1, n)) /\ IsText(SubSeq(s, n + 1, Len(s)))
At(s, i) == HexValue(SubSeq(s, i + 2, i + 5))
IsEscape(s) ==
  LET Is(i) == s[i] = BACKSLASH /\ s[i + 1] = 117 /\ Range(SubSeq(s, i + 2, i + 5)) \subseteq Hex
  IN  \/ Len(s) = 2 /\ s[1] = BACKSLASH /\ s[2] \in DOMAIN Escaped
      \/ Len(s) = 6 /\ Is(1) /\ At(s, 1) \notin High \cup Low
      \/ Len(s) = 12 /\ Is(1) /\ Is(7) /\ At(s, 1) \in High /\ At(s, 7) \in Low
IsChars(s) == s = <<>> \/ \E n \in 1..Len(s) :
                 LET c == SubSeq(s, 1, n) IN
                 /\ n <= 12 /\ \/ IsEscape(c)
                               \/ IsCharacter(c) /\ c[1] >= 32 /\ c[1] \notin {QUOTE, BACKSLASH}
                 /\ IsChars(SubSeq(s, n + 1, Len(s)))
IsString(s) == Len(s) >= 2 /\ s[1] = QUOTE /\ s[Len(s)] = QUOTE /\ IsChars(SubSeq(s, 2, Len(s) - 1))

RECURSIVE Trim(_), IsValue(_), IsList(_, _)
Trim(s) == IF s # <<>> /\ s[1] \in Space THEN Trim(Tail(s))
           ELSE IF s # <<>> /\ s[Len(s)] \in Space THEN Trim(SubSeq(s, 1, Len(s) - 1)) ELSE s
IsList(Item(_), s) ==
  Item(s) \/ \E i \in DOMAIN s : s[i] = COMMA /\ Item(SubSeq(s, 1, i - 1))
                                 /\ IsList(Item, SubSeq(s, i + 1, Len(s)))
IsValue(padded) ==
  LET s == Trim(padded)
      inner == SubSeq(s, 2, Len(s) - 1)
      Element(e) == IsValue(e)
      Member(e)  == \E i \in DOMAIN e : e[i] = COLON /\ IsString(Trim(SubSeq(e, 1, i - 1)))
                                        /\ IsValue(SubSeq(e, i + 1, Len(e)))
      Is(a, z)   == Len(s) >= 2 /\ s[1] = a /\ s[Len(s)] = z
  IN  \/ s \in {True, False, Null} \/ IsNumber(s) \/ IsString(s)
      \/ Is(LBRACKET, RBRACKET) /\ (Trim(inner) = <<>> \/ IsList(Element, inner))
      \/ Is(LBRACE, RBRACE) /\ (Trim(inner) = <<>> \/ IsList(Member, inner))

RECURSIVE OfText(_)
OfText(v) ==
  CASE "str" \in DOMAIN v -> IsText(v.str)
    [] "arr" \in DOMAIN v -> \A i \in DOMAIN v.arr : OfText(v.arr[i])
    [] "obj" \in DOMAIN v -> \A k \in DOMAIN v.obj : IsText(k) /\ OfText(v.obj[k])
    [] OTHER -> TRUE
UpToNul(s) == SubSeq(s, 1, SelectInSeq(s \o <<NUL>>, LAMBDA x : x = NUL) - 1)

-----------------------------------------------------------------------------
(* Properties.                                                             *)

(* A message arrives as it was built, if its strings are UTF-8; dump does  *)
(* not look, and parse refuses it if they are not.                         *)
ReadBack ==
  place = "parsed" /\ whole => got = IF OfText(doc) THEN [ok |-> TRUE, value |-> doc]
                                     ELSE [ok |-> FALSE, value |-> [lit |-> "null"]]

(* parse accepts JSON and nothing else, whatever the line or another       *)
(* program has made of a text; what follows a NUL is not looked at.        *)
OnlyJson == place = "parsed" => (got.ok <=> IsValue(UpToNul(text)))

(* An escape by number stands for one character, the one of that code, two *)
(* of them for the one they halve.                                         *)
CodePoints ==
  place = "parsed" /\ got.ok /\ text[1] = QUOTE =>
    LET s == SubSeq(text, 2, Len(text) - 1) IN
    Len(s) \in {6, 12} /\ IsEscape(s) =>
      /\ IsCharacter(got.value.str)
      /\ Code(got.value.str) = IF Len(s) = 6 THEN At(s, 1)
                               ELSE 65536 + ((At(s, 1) - 55296) * 1024) + (At(s, 7) - 56320)

(* What was accepted is the same value when it is dumped and parsed again. *)
SameAgain == place = "parsed" /\ got.ok => parse(dump(got.value)) = got
=============================================================================
