-------------------------- MODULE Registers_proofs --------------------------
(***************************************************************************)
(* Proofs about Registers, for any number of failed transactions and any   *)
(* values that fit their registers: the page the library remembers is the  *)
(* chip's, each access reaches its page, and each register keeps its value.*)
(***************************************************************************)
EXTENDS Registers, TLAPS

-----------------------------------------------------------------------------
(* The registers.                                                          *)

(* The names, one by one.                                                  *)
LEMMA Names ==
  Name = {"RX_DATA_BUF_DATA", "TX_DATA_BUF_DATA", "IF_FREQ_0", "TX_OFFSET_I", "TX_GAIN",
          "TX_SWAP_IQ", "TX_STATUS", "TIMESTAMP"}
BY DEF Name, loregs

(* Those that keep what is written to them.                                *)
LEMMA SavedNames == Saved = {"IF_FREQ_0", "TX_OFFSET_I", "TX_GAIN", "TX_SWAP_IQ"}
BY Names DEF Saved, Port, loregs, Reg

(* No register is on page 3, where the library parks the chip.             *)
LEMMA Pages == \A n \in Name : loregs[n].page \in -1..2
BY Names DEF loregs, Reg

(* The receiver uses no register on a page.                                *)
LEMMA UsesNames ==
  \A t \in Thread : \A n \in Uses(t) \ {PAGE_REG} :
    n \in Name /\ (t = "receive" => loregs[n].page = -1)
BY Names DEF Thread, Uses, PAGE_REG, loregs, Reg

-----------------------------------------------------------------------------
(* The arithmetic of the registers.                                        *)

(* The part of register n in byte l after a reset, and the sums of parts.  *)
B(l, n) == IF OneByte(loregs[n]) THEN Mixed(loregs[n], 0, loregs[n].dflt)
           ELSE Byte(loregs[n].dflt, l[2] - loregs[n].addr)
Summed(l, S, it) ==
  [s \in SUBSET S |-> IF s = {} THEN 0
                      ELSE B(l, CHOOSE x \in s : TRUE) + it[s \ {CHOOSE x \in s : TRUE}]]
Sum(l, S) == (CHOOSE it : it = Summed(l, S, it))[S]

(* A byte after a reset is the sum of its registers' parts.                *)
LEMMA DefaultSum ==
  ASSUME NEW l PROVE DefaultByte(l) = Sum(l, {n \in Saved : l \in Places(n)})
BY DEF DefaultByte, Sum, Summed, B, MapThenSumSet, MapThenFoldSet

(* The sum over one register.                                              *)
LEMMA SumOne == ASSUME NEW l, NEW a, B(l, a) \in Int PROVE Sum(l, {a}) = B(l, a)
<1> DEFINE f == [s \in SUBSET {a} |-> IF s = {} THEN 0 ELSE B(l, a)]
<1>0. \A s \in SUBSET {a} : s # {} => s = {a} /\ (CHOOSE x \in s : TRUE) = a
  OBVIOUS
<1>1. f = Summed(l, {a}, f)
  <2>1. ASSUME NEW s \in SUBSET {a} PROVE f[s] = Summed(l, {a}, f)[s]
    <3>1. CASE s = {}
      BY <3>1 DEF Summed
    <3>2. CASE s # {}
      <4>1. s = {a} /\ (CHOOSE x \in s : TRUE) = a
        BY <3>2, <1>0
      <4>2. s \ {a} = {} /\ {} \in SUBSET {a}
        BY <4>1
      <4>3. f[{}] = 0 /\ f[s] = B(l,a)
        BY <4>1, <4>2
      <4> HIDE DEF f
      <4>4. Summed(l, {a}, f)[s] = B(l, a) + 0
        BY <3>2, <4>1, <4>2, <4>3 DEF Summed
      <4> QED BY <4>3, <4>4
    <3> QED BY <3>1, <3>2
  <2> QED BY <2>1 DEF Summed
<1> HIDE DEF f
<1> DEFINE g == CHOOSE it : it = Summed(l, {a}, it)
<1>2. g = Summed(l, {a}, g)
  BY <1>1
<1>3. Sum(l, {a}) = g[{a}]
  BY DEF Sum
<1> HIDE DEF g
<1>4. g[{}] = 0
  BY <1>2 DEF Summed
<1>5. {a} \ {a} = {} /\ {a} # {} /\ (CHOOSE x \in {a} : TRUE) = a
  BY <1>0
<1>6. Summed(l, {a}, g)[{a}] = B(l, a) + g[{}]
  BY <1>5 DEF Summed
<1> QED BY <1>2, <1>3, <1>4, <1>6

(* The sum over two registers that share a byte.                           *)
LEMMA SumTwo ==
  ASSUME NEW l, NEW a, NEW b, a # b, B(l, a) \in Int, B(l, b) \in Int
  PROVE  Sum(l, {a, b}) = B(l, a) + B(l, b)
<1> DEFINE first(s) == CHOOSE x \in s : TRUE
           f == [s \in SUBSET {a, b} |->
                   (IF a \in s THEN B(l, a) ELSE 0) + (IF b \in s THEN B(l, b) ELSE 0)]
<1>0. \A s \in SUBSET {a, b} : s # {} => first(s) \in s
  OBVIOUS
<1>1. f = Summed(l, {a, b}, f)
  <2>1. ASSUME NEW s \in SUBSET {a, b}
        PROVE  f[s] = IF s = {} THEN 0 ELSE B(l, first(s)) + f[s \ {first(s)}]
    <3>1. CASE s = {}
      BY <3>1
    <3>2. CASE s # {}
      <4>1. first(s) \in s
        BY <3>2, <1>0
      <4> DEFINE c == first(s)
                 t == s \ {c}
      <4>2. c \in s /\ (c = a \/ c = b)
        BY <4>1
      <4> HIDE DEF first, c
      <4>3. t \in SUBSET {a, b}
        OBVIOUS
      <4>4. /\ f[t] = (IF a \in t THEN B(l, a) ELSE 0) + (IF b \in t THEN B(l, b) ELSE 0)
            /\ f[s] = (IF a \in s THEN B(l, a) ELSE 0) + (IF b \in s THEN B(l, b) ELSE 0)
        BY <4>3
      <4>5. CASE c = a
        <5>1. a \in s /\ a \notin t /\ (b \in t <=> b \in s)
          BY <4>2, <4>5
        <5> QED BY <3>2, <4>4, <4>5, <5>1 DEF c
      <4>6. CASE c = b
        <5>1. b \in s /\ b \notin t /\ (a \in t <=> a \in s)
          BY <4>2, <4>6
        <5> QED BY <3>2, <4>4, <4>6, <5>1 DEF c
      <4> QED BY <4>2, <4>5, <4>6
    <3> QED BY <3>1, <3>2
  <2> HIDE DEF f
  <2>2. f = [s \in SUBSET {a, b} |-> f[s]]
    BY DEF f
  <2> QED BY <2>1, <2>2 DEF Summed
<1> HIDE DEF f
<1> DEFINE g == CHOOSE it : it = Summed(l, {a, b}, it)
<1>2. g = Summed(l, {a, b}, g)
  BY <1>1
<1>3. Sum(l, {a, b}) = g[{a, b}]
  BY DEF Sum
<1> HIDE DEF g
<1>4. g[{}] = 0
  BY <1>2 DEF Summed
<1>5. \A x \in {a, b} : g[{x}] = B(l, x)
  <2> TAKE x \in {a, b}
  <2>1. {x} \ {x} = {} /\ {x} # {} /\ first({x}) = x /\ {x} \in SUBSET {a, b}
    BY <1>0
  <2>2. Summed(l, {a, b}, g)[{x}] = B(l, x) + g[{}]
    BY <2>1 DEF Summed
  <2> QED BY <1>2, <1>4, <2>2
<1>6. Summed(l, {a, b}, g)[{a, b}] = B(l, first({a, b})) + g[{a, b} \ {first({a, b})}]
  BY DEF Summed
<1>7. CASE first({a, b}) = a
  <2>1. {a, b} \ {a} = {b}
    OBVIOUS
  <2> QED BY <1>2, <1>3, <1>5, <1>6, <1>7, <2>1
<1>8. CASE first({a, b}) = b
  <2>1. {a, b} \ {b} = {a}
    OBVIOUS
  <2>2. Sum(l, {a, b}) = B(l, b) + B(l, a)
    BY <1>2, <1>3, <1>5, <1>6, <1>8, <2>1
  <2> QED BY <2>2
<1> QED BY <1>0, <1>7, <1>8

(* The powers of two the fields are cut with.                              *)
LEMMA Powers ==
  /\ 2^0 = 1 /\ 2^1 = 2 /\ 2^2 = 4 /\ 2^7 = 128 /\ 2^8 = 256 /\ 2^12 = 4096 /\ 2^13 = 8192
  /\ 256^0 = 1 /\ 256^1 = 256
OBVIOUS

(* The bytes of each register that keeps its value.                        *)
LEMMA SavedPlaces ==
  /\ Places("IF_FREQ_0") = {<<0, 36>>, <<0, 37>>}
  /\ Places("TX_OFFSET_I") = {<<1, 39>>}
  /\ Places("TX_GAIN") = {<<1, 42>>}
  /\ Places("TX_SWAP_IQ") = {<<1, 42>>}
<1>1. Places("IF_FREQ_0") = {<<0, 36>>, <<0, 37>>}
  BY DEF Places, Size, loregs, Reg
<1>2. Places("TX_OFFSET_I") = {<<1, 39>>}
  BY DEF Places, Size, loregs, Reg
<1>3. Places("TX_GAIN") = {<<1, 42>>}
  BY DEF Places, Size, loregs, Reg
<1>4. Places("TX_SWAP_IQ") = {<<1, 42>>}
  BY DEF Places, Size, loregs, Reg
<1> QED BY <1>1, <1>2, <1>3, <1>4

(* The bytes the model keeps, four in all.                                 *)
LEMMA Locs == Loc = {<<0, 36>>, <<0, 37>>, <<1, 39>>, <<1, 42>>}
<1>1. Loc = Places("IF_FREQ_0") \cup Places("TX_OFFSET_I") \cup Places("TX_GAIN")
              \cup Places("TX_SWAP_IQ")
  BY SavedNames DEF Loc
<1> QED BY <1>1, SavedPlaces

(* The low and the high byte of a number.                                  *)
LEMMA ByteRange ==
  ASSUME NEW v \in Int
  PROVE  Byte(v, 0) = v % 256 /\ Byte(v, 1) = (v \div 256) % 256
<1>1. Byte(v, 0) = (v \div 1) % 256 /\ v \div 1 = v
  BY Powers DEF Byte
<1>2. Byte(v, 1) = (v \div 256) % 256
  BY Powers DEF Byte
<1> QED BY <1>1, <1>2

(* lgw_reg_w of TX_GAIN changes the two lowest bits of its byte.           *)
LEMMA MixedGain ==
  ASSUME NEW v \in Int, NEW o \in 0..255
  PROVE  Mixed(loregs.TX_GAIN, o, v) = (o \div 4) * 4 + (v % 4)
<1> DEFINE r == loregs.TX_GAIN
<1>1. r.offs = 0 /\ r.leng = 2
  BY DEF loregs, Reg
<1> HIDE DEF r
<1>2. 0 + 2 = 2 /\ o % 1 = 0 /\ (v % 4) * 1 = v % 4 /\ v % 4 \in Int /\ (o \div 4) * 4 \in Int
  OBVIOUS
<1> DEFINE above == 2^(r.offs + r.leng)
           field == 2^r.leng
           below == 2^r.offs
<1>3. above = 4 /\ field = 4 /\ below = 1
  BY <1>1, Powers
<1>p. Mixed(r, o, v) = (o \div above) * above + (v % field) * below + (o % below)
  BY DEF Mixed
<1> HIDE DEF above, field, below
<1>4. Mixed(r, o, v) = (o \div 4) * 4 + (v % 4) * 1 + (o % 1)
  BY <1>3, <1>p
<1> QED BY <1>2, <1>4 DEF r

(* lgw_reg_w of TX_SWAP_IQ changes the highest bit of its byte.            *)
LEMMA MixedSwap ==
  ASSUME NEW v \in Int, NEW o \in 0..255
  PROVE  Mixed(loregs.TX_SWAP_IQ, o, v) = (v % 2) * 128 + (o % 128)
<1> DEFINE r == loregs.TX_SWAP_IQ
<1>1. r.offs = 7 /\ r.leng = 1
  BY DEF loregs, Reg
<1> HIDE DEF r
<1>2. /\ 7 + 1 = 8 /\ o \div 256 = 0 /\ 0 * 256 = 0 /\ (v % 2) * 128 \in Int /\ o % 128 \in Int
  OBVIOUS
<1> DEFINE above == 2^(r.offs + r.leng)
           field == 2^r.leng
           below == 2^r.offs
<1>3. above = 256 /\ field = 2 /\ below = 128
  BY <1>1, Powers
<1>p. Mixed(r, o, v) = (o \div above) * above + (v % field) * below + (o % below)
  BY DEF Mixed
<1> HIDE DEF above, field, below
<1>4. Mixed(r, o, v) = (o \div 256) * 256 + (v % 2) * 128 + (o % 128)
  BY <1>3, <1>p
<1> QED BY <1>2, <1>4 DEF r

(* Which registers share a byte: TX_GAIN and TX_SWAP_IQ only.              *)
LEMMA Sharing ==
  /\ {n \in Saved : <<0, 36>> \in Places(n)} = {"IF_FREQ_0"}
  /\ {n \in Saved : <<0, 37>> \in Places(n)} = {"IF_FREQ_0"}
  /\ {n \in Saved : <<1, 39>> \in Places(n)} = {"TX_OFFSET_I"}
  /\ {n \in Saved : <<1, 42>> \in Places(n)} = {"TX_GAIN", "TX_SWAP_IQ"}
BY SavedNames, SavedPlaces

(* The bytes after a reset.                                                *)
LEMMA DefaultBytes ==
  /\ DefaultByte(<<0, 36>>) = 128 /\ DefaultByte(<<0, 37>>) = 254
  /\ DefaultByte(<<1, 39>>) = 0 /\ DefaultByte(<<1, 42>>) = 128
<1>1. B(<<0, 36>>, "IF_FREQ_0") = 128
  <2>1. ~OneByte(loregs.IF_FREQ_0) /\ loregs.IF_FREQ_0.dflt = -384 /\ loregs.IF_FREQ_0.addr = 36
    BY DEF OneByte, loregs, Reg
  <2>2. Byte(-384, 0) = 128
    BY ByteRange
  <2>3. <<0, 36>>[2] - 36 = 0
    OBVIOUS
  <2> QED BY <2>1, <2>2, <2>3 DEF B
<1>2. B(<<0, 37>>, "IF_FREQ_0") = 254
  <2>1. ~OneByte(loregs.IF_FREQ_0) /\ loregs.IF_FREQ_0.dflt = -384 /\ loregs.IF_FREQ_0.addr = 36
    BY DEF OneByte, loregs, Reg
  <2>2. Byte(-384, 1) = 254
    BY ByteRange
  <2>3. <<0, 37>>[2] - 36 = 1
    OBVIOUS
  <2> QED BY <2>1, <2>2, <2>3 DEF B
<1>3. B(<<1, 39>>, "TX_OFFSET_I") = 0
  <2> DEFINE r == loregs.TX_OFFSET_I
             z == 0
  <2>1. OneByte(r) /\ r.dflt = 0 /\ r.offs = 0 /\ r.leng = 8
    BY DEF OneByte, loregs, Reg
  <2> HIDE DEF r, z
  <2> DEFINE above == 2^(r.offs + r.leng)
             field == 2^r.leng
             below == 2^r.offs
  <2>2. above = 256 /\ field = 256 /\ below = 1
    BY <2>1, Powers
  <2>3. Mixed(r, z, z) = (z \div above) * above + (z % field) * below + (z % below)
    BY DEF Mixed
  <2> HIDE DEF above, field, below
  <2>4. Mixed(r, z, z) = 0
    BY <2>2, <2>3 DEF z
  <2> QED BY <2>1, <2>4 DEF B, r, z
<1>4. B(<<1, 42>>, "TX_GAIN") = 0
  <2>1. OneByte(loregs.TX_GAIN) /\ loregs.TX_GAIN.dflt = 0
    BY DEF OneByte, loregs, Reg
  <2>2. Mixed(loregs.TX_GAIN, 0, 0) = 0
    BY MixedGain
  <2> QED BY <2>1, <2>2 DEF B
<1>5. B(<<1, 42>>, "TX_SWAP_IQ") = 128
  <2>1. OneByte(loregs.TX_SWAP_IQ) /\ loregs.TX_SWAP_IQ.dflt = 1
    BY DEF OneByte, loregs, Reg
  <2>2. Mixed(loregs.TX_SWAP_IQ, 0, 1) = 128
    BY MixedSwap
  <2> QED BY <2>1, <2>2 DEF B
<1>6. DefaultByte(<<0, 36>>) = 128
  <2>1. B(<<0, 36>>, "IF_FREQ_0") \in Int
    BY <1>1
  <2>2. Sum(<<0, 36>>, {"IF_FREQ_0"}) = B(<<0, 36>>, "IF_FREQ_0")
    BY <2>1, SumOne
  <2> QED BY <1>1, <2>2, DefaultSum, Sharing
<1>7. DefaultByte(<<0, 37>>) = 254
  <2>1. B(<<0, 37>>, "IF_FREQ_0") \in Int
    BY <1>2
  <2>2. Sum(<<0, 37>>, {"IF_FREQ_0"}) = B(<<0, 37>>, "IF_FREQ_0")
    BY <2>1, SumOne
  <2> QED BY <1>2, <2>2, DefaultSum, Sharing
<1>8. DefaultByte(<<1, 39>>) = 0
  <2>1. B(<<1, 39>>, "TX_OFFSET_I") \in Int
    BY <1>3
  <2>2. Sum(<<1, 39>>, {"TX_OFFSET_I"}) = B(<<1, 39>>, "TX_OFFSET_I")
    BY <2>1, SumOne
  <2> QED BY <1>3, <2>2, DefaultSum, Sharing
<1>9. DefaultByte(<<1, 42>>) = 128
  <2>1. Sum(<<1, 42>>, {"TX_GAIN", "TX_SWAP_IQ"}) = 0 + 128
    <3>1. B(<<1, 42>>, "TX_GAIN") \in Int /\ B(<<1, 42>>, "TX_SWAP_IQ") \in Int
      BY <1>4, <1>5
    <3>2. "TX_GAIN" # "TX_SWAP_IQ"
      OBVIOUS
    <3>3. Sum(<<1, 42>>, {"TX_GAIN", "TX_SWAP_IQ"})
            = B(<<1, 42>>, "TX_GAIN") + B(<<1, 42>>, "TX_SWAP_IQ")
      BY <3>1, <3>2, SumTwo
    <3> QED BY <1>4, <1>5, <3>3
  <2> QED BY <2>1, DefaultSum, Sharing
<1> QED BY <1>6, <1>7, <1>8, <1>9

(* What lgw_reg_r returns for a signed register of one byte.               *)
LEMMA DecodedOffset ==
  ASSUME mem[<<1, 39>>] \in 0..255
  PROVE  Decoded("TX_OFFSET_I") = IF mem[<<1, 39>>] >= 128 THEN mem[<<1, 39>>] - 256
                                  ELSE mem[<<1, 39>>]
<1> DEFINE r == loregs.TX_OFFSET_I
           m == mem[<<1, 39>>]
<1>1. /\ OneByte(r) /\ r.page = 1 /\ r.addr = 39 /\ r.offs = 0 /\ r.leng = 8 /\ r.sign = TRUE
      /\ r.addr + 0 = 39
  BY DEF OneByte, loregs, Reg
<1>2. Decoded("TX_OFFSET_I") = Extended(r, (mem[<<r.page, r.addr + 0>>] \div 2^r.offs) % 2^r.leng)
  BY <1>1 DEF Decoded
<1>3. Decoded("TX_OFFSET_I") = Extended(r, (m \div 2^0) % 2^8)
  BY <1>1, <1>2
<1>4. (m \div 2^0) % 2^8 = m
  BY Powers
<1> HIDE DEF r, m
<1>5. Extended(r, m) = LET f == m % 2^8 IN IF f >= 2^(8 - 1) THEN f - 2^8 ELSE f
  BY <1>1 DEF Extended
<1>6. m \in 0..255
  BY DEF m
<1> QED BY <1>3, <1>4, <1>5, <1>6, Powers DEF m

(* What it returns for the two lowest bits of a byte.                      *)
LEMMA DecodedGain ==
  ASSUME mem[<<1, 42>>] \in 0..255
  PROVE  Decoded("TX_GAIN") = mem[<<1, 42>>] % 4
<1> DEFINE r == loregs.TX_GAIN
           m == mem[<<1, 42>>]
<1>1. /\ OneByte(r) /\ r.page = 1 /\ r.addr = 42 /\ r.offs = 0 /\ r.leng = 2 /\ r.sign = FALSE
      /\ r.addr + 0 = 42
  BY DEF OneByte, loregs, Reg
<1>2. Decoded("TX_GAIN") = Extended(r, (mem[<<r.page, r.addr + 0>>] \div 2^r.offs) % 2^r.leng)
  BY <1>1 DEF Decoded
<1>3. Decoded("TX_GAIN") = Extended(r, (m \div 2^0) % 2^2)
  BY <1>1, <1>2
<1>4. (m \div 2^0) % 2^2 = m % 4
  BY Powers
<1> QED BY <1>1, <1>3, <1>4 DEF Extended

(* What it returns for the highest bit of a byte.                          *)
LEMMA DecodedSwap ==
  ASSUME mem[<<1, 42>>] \in 0..255
  PROVE  Decoded("TX_SWAP_IQ") = (mem[<<1, 42>>] \div 128) % 2
<1> DEFINE r == loregs.TX_SWAP_IQ
           m == mem[<<1, 42>>]
<1>1. /\ OneByte(r) /\ r.page = 1 /\ r.addr = 42 /\ r.offs = 7 /\ r.leng = 1 /\ r.sign = FALSE
      /\ r.addr + 0 = 42
  BY DEF OneByte, loregs, Reg
<1>2. Decoded("TX_SWAP_IQ") = Extended(r, (mem[<<r.page, r.addr + 0>>] \div 2^r.offs) % 2^r.leng)
  BY <1>1 DEF Decoded
<1>3. Decoded("TX_SWAP_IQ") = Extended(r, (m \div 2^7) % 2^1)
  BY <1>1, <1>2
<1>4. (m \div 2^7) % 2^1 = (m \div 128) % 2
  BY Powers
<1> QED BY <1>1, <1>3, <1>4 DEF Extended

(* What lgw_reg_r returns for a signed register of two bytes.              *)
LEMMA DecodedFreq ==
  ASSUME mem[<<0, 36>>] \in 0..255, mem[<<0, 37>>] \in 0..255
  PROVE  Decoded("IF_FREQ_0") =
           LET f == (mem[<<0, 36>>] + 256 * mem[<<0, 37>>]) % 8192
           IN  IF f >= 4096 THEN f - 8192 ELSE f
<1> DEFINE r == loregs.IF_FREQ_0
           l == mem[<<0, 36>>]
           h == mem[<<0, 37>>]
           at(i) == mem[<<r.page, r.addr + i>>]
           G(u) == [i \in 0..Size(r) - 1 |->
                      at(i) + (IF i = Size(r) - 1 THEN 0 ELSE 256 * u[i + 1])]
           w == CHOOSE u : u = G(u)
           g == [i \in 0..1 |-> IF i = 1 THEN h ELSE l + 256 * h]
<1>1. /\ ~OneByte(r) /\ r.page = 0 /\ r.addr = 36 /\ r.leng = 13 /\ r.sign = TRUE
      /\ Size(r) = 2 /\ r.addr + 0 = 36 /\ r.addr + 1 = 37
  BY DEF OneByte, Size, loregs, Reg
<1>2. Decoded("IF_FREQ_0") = Extended(r, w[0])
  BY <1>1 DEF Decoded
<1>3. 0..Size(r) - 1 = {0, 1} /\ at(0) = l /\ at(1) = h /\ l \in 0..255 /\ h \in 0..255
  BY <1>1
<1> HIDE DEF r, l, h, at
<1>4. g = G(g)
  <2>1. \A i \in {0, 1} : g[i] = at(i) + (IF i = Size(r) - 1 THEN 0 ELSE 256 * g[i + 1])
    BY <1>1, <1>3
  <2> QED BY <1>3, <2>1
<1> HIDE DEF g
<1>5. w = G(w)
  <2> HIDE DEF G
  <2>1. \E u : u = G(u)
    BY <1>4
  <2> QED BY <2>1, Zenon
<1> HIDE DEF w
<1>6. w[0] = l + 256 * h
  <2>1. w[1] = h
    BY <1>1, <1>3, <1>5
  <2> QED BY <1>1, <1>3, <1>5, <2>1
<1>7. \A u : Extended(r, u) = LET f == u % 2^13 IN IF f >= 2^(13 - 1) THEN f - 2^13 ELSE f
  BY <1>1 DEF Extended
<1> QED BY <1>2, <1>3, <1>6, <1>7, Powers DEF l, h

-----------------------------------------------------------------------------
(* The types.                                                              *)

(* No page is selected before the chip has been found, and nobody is in    *)
(* the library by then.                                                    *)
Selected == InUse => lgw_regpage >= 0

(* Every way of putting a value into a byte makes a byte.                  *)
LEMMA BytesMade ==
  ASSUME NEW v \in Int, NEW o \in 0..255
  PROVE  /\ Byte(v, 0) \in 0..255 /\ Byte(v, 1) \in 0..255
         /\ Mixed(loregs.TX_GAIN, o, v) \in 0..255
         /\ Mixed(loregs.TX_SWAP_IQ, o, v) \in 0..255
<1> DEFINE low  == v % 256
           high == (v \div 256) % 256
           gain == (o \div 4) * 4 + (v % 4)
           swap == (v % 2) * 128 + (o % 128)
<1>1. low \in 0..255
  OBVIOUS
<1>2. high \in 0..255
  <2>1. v \div 256 \in Int
    OBVIOUS
  <2> QED BY <2>1
<1>3. gain \in 0..255
  <2>1. v % 4 \in 0..3 /\ o \div 4 \in 0..63
    OBVIOUS
  <2> QED BY <2>1
<1>4. swap \in 0..255
  <2>1. v % 2 \in 0..1 /\ o % 128 \in 0..127
    OBVIOUS
  <2> QED BY <2>1
<1>5. Byte(v, 0) = low /\ Byte(v, 1) = high
  BY ByteRange
<1>6. Mixed(loregs.TX_GAIN, o, v) = gain
  BY MixedGain
<1>7. Mixed(loregs.TX_SWAP_IQ, o, v) = swap
  BY MixedSwap
<1> HIDE DEF low, high, gain, swap
<1> QED BY <1>1, <1>2, <1>3, <1>4, <1>5, <1>6, <1>7

(* What lands in memory is a byte, whatever the value.                     *)
LEMMA WrittenBytes ==
  ASSUME TypeOK, NEW t \in Thread, WriteBytes(t), call[t].val \in Int
  PROVE  mem' \in [Loc -> 0..255]
<1> DEFINE n == call[t].reg
           r == loregs[n]
           v == call[t].val
           o == call[t].buf
           W(l) == IF Direct(r) THEN Byte(v, l[2] - r.addr) ELSE Mixed(r, o, v)
<1>1. n \in Saved /\ v \in Int /\ o \in 0..255 /\ mem \in [Loc -> 0..255]
  BY DEF TypeOK, WriteBytes, Access
<1> HIDE DEF v, o
<1>b. /\ Byte(v, 0) \in 0..255 /\ Byte(v, 1) \in 0..255
      /\ Mixed(loregs.TX_GAIN, o, v) \in 0..255
      /\ Mixed(loregs.TX_SWAP_IQ, o, v) \in 0..255
  BY <1>1, BytesMade
<1>2. \A l \in Places(n) : W(l) \in 0..255
  <2>1. CASE n = "IF_FREQ_0"
    <3>1. Direct(r) /\ r.addr = 36
      BY <2>1 DEF Direct, OneByte, loregs, Reg
    <3>2. \A l \in Places(n) : l[2] - r.addr \in {0, 1}
      <4>1. Places(n) = {<<0, 36>>, <<0, 37>>}
        BY <2>1, SavedPlaces
      <4>2. <<0, 36>>[2] - 36 = 0 /\ <<0, 37>>[2] - 36 = 1
        OBVIOUS
      <4> QED BY <3>1, <4>1, <4>2
    <3> QED BY <1>b, <3>1, <3>2
  <2>2. CASE n = "TX_OFFSET_I"
    <3>1. Direct(r) /\ r.addr = 39
      BY <2>2 DEF Direct, OneByte, loregs, Reg
    <3>2. \A l \in Places(n) : l[2] - r.addr = 0
      BY <2>2, <3>1, SavedPlaces
    <3> QED BY <1>b, <3>1, <3>2
  <2>3. CASE n = "TX_GAIN"
    <3>1. ~Direct(r)
      BY <2>3 DEF Direct, OneByte, loregs, Reg
    <3> QED BY <1>b, <2>3, <3>1
  <2>4. CASE n = "TX_SWAP_IQ"
    <3>1. ~Direct(r)
      BY <2>4 DEF Direct, OneByte, loregs, Reg
    <3> QED BY <1>b, <2>4, <3>1
  <2> QED BY <1>1, <2>1, <2>2, <2>3, <2>4, SavedNames
<1>3. \/ mem' = mem
      \/ mem' = [l \in Loc |-> IF l \in Places(n) THEN W(l) ELSE mem[l]]
  BY DEF WriteBytes, v, o
<1> HIDE DEF W, n
<1> QED BY <1>1, <1>2, <1>3

(* The chip's memory after a reset, and at the start.                      *)
LEMMA DefaultTypes == DefaultMem \in [Loc -> 0..255] /\ DefaultFile \in [Saved -> Int]
<1>1. \A l \in Loc : DefaultByte(l) \in 0..255
  BY Locs, DefaultBytes
<1>2. \A n \in Saved : loregs[n].dflt \in Int
  BY SavedNames DEF loregs, Reg
<1> QED BY <1>1, <1>2 DEF DefaultMem, DefaultFile

(* A call is an access to a register of the library.                       *)
LEMMA CallTypes ==
  ASSUME NEW t \in Thread, NEW n \in Uses(t) \ {PAGE_REG}, NEW v \in Values(n)
  PROVE  n \in Name /\ v \in Int
<1>1. n \in Name
  BY UsesNames
<1>2. v \in Int
  BY ValAssumption DEF Values
<1> QED BY <1>1, <1>2

(* No call is under way: the same for every thread.                        *)
LEMMA NoCallType == NoCall \in Access
BY DEF NoCall, Access, PAGE_REG

(* Library calls keep the types.                                           *)
LEMMA CallTypeStep ==
  ASSUME TypeOK, Selected, NEW t \in Thread, LibraryCall(t)
  PROVE  TypeOK'
<1> USE DEF TypeOK, chipVars, ctlVars
<1>1. ASSUME NEW n \in Uses(t) \ {PAGE_REG}, NEW v \in Values(n), BeginAccess(t, n, v)
      PROVE  TypeOK'
  <2>1. n \in Name /\ v \in Int /\ loregs[n].page \in -1..2
    BY CallTypes, Pages
  <2>2. lgw_regpage' \in -1..3
    BY <1>1, <2>1 DEF BeginAccess, NeedsSwitch
  <2>3. call' \in [Thread -> Access]
    BY <1>1, <2>1 DEF BeginAccess, Access
  <2> QED BY <1>1, <2>2, <2>3 DEF BeginAccess
<1>2. CASE BeginPage(t)
  <2>1. call' \in [Thread -> Access]
    BY <1>2 DEF BeginPage, Access, NoCall, PAGE_REG
  <2> QED BY <1>2, <2>1 DEF BeginPage
<1>3. CASE PageWrite(t)
  <2>1. call' \in [Thread -> Access]
    BY <1>3, NoCallType DEF PageWrite, Access
  <2>2. page' \in 0..3
    BY <1>3 DEF PageWrite, Selected, InUse
  <2> QED BY <1>3, <2>1, <2>2, FailAssumption DEF PageWrite, Transfer, Disturbed
<1>4. CASE Look(t)
  <2>1. call' \in [Thread -> Access]
    BY <1>4, NoCallType DEF Look
  <2> QED BY <1>4, <2>1, FailAssumption DEF Look, Transfer
<1>5. CASE ReadByte(t)
  <2>1. call' \in [Thread -> Access]
    <3> DEFINE l == <<loregs[call[t].reg].page, loregs[call[t].reg].addr>>
    <3>1. call[t].reg \in Saved
      BY <1>5 DEF ReadByte
    <3>2. l \in Loc
      <4>1. /\ loregs["IF_FREQ_0"].page = 0 /\ loregs["IF_FREQ_0"].addr = 36
            /\ loregs["TX_OFFSET_I"].page = 1 /\ loregs["TX_OFFSET_I"].addr = 39
            /\ loregs["TX_GAIN"].page = 1 /\ loregs["TX_GAIN"].addr = 42
            /\ loregs["TX_SWAP_IQ"].page = 1 /\ loregs["TX_SWAP_IQ"].addr = 42
        BY DEF loregs, Reg
      <4> QED BY <3>1, <4>1, Locs, SavedNames
    <3>3. PICK b \in 0..255 : call' = [call EXCEPT ![t].at = "merge", ![t].buf = b]
      <4>0. mem \in [Loc -> 0..255] /\ 0 \in 0..255
        OBVIOUS
      <4> HIDE DEF l, TypeOK
      <4>1. mem[l] \in 0..255 /\ 0 \in 0..255
        BY <3>2, <4>0
      <4>2. \/ call' = [call EXCEPT ![t].at = "merge", ![t].buf = mem[l]]
            \/ call' = [call EXCEPT ![t].at = "merge", ![t].buf = 0]
        BY <1>5 DEF ReadByte, l
      <4> QED BY <4>1, <4>2
    <3> DEFINE c == [[call[t] EXCEPT !.at = "merge"] EXCEPT !.buf = b]
    <3>4. c \in Access
      <4>1. call[t] \in Access
        OBVIOUS
      <4>2. [call[t] EXCEPT !.at = "merge"] \in Access
        BY <4>1 DEF Access
      <4> QED BY <4>2 DEF Access
    <3>5. call' = [call EXCEPT ![t] = c]
      BY <3>3
    <3> HIDE DEF c
    <3> QED BY <3>4, <3>5
  <2> QED BY <1>5, <2>1, FailAssumption DEF ReadByte, Transfer, Disturbed
<1>6. CASE WriteBytes(t)
  <2>1. call' \in [Thread -> Access]
    BY <1>6, NoCallType DEF WriteBytes
  <2>2. call[t].val \in Int /\ call[t].reg \in Saved
    BY <1>6 DEF WriteBytes, Access
  <2>3. mem' \in [Loc -> 0..255]
    BY <1>6, <2>2, WrittenBytes
  <2>4. file' \in [Saved -> Int]
    BY <1>6, <2>2 DEF WriteBytes
  <2> QED BY <1>6, <2>1, <2>3, <2>4, FailAssumption DEF WriteBytes, Transfer
<1> QED BY <1>1, <1>2, <1>3, <1>4, <1>5, <1>6 DEF LibraryCall

(* So does everything else.                                                *)
LEMMA TypeStep == ASSUME TypeOK, Selected, [Next]_vars PROVE TypeOK'
<1> USE DEF TypeOK, chipVars, ctlVars, Mode
<1>1. ASSUME NEW t \in Thread, LibraryCall(t) PROVE TypeOK'
  BY <1>1, CallTypeStep
<1>2. ASSUME NEW t \in Thread, Quit(t) PROVE TypeOK'
  BY <1>2 DEF Quit
<1>3. CASE Connect
  BY <1>3 DEF Connect, Disturbed
<1>9. CASE ConnectOpen
  BY <1>9 DEF ConnectOpen
<1>4. CASE ConnectPage
  BY <1>4, FailAssumption DEF ConnectPage, Transfer, Disturbed
<1>5. ASSUME NEW done \in BOOLEAN, NEW ok \in BOOLEAN, Transfer(done, ok), SoftReset(done),
             mode' \in {"config", "close"}
      PROVE  TypeOK'
  <2>1. fails' \in 0..MaxFail
    BY <1>5, FailAssumption DEF Transfer
  <2>2. mem' \in [Loc -> 0..255] /\ file' \in [Saved -> Int]
    BY <1>5, DefaultTypes DEF SoftReset
  <2>3. page' \in 0..3 /\ lgw_regpage' \in -1..3 /\ disturbed' \in BOOLEAN
    BY <1>5 DEF SoftReset
  <2> QED BY <1>5, <2>1, <2>2, <2>3 DEF SoftReset
<1>10. CASE StartReset \/ StopReset
  BY <1>10, <1>5 DEF StartReset, StopReset
<1>6. CASE StartFails
  BY <1>6 DEF StartFails
<1>15. CASE Stop
  <2>1. mode' \in Mode
    BY <1>15 DEF Stop
  <2> QED BY <1>15, <2>1 DEF Stop
<1>11. CASE StartSucceeds
  BY <1>11 DEF StartSucceeds
<1>7. CASE Close
  BY <1>7 DEF Close, Disturbed
<1>12. CASE Forget \/ CtlUseAfterFree
  <2>1. CASE Forget
    BY <2>1 DEF Forget
  <2>2. CASE CtlUseAfterFree
    BY <2>2 DEF CtlUseAfterFree
  <2> QED BY <1>12, <2>1, <2>2
<1>13. CASE UseAfterFree
  BY <1>13 DEF UseAfterFree
<1>14. CASE Mcu
  BY <1>14 DEF Mcu
<1>8. CASE UNCHANGED vars
  BY <1>8 DEF vars
<1> QED BY <1>1, <1>2, <1>3, <1>4, <1>6, <1>7, <1>8, <1>9, <1>10, <1>11, <1>12, <1>13, <1>14,
       <1>15 DEF Next, Control

-----------------------------------------------------------------------------
(* The parts of the inductive invariant that concern the page.             *)

(* Only the threads that are there are in the library, and each with a     *)
(* register of its own; the bus is open while lgw_start configures and     *)
(* until it is stopped.                                                    *)
Works(t) == IF t = "ctl" THEN mode = "config" ELSE t \in alive
Workers ==
  /\ \A t \in Thread : call[t].at # "idle" => Works(t) /\ call[t].reg \in Uses(t)
  /\ \A t \in Thread : call[t].reg = PAGE_REG => call[t].at \in {"idle", "page"}
  /\ mode \in {"reset", "config", "up"} => lgw_spi_target = "open" /\ lgw_regpage >= 0

(* Unless something has been disturbed, the two workers are about only     *)
(* between the end of lgw_start and lgw_stop.                              *)
Apart == ~disturbed /\ alive # {} => mode \in {"up", "stopReset"}

(* A call at work on a register of a page, or on the page itself.          *)
Paged(t) == /\ call[t].at # "idle"
            /\ call[t].reg = PAGE_REG \/ loregs[call[t].reg].page # -1

(* The page a call is about to select.                                     *)
Wanted(t) == IF call[t].reg = PAGE_REG THEN 3 ELSE loregs[call[t].reg].page

(* One call at a time depends on the page; what it waits to write there is *)
(* what the library remembers, and from there on the chip is on the page   *)
(* of the register; and with no switch under way the library is right.     *)
Alone     == \A t, u \in Thread : Paged(t) /\ Paged(u) => t = u
Selecting == \A t \in Thread : call[t].at = "page" => lgw_regpage = Wanted(t)
OnPage    == \A t \in Thread : call[t].at \in {"data", "merge"} /\ Paged(t) =>
               page = Wanted(t) /\ lgw_regpage = Wanted(t)
InSync    == (\A t \in Thread : call[t].at # "page") => lgw_regpage = 3 \/ page = lgw_regpage

Undisturbed == ~disturbed /\ (mode \in {"config", "up"} \/ alive # {})
InUsePage   == Undisturbed => Selecting /\ OnPage /\ InSync

PageInv == TypeOK /\ Selected /\ Workers /\ Apart /\ InUsePage /\ AccessOnItsPage

(* Of two calls at work that depend on the page one would be by "ctl",     *)
(* which is alone until it has made the threads, or by the receiver.       *)
LEMMA OnePaged == TypeOK /\ Workers /\ Apart /\ ~disturbed => Alone
<1> SUFFICES ASSUME TypeOK, Workers, Apart, ~disturbed, NEW t \in Thread, NEW u \in Thread,
                    Paged(t), Paged(u)
             PROVE  t = u
  BY DEF Alone
<1>1. t # "receive" /\ u # "receive"
  BY UsesNames DEF Paged, Workers, Thread, Uses, PAGE_REG
<1>2. t = "ctl" /\ u = "send" => FALSE
  BY DEF Workers, Works, Apart, Paged, Thread
<1>3. t = "send" /\ u = "ctl" => FALSE
  BY DEF Workers, Works, Apart, Paged, Thread
<1> QED BY <1>1, <1>2, <1>3 DEF Thread

(* The same after a step.                                                  *)
LEMMA OnePagedPrimed == (TypeOK /\ Workers /\ Apart /\ ~disturbed => Alone)'
BY OnePaged, PTL

(* The calls that are under way keep to what each thread may do.           *)
LEMMA WorkersStep ==
  ASSUME TypeOK, Selected, Workers, [Next]_vars
  PROVE  Selected' /\ Workers'
<1> USE DEF TypeOK, Selected, Workers, Works, InUse, Idle, Running, MayCall, Connected, NoCall,
            chipVars, ctlVars
<1>1. ASSUME NEW t \in Thread, LibraryCall(t) PROVE Selected' /\ Workers'
  <2>1. ASSUME NEW n \in Uses(t) \ {PAGE_REG}, NEW v \in Values(n), BeginAccess(t, n, v)
        PROVE  Selected' /\ Workers'
    <3>1. n \in Name /\ loregs[n].page \in -1..2 /\ n # PAGE_REG
      BY CallTypes, Pages
    <3>2. lgw_regpage' >= 0
      BY <2>1, <3>1 DEF BeginAccess, NeedsSwitch
    <3>3. /\ call'[t].reg = n
          /\ \A u \in Thread \ {t} : call'[u] = call[u]
      BY <2>1 DEF BeginAccess
    <3> QED BY <2>1, <3>1, <3>2, <3>3 DEF BeginAccess
  <2>2. CASE BeginPage(t)
    BY <2>2 DEF BeginPage
  <2>3. CASE PageWrite(t)
    BY <2>3 DEF PageWrite, Transfer
  <2>4. CASE Look(t)
    BY <2>4 DEF Look, Transfer
  <2>5. CASE ReadByte(t)
    <3>1. /\ call'[t].at = "merge" /\ call'[t].reg = call[t].reg
          /\ \A u \in Thread \ {t} : call'[u] = call[u]
      BY <2>5 DEF ReadByte, Access
    <3>2. call[t].reg # PAGE_REG
      BY <2>5 DEF ReadByte
    <3> QED BY <2>5, <3>1, <3>2 DEF ReadByte
  <2>6. CASE WriteBytes(t)
    BY <2>6 DEF WriteBytes, Transfer
  <2> QED BY <1>1, <2>1, <2>2, <2>3, <2>4, <2>5, <2>6 DEF LibraryCall
<1>2. ASSUME NEW t \in Thread, Quit(t) PROVE Selected' /\ Workers'
  BY <1>2 DEF Quit
<1>3. CASE Connect \/ ConnectOpen
  BY <1>3 DEF Connect, ConnectOpen
<1>4. CASE ConnectPage
  BY <1>4 DEF ConnectPage, Transfer
<1>5. CASE StartReset
  BY <1>5 DEF StartReset, SoftReset, Transfer
<1>6. CASE StopReset
  BY <1>6 DEF StopReset, SoftReset, Transfer
<1>7. CASE StartFails \/ StartSucceeds
  BY <1>7 DEF StartFails, StartSucceeds
<1>8. CASE Stop \/ Close \/ Forget
  BY <1>8 DEF Stop, Close, Forget
<1>9. CASE CtlUseAfterFree \/ UseAfterFree \/ Mcu \/ UNCHANGED vars
  BY <1>9 DEF CtlUseAfterFree, UseAfterFree, Mcu, vars
<1> QED BY <1>1, <1>2, <1>3, <1>4, <1>5, <1>6, <1>7, <1>8, <1>9 DEF Next, Control

(* The workers are undisturbed only between start and stop.                *)
LEMMA ApartStep == ASSUME TypeOK, Workers, Apart, [Next]_vars PROVE Apart'
<1> USE DEF TypeOK, Workers, Apart, Connected, chipVars, ctlVars
<1>1. ASSUME NEW t \in Thread, LibraryCall(t) PROVE Apart'
  BY <1>1 DEF LibraryCall, BeginAccess, BeginPage, PageWrite, Look, ReadByte, WriteBytes, Disturbed
<1>2. ASSUME NEW t \in Thread, Quit(t) PROVE Apart'
  BY <1>2 DEF Quit
<1>3. CASE Connect \/ ConnectOpen \/ ConnectPage
  BY <1>3 DEF Connect, ConnectOpen, ConnectPage, Disturbed
<1>4. CASE StartReset \/ StopReset
  BY <1>4 DEF StartReset, StopReset, SoftReset
<1>5. CASE StartFails \/ StartSucceeds \/ Stop
  BY <1>5 DEF StartFails, StartSucceeds, Stop
<1>6. CASE Close \/ Forget
  BY <1>6 DEF Close, Forget, Disturbed
<1>7. CASE CtlUseAfterFree \/ UseAfterFree \/ Mcu \/ UNCHANGED vars
  BY <1>7 DEF CtlUseAfterFree, UseAfterFree, Mcu, vars
<1> QED BY <1>1, <1>2, <1>3, <1>4, <1>5, <1>6, <1>7 DEF Next, Control

(* A call that begins.  It finds the library right about the page, or      *)
(* selects its own.                                                        *)
LEMMA PageBegin ==
  ASSUME PageInv, [Next]_vars, NEW t \in Thread, NEW n \in Uses(t) \ {PAGE_REG},
         NEW v \in Values(n), BeginAccess(t, n, v)
  PROVE  InUsePage' /\ AccessOnItsPage'
<1> USE DEF chipVars, ctlVars
<1>1. AccessOnItsPage'
  BY DEF PageInv, AccessOnItsPage, BeginAccess
<1> SUFFICES ASSUME ~disturbed' PROVE Selecting' /\ OnPage' /\ InSync'
  BY <1>1 DEF InUsePage, Undisturbed
<1>2. /\ ~disturbed /\ call[t].at = "idle" /\ lgw_regpage >= 0
      /\ Works(t) /\ Workers /\ TypeOK /\ Apart
  BY DEF BeginAccess, MayCall, Connected, Works, PageInv, Idle
<1>3. Selecting /\ OnPage /\ InSync
  BY <1>2 DEF Works, PageInv, InUsePage, Undisturbed
<1>4. n \in Name /\ n # PAGE_REG /\ loregs[n].page \in -1..2 /\ lgw_regpage \in 0..3
  BY <1>2, CallTypes, Pages DEF TypeOK
<1>5. Alone'
  BY <1>2, TypeStep, WorkersStep, ApartStep, OnePagedPrimed DEF PageInv
<1>6. /\ call'[t].reg = n /\ call'[t].at = (IF NeedsSwitch(loregs[n]) THEN "page" ELSE "data")
      /\ \A u \in Thread \ {t} : call'[u] = call[u]
      /\ lgw_regpage' = (IF NeedsSwitch(loregs[n]) THEN loregs[n].page ELSE lgw_regpage)
      /\ page' = page
  BY <1>2 DEF BeginAccess, TypeOK
<1>7. CASE loregs[n].page = -1
  <2>1. call'[t].at = "data" /\ lgw_regpage' = lgw_regpage /\ ~Paged(t)'
    BY <1>4, <1>6, <1>7 DEF NeedsSwitch, Paged
  <2> QED BY <1>2, <1>3, <1>6, <2>1 DEF Selecting, OnPage, InSync, Paged, Wanted
<1>8. CASE loregs[n].page # -1
  <2>1. Paged(t)'
    BY <1>4, <1>6, <1>8 DEF Paged
  <2>2. ASSUME NEW u \in Thread \ {t} PROVE call'[u] = call[u] /\ ~Paged(u)' /\ ~Paged(u)
    <3>1. call'[u] = call[u] /\ ~Paged(u)'
      BY <1>5, <1>6, <2>1 DEF Alone
    <3> QED BY <3>1 DEF Paged
  <2>3. ASSUME NEW u \in Thread PROVE call[u].at # "page"
    <3>1. CASE u = t
      BY <1>2, <3>1
    <3>2. CASE u # t
      BY <1>2, <1>3, <1>4, <2>2, <3>2 DEF Selecting, Paged, Wanted
    <3> QED BY <3>1, <3>2
  <2>4. \A u \in Thread \ {t} : call'[u].at # "page" /\ ~Paged(u)'
    BY <2>2, <2>3
  <2>5. CASE NeedsSwitch(loregs[n])
    <3>1. call'[t].at = "page" /\ lgw_regpage' = loregs[n].page /\ Wanted(t)' = loregs[n].page
      BY <1>4, <1>6, <2>5 DEF Wanted
    <3> QED BY <2>4, <3>1 DEF Selecting, OnPage, InSync
  <2>6. CASE ~NeedsSwitch(loregs[n])
    <3>1. /\ call'[t].at = "data" /\ lgw_regpage' = lgw_regpage
          /\ lgw_regpage = loregs[n].page /\ Wanted(t)' = loregs[n].page
      BY <1>4, <1>6, <1>8, <2>6 DEF Wanted, NeedsSwitch
    <3>2. page = lgw_regpage
      BY <1>3, <1>4, <2>3, <3>1 DEF InSync
    <3> QED BY <1>6, <2>4, <3>1, <3>2 DEF Selecting, OnPage, InSync
  <2> QED BY <2>5, <2>6
<1> QED BY <1>7, <1>8

(* The calls that go on.                                                   *)
LEMMA PageCall ==
  ASSUME PageInv, [Next]_vars, NEW t \in Thread,
         BeginPage(t) \/ PageWrite(t) \/ Look(t) \/ ReadByte(t) \/ WriteBytes(t)
  PROVE  InUsePage' /\ AccessOnItsPage'
<1> USE DEF chipVars, ctlVars
<1>1. TypeOK /\ Selected /\ Workers /\ Apart /\ InUsePage /\ AccessOnItsPage /\ Works(t)
  BY DEF PageInv, Workers, BeginPage, PageWrite, Look, ReadByte, WriteBytes, MayCall, Works, Idle
<1>2. ~disturbed => Selecting /\ OnPage /\ InSync /\ Alone
  BY <1>1, OnePaged DEF InUsePage, Undisturbed, Works
<1>3. ASSUME ~disturbed, NEW u \in Thread, call[u].at = "page" PROVE Paged(u)
  BY <1>1, <1>2, <1>3 DEF Selecting, Paged, Wanted, Selected, InUse, TypeOK
<1>4. ASSUME call[t].at \in {"data", "merge"} PROVE ~disturbed => OnOwnPage(loregs[call[t].reg])
  BY <1>1, <1>2, <1>4 DEF OnPage, Paged, Wanted, OnOwnPage, Workers
<1>5. disturbed' = FALSE => ~disturbed
  BY DEF BeginPage, PageWrite, Look, ReadByte, WriteBytes, Disturbed
<1>6. CASE BeginPage(t)
  <2>1. /\ call'[t].at = "page" /\ call'[t].reg = PAGE_REG /\ lgw_regpage' = 3 /\ stray' = stray
        /\ \A u \in Thread \ {t} : call'[u] = call[u]
    BY <1>1, <1>6 DEF BeginPage, NoCall, TypeOK
  <2>2. ASSUME ~disturbed' PROVE Selecting' /\ OnPage' /\ InSync'
    <3>1. Alone'
      BY <1>1, <2>2, TypeStep, WorkersStep, ApartStep, OnePagedPrimed
    <3>2. Paged(t)' /\ Wanted(t)' = 3
      BY <2>1 DEF Paged, Wanted
    <3>3. ASSUME NEW u \in Thread \ {t} PROVE ~Paged(u)' /\ call'[u].at # "page"
      <4>1. ~Paged(u)'
        BY <3>1, <3>2 DEF Alone
      <4>2. ~Paged(u) /\ call'[u] = call[u]
        BY <2>1, <4>1 DEF Paged
      <4> QED BY <1>3, <1>5, <2>2, <4>1, <4>2
    <3> QED BY <2>1, <3>2, <3>3 DEF Selecting, OnPage, InSync
  <2> QED BY <1>1, <2>1, <2>2 DEF InUsePage, Undisturbed, AccessOnItsPage
<1>7. CASE PageWrite(t)
  <2>1. /\ call[t].at = "page" /\ lgw_regpage' = lgw_regpage /\ stray' = stray
        /\ \A u \in Thread \ {t} : call'[u] = call[u]
        /\ IF call[t].reg = PAGE_REG THEN call'[t].at = "idle"
           ELSE call'[t].at = "data" /\ call'[t].reg = call[t].reg
    BY <1>1, <1>7 DEF PageWrite, NoCall, TypeOK
  <2>2. ASSUME ~disturbed' PROVE Selecting' /\ OnPage' /\ InSync'
    <3>1. ~disturbed /\ page' = lgw_regpage
      BY <1>7, <2>2 DEF PageWrite, Disturbed
    <3>2. Paged(t) /\ lgw_regpage = Wanted(t)
      BY <1>2, <1>3, <2>1, <3>1 DEF Selecting
    <3>3. ASSUME NEW u \in Thread \ {t} PROVE ~Paged(u)' /\ call'[u].at # "page"
      <4>1. ~Paged(u)
        BY <1>2, <3>1, <3>2 DEF Alone
      <4>2. call[u].at # "page"
        BY <1>3, <3>1, <4>1
      <4> QED BY <2>1, <4>1, <4>2 DEF Paged
    <3> QED BY <2>1, <3>1, <3>2, <3>3 DEF Selecting, OnPage, InSync, Paged, Wanted
  <2> QED BY <1>1, <2>1, <2>2 DEF InUsePage, Undisturbed, AccessOnItsPage
<1>8. CASE Look(t) \/ WriteBytes(t) \/ ReadByte(t)
  <2>1. /\ call[t].at \in {"data", "merge"} /\ lgw_regpage' = lgw_regpage /\ page' = page
        /\ \A u \in Thread \ {t} : call'[u] = call[u]
    BY <1>1, <1>8 DEF Look, WriteBytes, ReadByte, TypeOK
  <2>2. \/ call'[t].at = "idle"
        \/ call'[t].at = "merge" /\ call'[t].reg = call[t].reg
    <3>1. call \in [Thread -> Access] /\ call[t] \in Access
      BY <1>1 DEF TypeOK
    <3>2. CASE Look(t) \/ WriteBytes(t)
      <4>1. call' = [call EXCEPT ![t] = NoCall]
        BY <3>2 DEF Look, WriteBytes
      <4> QED BY <3>1, <4>1 DEF NoCall
    <3>3. CASE ReadByte(t)
      <4>1. \E b : call' = [call EXCEPT ![t].at = "merge", ![t].buf = b]
        BY <3>3 DEF ReadByte
      <4> QED BY <3>1, <4>1 DEF Access
    <3> QED BY <1>8, <3>2, <3>3
  <2>3. AccessOnItsPage'
    <3>1. \A done \in BOOLEAN : ~Strays(loregs[call[t].reg], done)
      BY <1>4, <2>1 DEF Strays
    <3>2. \E done \in BOOLEAN : stray' = (stray \/ Strays(loregs[call[t].reg], done))
      BY <1>8 DEF Look, WriteBytes, ReadByte
    <3> QED BY <1>1, <3>1, <3>2 DEF AccessOnItsPage
  <2>4. ASSUME ~disturbed' PROVE Selecting' /\ OnPage' /\ InSync'
    <3>1. Selecting /\ OnPage /\ InSync
      BY <1>2, <1>5, <2>4
    <3> QED BY <2>1, <2>2, <3>1 DEF Selecting, OnPage, InSync, Paged, Wanted
  <2> QED BY <1>1, <2>3, <2>4 DEF InUsePage, Undisturbed, AccessOnItsPage
<1> QED BY <1>6, <1>7, <1>8

(* The thread that starts and stops the concentrator, and the chip.        *)
LEMMA PageStep == ASSUME PageInv, [Next]_vars PROVE InUsePage' /\ AccessOnItsPage'
<1> USE DEF chipVars, ctlVars
<1>0. TypeOK /\ Workers /\ Apart /\ InUsePage /\ AccessOnItsPage
  BY DEF PageInv
<1>1. ASSUME NEW t \in Thread, LibraryCall(t) PROVE InUsePage' /\ AccessOnItsPage'
  BY <1>1, PageBegin, PageCall DEF LibraryCall
<1>2. ASSUME UNCHANGED <<lgw_regpage, page, call, stray>>,
             Undisturbed' => Undisturbed
      PROVE  InUsePage' /\ AccessOnItsPage'
  BY <1>0, <1>2 DEF InUsePage, Undisturbed, AccessOnItsPage, Selecting, OnPage, InSync, Paged, Wanted
<1>3. ASSUME NEW t \in Thread, Quit(t) PROVE InUsePage' /\ AccessOnItsPage'
  BY <1>2, <1>3 DEF Quit, Undisturbed
<1>4. CASE Connect \/ ConnectOpen \/ Close \/ Forget
  BY <1>2, <1>4 DEF Connect, ConnectOpen, Close, Forget, Undisturbed, Disturbed
<1>5. CASE ConnectPage
  <2>1. ~Undisturbed' /\ stray' = stray
    BY <1>0, <1>5 DEF ConnectPage, Undisturbed, Disturbed, Apart
  <2> QED BY <1>0, <2>1 DEF InUsePage, AccessOnItsPage
<1>6. CASE StartReset
  <2>1. stray' = stray /\ call' = call /\ mode = "reset"
    BY <1>6 DEF StartReset, SoftReset
  <2>2. ASSUME ~disturbed' PROVE Selecting' /\ OnPage' /\ InSync'
    <3>1. alive = {} /\ page' = 0 /\ lgw_regpage' = 0
      BY <1>6, <2>2 DEF StartReset, SoftReset
    <3>2. \A t \in Thread : call'[t].at = "idle"
      BY <1>0, <2>1, <3>1 DEF Workers, Works
    <3> QED BY <3>1, <3>2 DEF Selecting, OnPage, InSync
  <2> QED BY <1>0, <2>1, <2>2 DEF InUsePage, Undisturbed, AccessOnItsPage
<1>7. CASE StopReset
  <2>1. ~Undisturbed' /\ stray' = stray
    BY <1>7 DEF StopReset, SoftReset, Undisturbed
  <2> QED BY <1>0, <2>1 DEF InUsePage, AccessOnItsPage
<1>8. CASE StartFails \/ Stop
  BY <1>2, <1>8 DEF StartFails, Stop, Undisturbed
<1>9. CASE StartSucceeds
  BY <1>2, <1>9 DEF StartSucceeds, Undisturbed
<1>10. CASE CtlUseAfterFree \/ UseAfterFree
  BY <1>2, <1>10 DEF CtlUseAfterFree, UseAfterFree, Undisturbed
<1>11. CASE Mcu
  <2>1. stray' = stray /\ call' = call /\ mode = "config" /\ lgw_regpage' = 3 /\ call["ctl"].at = "idle"
    BY <1>11 DEF Mcu, Idle
  <2>2. ASSUME ~disturbed' PROVE Selecting' /\ OnPage' /\ InSync'
    <3>1. alive = {}
      BY <1>0, <1>11, <2>1, <2>2 DEF Mcu, Apart
    <3>2. \A t \in Thread : call'[t].at = "idle"
      BY <1>0, <2>1, <3>1 DEF Workers, Works
    <3> QED BY <2>1, <3>2 DEF Selecting, OnPage, InSync
  <2> QED BY <1>0, <2>1, <2>2 DEF InUsePage, Undisturbed, AccessOnItsPage
<1>12. CASE UNCHANGED vars
  BY <1>2, <1>12 DEF vars, Undisturbed
<1> QED BY <1>1, <1>3, <1>4, <1>5, <1>6, <1>7, <1>8, <1>9, <1>10, <1>11, <1>12 DEF Next, Control

-----------------------------------------------------------------------------
(* The values.                                                             *)

(* What fits a register.  lgw_reg_w cuts off what does not.                *)
Fitting(r) == IF r.sign THEN -2^(r.leng - 1)..2^(r.leng - 1) - 1 ELSE 0..2^r.leng - 1
ValuesFit  == \A n \in Saved : Val[n] \subseteq Fitting(loregs[n])

(* What fits a register with a sign, h being half of its range.            *)
LEMMA Signed ==
  ASSUME NEW r, NEW e, NEW h, r.sign = TRUE, r.leng - 1 = e, 2^e = h
  PROVE  Fitting(r) = -h..h - 1
<1>1. 2^(r.leng - 1) = h
  BY Zenon
<1>2. Fitting(r) = -2^(r.leng - 1)..2^(r.leng - 1) - 1
  BY DEF Fitting
<1> QED BY <1>1, <1>2, Zenon

(* What is written to IF_FREQ_0 has 13 bits.                               *)
LEMMA FreqFits ==
  ASSUME ValuesFit, NEW f \in Val["IF_FREQ_0"]
  PROVE  f \in Int /\ -4096 <= f /\ f <= 4095
<1>1. loregs.IF_FREQ_0.sign = TRUE /\ loregs.IF_FREQ_0.leng - 1 = 12
  BY DEF loregs, Reg
<1>2. PICK h : h = 4096
  OBVIOUS
<1>3. 2^12 = h
  BY <1>2, Powers
<1>4. Fitting(loregs.IF_FREQ_0) = -h..h - 1
  BY <1>1, <1>3, Signed, Zenon
<1>5. f \in Fitting(loregs.IF_FREQ_0)
  BY SavedNames DEF ValuesFit
<1>6. f \in -h..h - 1
  BY <1>4, <1>5
<1> QED BY <1>2, <1>6

(* The same of the other registers that keep their values.                 *)
LEMMA FittingNumbers ==
  ASSUME ValuesFit
  PROVE  /\ Val["TX_OFFSET_I"] \subseteq -128..127
         /\ Val["TX_GAIN"] \subseteq 0..3 /\ Val["TX_SWAP_IQ"] \subseteq 0..1
<1>1. Fitting(loregs.TX_OFFSET_I) = -128..127
  <2>1. loregs.TX_OFFSET_I.sign = TRUE /\ loregs.TX_OFFSET_I.leng - 1 = 7
    BY DEF loregs, Reg
  <2>2. PICK h : h = 128
    OBVIOUS
  <2>3. 2^7 = h
    BY <2>2, Powers
  <2>4. Fitting(loregs.TX_OFFSET_I) = -h..h - 1
    BY <2>1, <2>3, Signed, Zenon
  <2> QED BY <2>2, <2>4
<1>2. Fitting(loregs.TX_GAIN) = 0..3
  <2>1. loregs.TX_GAIN.sign = FALSE /\ loregs.TX_GAIN.leng = 2
    BY DEF loregs, Reg
  <2> QED BY <2>1, Powers DEF Fitting
<1>3. Fitting(loregs.TX_SWAP_IQ) = 0..1
  <2>1. loregs.TX_SWAP_IQ.sign = FALSE /\ loregs.TX_SWAP_IQ.leng = 1
    BY DEF loregs, Reg
  <2> QED BY <2>1, Powers DEF Fitting
<1>4. \A n \in Saved : Val[n] \subseteq Fitting(loregs[n])
  BY DEF ValuesFit
<1>5. /\ Val["TX_OFFSET_I"] \subseteq Fitting(loregs.TX_OFFSET_I)
      /\ Val["TX_GAIN"] \subseteq Fitting(loregs.TX_GAIN)
      /\ Val["TX_SWAP_IQ"] \subseteq Fitting(loregs.TX_SWAP_IQ)
  BY <1>4, SavedNames
<1>6. Val["TX_OFFSET_I"] \subseteq -128..127
  BY <1>1, <1>5
<1>7. Val["TX_GAIN"] \subseteq 0..3 /\ Val["TX_SWAP_IQ"] \subseteq 0..1
  BY <1>2, <1>3, <1>5
<1> QED BY <1>6, <1>7

(* A number of 13 bits with sign, cut into two bytes, put together again   *)
(* and extended.                                                           *)
Word(v)    == ((v % 256) + 256 * ((v \div 256) % 256)) % 8192
Wrapped(f) == IF f >= 4096 THEN f - 8192 ELSE f

(* What lgw_reg_r makes of the chip's bytes.                               *)
Low    == mem[<<0, 36>>]
High   == mem[<<0, 37>>]
Offset == mem[<<1, 39>>]
Shared == mem[<<1, 42>>]
Read ==
  /\ Decoded("IF_FREQ_0") = Wrapped((Low + 256 * High) % 8192)
  /\ Decoded("TX_OFFSET_I") = IF Offset >= 128 THEN Offset - 256 ELSE Offset
  /\ Decoded("TX_GAIN") = Shared % 4
  /\ Decoded("TX_SWAP_IQ") = (Shared \div 128) % 2
Bytes == Low \in 0..255 /\ High \in 0..255 /\ Offset \in 0..255 /\ Shared \in 0..255

(* Bytes are bytes, and lgw_reg_r makes of them what Read says.            *)
LEMMA BytesRead == TypeOK => Bytes /\ Read
<1> SUFFICES ASSUME TypeOK PROVE Bytes /\ Read
  OBVIOUS
<1>1. Bytes
  BY Locs DEF TypeOK, Bytes, Low, High, Offset, Shared
<1>2. Decoded("IF_FREQ_0") = Wrapped((Low + 256 * High) % 8192)
  BY <1>1, DecodedFreq DEF Bytes, Wrapped, Low, High
<1>3. Decoded("TX_OFFSET_I") = IF Offset >= 128 THEN Offset - 256 ELSE Offset
  BY <1>1, DecodedOffset DEF Bytes, Offset
<1>4. Decoded("TX_GAIN") = Shared % 4 /\ Decoded("TX_SWAP_IQ") = (Shared \div 128) % 2
  BY <1>1, DecodedGain, DecodedSwap DEF Bytes, Shared
<1> QED BY <1>1, <1>2, <1>3, <1>4 DEF Read

(* The same after a step.                                                  *)
LEMMA BytesReadPrimed == (TypeOK => Bytes /\ Read)'
BY BytesRead, PTL

(* The value on its way to a register is one of those written there; and,  *)
(* unless something has been disturbed, the byte read to be written back   *)
(* is still the chip's.                                                    *)
ByteOf(n) == <<loregs[n].page, loregs[n].addr>>
OnTheWay == \A t \in Thread : call[t].at # "idle" /\ call[t].reg \in Saved =>
              call[t].val \in Val[call[t].reg]
Fresh    == ~disturbed => \A t \in Thread : call[t].at = "merge" =>
              call[t].reg \in Saved /\ call[t].buf = mem[ByteOf(call[t].reg)]
ValueInv == OnTheWay /\ Fresh /\ RegistersKeepValues

(* A reset.                                                                *)
Defaults == mem = DefaultMem /\ file = DefaultFile

(* The registers read as their defaults once reset.                        *)
LEMMA DefaultsRead == TypeOK /\ Defaults => \A n \in Saved : Decoded(n) = file[n]
<1> SUFFICES ASSUME TypeOK, Defaults PROVE \A n \in Saved : Decoded(n) = file[n]
  OBVIOUS
<1>1. Low = 128 /\ High = 254 /\ Offset = 0 /\ Shared = 128
  BY DefaultBytes, Locs DEF Defaults, DefaultMem, Low, High, Offset, Shared
<1>2. /\ file["IF_FREQ_0"] = -384 /\ file["TX_OFFSET_I"] = 0
      /\ file["TX_GAIN"] = 0 /\ file["TX_SWAP_IQ"] = 1
  BY SavedNames DEF Defaults, DefaultFile, loregs, Reg
<1>3. Decoded("IF_FREQ_0") = -384
  <2>1. (Low + 256 * High) % 8192 = 7808
    BY <1>1
  <2> QED BY <2>1, BytesRead DEF Read, Wrapped
<1>4. /\ Decoded("TX_OFFSET_I") = 0
      /\ Decoded("TX_GAIN") = 0 /\ Decoded("TX_SWAP_IQ") = 1
  BY <1>1, BytesRead DEF Read
<1> QED BY <1>2, <1>3, <1>4, SavedNames

(* Every register reads as the value last written.                         *)
AllRead == \A n \in Saved : Decoded(n) = file[n]

(* The same after a step.                                                  *)
LEMMA DefaultsReadPrimed == (TypeOK /\ Defaults => AllRead)'
<1>1. TypeOK /\ Defaults => AllRead
  BY DefaultsRead DEF AllRead
<1> QED BY <1>1, PTL

(* The two bytes of a number of 13 bits with sign read as the number.      *)
LEMMA WordReads ==
  ASSUME NEW v \in Int, -4096 <= v, v <= 4095
  PROVE  Wrapped(Word(v)) = v
<1> DEFINE q == v \div 256
           m == v % 256
<1>1. v = 256 * q + m /\ m \in 0..255 /\ q \in -16..15
  OBVIOUS
<1> HIDE DEF q, m
<1>2. CASE q >= 0
  <2>1. q % 256 = q /\ v \in 0..4095 /\ m + 256 * q = v
    BY <1>1, <1>2
  <2>2. v % 8192 = v
    BY <2>1
  <2> QED BY <2>1, <2>2 DEF Word, Wrapped, q, m
<1>3. CASE q < 0
  <2>1. q % 256 = q + 256 /\ v \in -4096..-1
    BY <1>1, <1>3
  <2>2. m + 256 * (q + 256) = v + 65536
    BY <1>1
  <2>3. (v + 65536) % 8192 = v + 8192
    BY <2>1
  <2>4. ((m + 256 * (q % 256)) % 8192) = v + 8192
    BY <2>1, <2>2, <2>3
  <2>5. v + 8192 >= 4096 /\ (v + 8192) - 8192 = v
    BY <2>1
  <2> QED BY <2>4, <2>5 DEF Word, Wrapped, q, m
<1> QED BY <1>1, <1>2, <1>3

(* A register written reads as the value written, and its neighbour in the *)
(* byte as before.                                                         *)
LEMMA WriteReads ==
  ASSUME ValuesFit, TypeOK, TypeOK', OnTheWay, RegistersKeepValues, ~disturbed,
         NEW t \in Thread, WriteBytes(t),
         call[t].at = "merge" => call[t].buf = mem[ByteOf(call[t].reg)]
  PROVE  AllRead'
<1> DEFINE n == call[t].reg
           r == loregs[n]
           v == call[t].val
           o == call[t].buf
           W(l) == IF Direct(r) THEN Byte(v, l[2] - r.addr) ELSE Mixed(r, o, v)
<1>1. /\ n \in Saved /\ v \in Int /\ v \in Val[n] /\ o \in 0..255
      /\ (~Direct(r) => o = mem[ByteOf(n)])
  BY DEF TypeOK, WriteBytes, Access, OnTheWay
<1>2. \/ mem' = mem /\ file' = file
      \/ /\ mem' = [l \in Loc |-> IF l \in Places(n) THEN W(l) ELSE mem[l]]
         /\ file' = [file EXCEPT ![n] = v]
  BY DEF WriteBytes
<1>3. Bytes /\ Read /\ Bytes' /\ Read'
  BY BytesRead, BytesReadPrimed
<1>4. \A m \in Saved : Decoded(m) = file[m]
  BY DEF RegistersKeepValues
<1>5. file \in [Saved -> Int]
  BY DEF TypeOK
<1>6. CASE mem' = mem /\ file' = file
  <2>1. Low' = Low /\ High' = High /\ Offset' = Offset /\ Shared' = Shared
    BY <1>6 DEF Low, High, Offset, Shared
  <2>2. \A m \in Saved : Decoded(m)' = Decoded(m)
    BY <1>3, <2>1, SavedNames DEF Read
  <2> QED BY <1>4, <1>6, <2>2 DEF AllRead
<1>7. CASE /\ mem' = [l \in Loc |-> IF l \in Places(n) THEN W(l) ELSE mem[l]]
           /\ file' = [file EXCEPT ![n] = v]
  <2>1. file'[n] = v /\ \A m \in Saved \ {n} : file'[m] = file[m]
    BY <1>1, <1>5, <1>7
  <2>2. CASE n = "IF_FREQ_0"
    <3>1. Direct(r) /\ r.addr = 36
      BY <2>2 DEF Direct, OneByte, loregs, Reg
    <3>2. W(<<0, 36>>) = v % 256 /\ W(<<0, 37>>) = (v \div 256) % 256
      BY <1>1, <3>1, ByteRange
    <3>3. Offset' = Offset /\ Shared' = Shared /\ Low' = v % 256 /\ High' = (v \div 256) % 256
      BY <1>7, <2>2, <3>2, Locs, SavedPlaces DEF Low, High, Offset, Shared
    <3>4. v \in Int /\ -4096 <= v /\ v <= 4095
      BY <1>1, <2>2, FreqFits
    <3>5. Decoded("IF_FREQ_0")' = v
      <4>1. Wrapped(Word(v)) = v
        BY <3>4, WordReads
      <4>2. (Low' + 256 * High') % 8192 = Word(v)
        BY <3>3 DEF Word
      <4>3. Decoded("IF_FREQ_0")' = Wrapped(Word(v))
        BY <1>3, <4>2 DEF Read
      <4> QED BY <4>1, <4>3
    <3>6. /\ Decoded("TX_OFFSET_I")' = Decoded("TX_OFFSET_I") /\ Decoded("TX_GAIN")' = Decoded("TX_GAIN")
          /\ Decoded("TX_SWAP_IQ")' = Decoded("TX_SWAP_IQ")
      BY <1>3, <3>3 DEF Read
    <3> QED BY <1>4, <2>1, <2>2, <3>5, <3>6, SavedNames DEF AllRead
  <2>3. CASE n = "TX_OFFSET_I"
    <3>1. Direct(r) /\ r.addr = 39
      BY <2>3 DEF Direct, OneByte, loregs, Reg
    <3>2. W(<<1, 39>>) = v % 256
      BY <1>1, <3>1, ByteRange
    <3>3. Low' = Low /\ High' = High /\ Shared' = Shared /\ Offset' = v % 256
      BY <1>7, <2>3, <3>2, Locs, SavedPlaces DEF Low, High, Offset, Shared
    <3>4. v \in -128..127
      BY <1>1, <2>3, FittingNumbers
    <3>5. Decoded("TX_OFFSET_I")' = v
      <4>1. (IF v % 256 >= 128 THEN (v % 256) - 256 ELSE v % 256) = v
        BY <3>4
      <4> QED BY <1>3, <3>3, <4>1 DEF Read
    <3>6. /\ Decoded("IF_FREQ_0")' = Decoded("IF_FREQ_0") /\ Decoded("TX_GAIN")' = Decoded("TX_GAIN")
          /\ Decoded("TX_SWAP_IQ")' = Decoded("TX_SWAP_IQ")
      BY <1>3, <3>3 DEF Read
    <3> QED BY <1>4, <2>1, <2>3, <3>5, <3>6, SavedNames DEF AllRead
  <2>4. CASE n = "TX_GAIN"
    <3>1. ~Direct(r) /\ ByteOf(n) = <<1, 42>>
      BY <2>4 DEF Direct, OneByte, loregs, Reg, ByteOf
    <3>2. o = Shared /\ W(<<1, 42>>) = (o \div 4) * 4 + (v % 4)
      BY <1>1, <2>4, <3>1, MixedGain DEF Shared
    <3>3. Low' = Low /\ High' = High /\ Offset' = Offset /\ Shared' = (Shared \div 4) * 4 + (v % 4)
      BY <1>7, <2>4, <3>2, Locs, SavedPlaces DEF Low, High, Offset, Shared
    <3>4. v \in 0..3 /\ Shared \in 0..255
      BY <1>1, <1>3, <2>4, FittingNumbers DEF Bytes
    <3>5. Decoded("TX_GAIN")' = v
      <4>1. ((Shared \div 4) * 4 + (v % 4)) % 4 = v
        BY <3>4
      <4> QED BY <1>3, <3>3, <4>1 DEF Read
    <3>6. Decoded("TX_SWAP_IQ")' = Decoded("TX_SWAP_IQ")
      <4>1. (((Shared \div 4) * 4 + (v % 4)) \div 128) % 2 = (Shared \div 128) % 2
        BY <3>4
      <4> QED BY <1>3, <3>3, <4>1 DEF Read
    <3>7. /\ Decoded("IF_FREQ_0")' = Decoded("IF_FREQ_0")
          /\ Decoded("TX_OFFSET_I")' = Decoded("TX_OFFSET_I")
      BY <1>3, <3>3 DEF Read
    <3> QED BY <1>4, <2>1, <2>4, <3>5, <3>6, <3>7, SavedNames DEF AllRead
  <2>5. CASE n = "TX_SWAP_IQ"
    <3>1. ~Direct(r) /\ ByteOf(n) = <<1, 42>>
      BY <2>5 DEF Direct, OneByte, loregs, Reg, ByteOf
    <3>2. o = Shared /\ W(<<1, 42>>) = (v % 2) * 128 + (o % 128)
      <4>1. o = Shared
        BY <1>1, <3>1 DEF Shared
      <4>2. W(<<1, 42>>) = Mixed(loregs.TX_SWAP_IQ, o, v)
        BY <2>5, <3>1
      <4> QED BY <1>1, <4>1, <4>2, MixedSwap
    <3>3. Low' = Low /\ High' = High /\ Offset' = Offset /\ Shared' = (v % 2) * 128 + (Shared % 128)
      BY <1>7, <2>5, <3>2, Locs, SavedPlaces DEF Low, High, Offset, Shared
    <3>4. v \in 0..1 /\ Shared \in 0..255
      BY <1>1, <1>3, <2>5, FittingNumbers DEF Bytes
    <3>5. Decoded("TX_SWAP_IQ")' = v
      <4>1. (((v % 2) * 128 + (Shared % 128)) \div 128) % 2 = v
        BY <3>4
      <4> QED BY <1>3, <3>3, <4>1 DEF Read
    <3>6. Decoded("TX_GAIN")' = Decoded("TX_GAIN")
      <4>1. ((v % 2) * 128 + (Shared % 128)) % 4 = Shared % 4
        BY <3>4
      <4> QED BY <1>3, <3>3, <4>1 DEF Read
    <3>7. /\ Decoded("IF_FREQ_0")' = Decoded("IF_FREQ_0")
          /\ Decoded("TX_OFFSET_I")' = Decoded("TX_OFFSET_I")
      BY <1>3, <3>3 DEF Read
    <3> QED BY <1>4, <2>1, <2>5, <3>5, <3>6, <3>7, SavedNames DEF AllRead
  <2> QED BY <1>1, <2>2, <2>3, <2>4, <2>5, SavedNames
<1> QED BY <1>2, <1>6, <1>7

(* Saved registers are on a page.                                          *)
LEMMA SavedOnPage == \A n \in Saved : n # PAGE_REG /\ loregs[n].page # -1
BY SavedNames DEF PAGE_REG, loregs, Reg

(* Values stay on their way as they are.                                   *)
LEMMA OnTheWayStep == ASSUME TypeOK, OnTheWay, [Next]_vars PROVE OnTheWay'
<1> USE DEF OnTheWay
<1>1. ASSUME NEW t \in Thread, LibraryCall(t) PROVE OnTheWay'
  <2>1. ASSUME NEW n \in Uses(t) \ {PAGE_REG}, NEW v \in Values(n), BeginAccess(t, n, v)
        PROVE  OnTheWay'
    <3>1. call'[t].reg = n /\ call'[t].val = v /\ \A u \in Thread \ {t} : call'[u] = call[u]
      BY <2>1 DEF BeginAccess, TypeOK
    <3>2. n \in Saved => v \in Val[n]
      BY DEF Values
    <3> QED BY <3>1, <3>2
  <2>2. CASE BeginPage(t)
    <3>1. call'[t].reg = PAGE_REG /\ \A u \in Thread \ {t} : call'[u] = call[u]
      BY <2>2 DEF BeginPage, TypeOK, NoCall
    <3> QED BY <3>1, SavedOnPage
  <2>3. CASE PageWrite(t) \/ Look(t) \/ ReadByte(t) \/ WriteBytes(t)
    <3>1. /\ call[t].at # "idle" /\ \A u \in Thread \ {t} : call'[u] = call[u]
          /\ \/ call'[t].at = "idle"
             \/ call'[t].reg = call[t].reg /\ call'[t].val = call[t].val
      <4>1. CASE PageWrite(t)
        BY <4>1 DEF PageWrite, TypeOK, NoCall, Access
      <4>2. CASE Look(t)
        BY <4>2 DEF Look, TypeOK, NoCall, Access
      <4>3. CASE ReadByte(t)
        BY <4>3 DEF ReadByte, TypeOK, NoCall, Access
      <4>4. CASE WriteBytes(t)
        BY <4>4 DEF WriteBytes, TypeOK, NoCall, Access
      <4> QED BY <2>3, <4>1, <4>2, <4>3, <4>4
    <3> QED BY <3>1
  <2> QED BY <1>1, <2>1, <2>2, <2>3 DEF LibraryCall
<1>2. CASE UNCHANGED call
  BY <1>2
<1>3. (\E t \in Thread : Quit(t)) \/ Control \/ UseAfterFree \/ Mcu \/ UNCHANGED vars
      => UNCHANGED call
  BY DEF Quit, Control, Connect, ConnectOpen, ConnectPage, StartReset, StartFails, StartSucceeds, Stop,
     StopReset, SoftReset, Close, Forget, CtlUseAfterFree, UseAfterFree, Mcu, vars
<1> QED BY <1>1, <1>2, <1>3 DEF Next

(* Every step keeps bytes and values in step.                              *)
LEMMA ValueStep ==
  ASSUME ValuesFit, PageInv, ValueInv, [Next]_vars
  PROVE  Fresh' /\ RegistersKeepValues'
<1> USE DEF chipVars, ctlVars
<1>0. /\ TypeOK /\ TypeOK' /\ Workers /\ Workers' /\ Apart /\ InUsePage
      /\ OnTheWay /\ Fresh /\ RegistersKeepValues
  BY TypeStep, WorkersStep DEF PageInv, ValueInv
<1>1. ASSUME UNCHANGED <<mem, file>>, disturbed' = FALSE => disturbed = FALSE,
             \A t \in Thread : call'[t].at = "merge" => call'[t] = call[t]
      PROVE  Fresh' /\ RegistersKeepValues'
  <2>1. \A n \in Saved : Decoded(n)' = Decoded(n)
    BY <1>0, <1>1, BytesRead, BytesReadPrimed, SavedNames DEF Read, Low, High, Offset, Shared
  <2> QED BY <1>0, <1>1, <2>1 DEF Fresh, RegistersKeepValues, TypeOK
<1>2. ASSUME NEW t \in Thread, WriteBytes(t) PROVE Fresh' /\ RegistersKeepValues'
  <2>1. /\ call[t].at \in {"data", "merge"} /\ call[t].reg \in Saved /\ call'[t].at = "idle"
        /\ \A u \in Thread \ {t} : call'[u] = call[u]
        /\ disturbed' = disturbed
    BY <1>0, <1>2 DEF WriteBytes, TypeOK, NoCall
  <2>2. ASSUME ~disturbed', NEW u \in Thread PROVE call'[u].at # "merge"
    <3>1. Paged(t)
      BY <2>1 , SavedOnPage DEF Paged
    <3>2. call'[u].at = "merge" => Paged(u) /\ u # t
      BY <1>0, <2>1, <2>2, SavedOnPage DEF Fresh, Paged
    <3> QED BY <1>0, <2>1, <2>2, <3>1, <3>2, OnePaged DEF Alone
  <2>3. ASSUME ~disturbed' PROVE AllRead'
    BY <1>0, <1>2, <2>1, <2>3, WriteReads DEF Fresh
  <2> QED BY <2>2, <2>3 DEF Fresh, RegistersKeepValues, AllRead
<1>3. ASSUME NEW t \in Thread, ReadByte(t) PROVE Fresh' /\ RegistersKeepValues'
  <2>1. /\ mem' = mem /\ file' = file /\ call[t].at = "data" /\ call[t].reg \in Saved
        /\ \A u \in Thread \ {t} : call'[u] = call[u]
    BY <1>0, <1>3 DEF ReadByte, TypeOK
  <2>2. \A n \in Saved : Decoded(n)' = Decoded(n)
    BY <1>0, <2>1, BytesRead, BytesReadPrimed, SavedNames DEF Read, Low, High, Offset, Shared
  <2>3. ASSUME ~disturbed'
        PROVE  ~disturbed /\ call'[t].reg = call[t].reg /\ call'[t].buf = mem[ByteOf(call[t].reg)]
    <3>1. PICK done \in BOOLEAN, ok \in BOOLEAN :
            /\ Disturbed(~ok)
            /\ call' = [call EXCEPT ![t].at = "merge",
                                    ![t].buf = IF ok /\ OnOwnPage(loregs[call[t].reg])
                                               THEN mem[ByteOf(call[t].reg)] ELSE 0]
      BY <1>3 DEF ReadByte, ByteOf
    <3>2. ~disturbed /\ ok
      BY <2>3, <3>1 DEF Disturbed
    <3>3. OnPage
      BY <1>0, <2>1, <3>2 DEF InUsePage, Undisturbed, Workers, Works
    <3>4. OnOwnPage(loregs[call[t].reg])
      BY <2>1, <3>3, SavedOnPage DEF OnPage, Paged, Wanted, OnOwnPage
    <3> DEFINE b == mem[ByteOf(call[t].reg)]
    <3>5. call' = [call EXCEPT ![t].at = "merge", ![t].buf = b]
      BY <3>1, <3>2, <3>4
    <3> HIDE DEF b
    <3>6. call \in [Thread -> Access]
      BY <1>0 DEF TypeOK
    <3>7. call'[t] = [call[t] EXCEPT !.at = "merge", !.buf = b]
      BY <3>5, <3>6
    <3>8. call'[t].reg = call[t].reg /\ call'[t].buf = b
      BY <3>6, <3>7 DEF Access
    <3> QED BY <3>2, <3>8 DEF b
  <2> QED BY <1>0, <2>1, <2>2, <2>3 DEF Fresh, RegistersKeepValues, TypeOK
<1>4. ASSUME NEW t \in Thread, LibraryCall(t) PROVE Fresh' /\ RegistersKeepValues'
  <2>1. CASE \/ \E n \in Uses(t) \ {PAGE_REG} : \E v \in Values(n) : BeginAccess(t, n, v)
             \/ BeginPage(t) \/ PageWrite(t) \/ Look(t)
    <3>1. \A u \in Thread : call'[u].at = "merge" => call'[u] = call[u]
      BY <1>0, <2>1 DEF BeginAccess, BeginPage, PageWrite, Look, NoCall, TypeOK, Access
    <3>2. UNCHANGED <<mem, file>>
      BY <2>1 DEF BeginAccess, BeginPage, PageWrite, Look
    <3>3. disturbed' = FALSE => disturbed = FALSE
      BY <1>0, <2>1 DEF BeginAccess, BeginPage, PageWrite, Look, Disturbed, TypeOK
    <3> QED BY <1>1, <3>1, <3>2, <3>3
  <2> QED BY <1>2, <1>3, <1>4, <2>1 DEF LibraryCall
<1>5. ASSUME NEW done \in BOOLEAN, SoftReset(done), mode \in {"reset", "stopReset"}
      PROVE  Fresh' /\ RegistersKeepValues'
  <2>1. ASSUME ~disturbed' PROVE AllRead' /\ \A t \in Thread : call'[t].at # "merge"
    <3>1. done /\ alive = {} /\ mem' = DefaultMem /\ file' = DefaultFile /\ call' = call
      BY <1>5, <2>1 DEF SoftReset
    <3>2. Defaults'
      BY <3>1 DEF Defaults
    <3>3. \A t \in Thread : call[t].at = "idle"
      BY <1>0, <1>5, <3>1 DEF Workers, Works
    <3> QED BY <1>0, <3>1, <3>2, <3>3, DefaultsReadPrimed
  <2> QED BY <2>1 DEF Fresh, RegistersKeepValues, AllRead
<1>6. CASE StartReset \/ StopReset
  BY <1>5, <1>6 DEF StartReset, StopReset
<1>7. CASE Connect \/ ConnectOpen \/ ConnectPage \/ Close \/ Forget
  BY <1>0, <1>1, <1>7 DEF Connect, ConnectOpen, ConnectPage, Close, Forget, Disturbed, TypeOK
<1>8. CASE StartFails \/ StartSucceeds \/ Stop
  BY <1>1, <1>8 DEF StartFails, StartSucceeds, Stop
<1>9. CASE CtlUseAfterFree \/ UseAfterFree \/ Mcu \/ UNCHANGED vars
  BY <1>1, <1>9 DEF CtlUseAfterFree, UseAfterFree, Mcu, vars
<1>10. ASSUME NEW t \in Thread, Quit(t) PROVE Fresh' /\ RegistersKeepValues'
  BY <1>1, <1>10 DEF Quit
<1> QED BY <1>4, <1>6, <1>7, <1>8, <1>9, <1>10 DEF Next, Control

-----------------------------------------------------------------------------
(* The invariants and what they say.                                       *)

(* Both invariants hold at the start.                                      *)
LEMMA InitInv == Init => PageInv /\ ValueInv
<1> SUFFICES ASSUME Init PROVE PageInv /\ ValueInv
  OBVIOUS
<1>1. TypeOK
  <2>1. call \in [Thread -> Access]
    BY NoCallType DEF Init
  <2>2. mem \in [Loc -> 0..255] /\ file \in [Saved -> Int]
    BY DefaultTypes DEF Init
  <2>3. fails \in 0..MaxFail
    BY FailAssumption DEF Init
  <2>4. mode \in Mode
    BY DEF Init, Mode
  <2>5. lgw_regpage \in -1..3 /\ page \in 0..3 /\ lgw_spi_target \in {"null", "open", "dangling"}
    BY DEF Init
  <2>6. /\ spawned \in BOOLEAN /\ alive \subseteq {"receive", "send"} /\ fault \in BOOLEAN
        /\ stray \in BOOLEAN /\ disturbed \in BOOLEAN
    BY DEF Init
  <2> QED BY <2>1, <2>2, <2>3, <2>4, <2>5, <2>6 DEF TypeOK
<1>2. \A t \in Thread : call[t] = NoCall /\ call[t].at = "idle"
  BY DEF Init, NoCall
<1>3. Selected /\ Workers /\ Apart /\ InUsePage /\ AccessOnItsPage
  BY <1>2 DEF Init, Selected, InUse, Workers, Apart, InUsePage, Undisturbed, AccessOnItsPage
<1>4. OnTheWay /\ Fresh
  BY <1>2 DEF OnTheWay, Fresh
<1>5. RegistersKeepValues
  BY <1>1, DefaultsRead DEF Init, Defaults, RegistersKeepValues
<1> QED BY <1>1, <1>3, <1>4, <1>5 DEF PageInv, ValueInv

(* Every step keeps the page.                                              *)
LEMMA PageInvStep == PageInv /\ [Next]_vars => PageInv'
<1> SUFFICES ASSUME PageInv, [Next]_vars PROVE PageInv'
  OBVIOUS
<1>1. TypeOK /\ Selected /\ Workers /\ Apart
  BY DEF PageInv
<1> QED BY <1>1, TypeStep, WorkersStep, ApartStep, PageStep DEF PageInv

(* The library, the page of the chip and the calls of all threads agree,   *)
(* unless a transaction was lost or the bus reset or closed under a thread.*)
THEOREM PageInvariant == Spec => []PageInv
BY InitInv, PageInvStep, PTL DEF Spec

(* The registers' state keeps its shape; bytes stay bytes.                 *)
THEOREM TypeCorrect == Spec => []TypeOK
<1>1. PageInv => TypeOK
  BY DEF PageInv
<1> QED BY <1>1, PageInvariant, PTL

(* The page the library remembers is the page of the chip, whenever no     *)
(* switch is under way.                                                    *)
THEOREM PageIsKnown == Spec => []PageInSync
<1>1. PageInv => PageInSync
  BY DEF PageInv, InUsePage, Undisturbed, InSync, PageInSync
<1> QED BY <1>1, PageInvariant, PTL

(* Each access reaches the page it means, although no mutex covers page    *)
(* switch and access.                                                      *)
THEOREM AccessesReachTheirPage == Spec => []AccessOnItsPage
<1>1. PageInv => AccessOnItsPage
  BY DEF PageInv
<1> QED BY <1>1, PageInvariant, PTL

(* As long as the values written fit, each register reads as the value     *)
(* last written to it, whatever its neighbours in the byte are given.      *)
THEOREM ValuesAreKept == ASSUME ValuesFit PROVE Spec => []RegistersKeepValues
<1>1. Init => PageInv /\ ValueInv
  BY InitInv
<1>2. PageInv /\ ValueInv /\ [Next]_vars => (PageInv /\ ValueInv)'
  <2> SUFFICES ASSUME PageInv, ValueInv, [Next]_vars PROVE PageInv' /\ ValueInv'
    OBVIOUS
  <2>1. PageInv'
    BY PageInvStep
  <2>2. OnTheWay'
    BY OnTheWayStep DEF PageInv, ValueInv
  <2>3. Fresh' /\ RegistersKeepValues'
    BY ValueStep
  <2> QED BY <2>1, <2>2, <2>3 DEF ValueInv
<1>3. ValueInv => RegistersKeepValues
  BY DEF ValueInv
<1> QED BY <1>1, <1>2, <1>3, PTL DEF Spec

=============================================================================
