----------------------------- MODULE Encryption -----------------------------
(***************************************************************************)
(* The cipher of the frames (Encryption.cpp), on words of W bits instead   *)
(* of 32, and the check a frame carries (createCheck of Message.cpp) on    *)
(* words of H bits.  A message of n words is enciphered and deciphered in  *)
(* place; a changed one is checked.                                        *)
(***************************************************************************)
EXTENDS Integers, Sequences, SequencesExt, Bitwise

CONSTANTS W,         \* width of a word of the cipher, at least 6
          H,         \* width of the check, at least 16
          DELTA,     \* what each round adds to sum
          Messages,  \* sequences of words, not empty
          Keys,      \* sequences of four words
          Lengths,   \* lengths of the checked data
          Bytes      \* bytes of the checked data
VARIABLES job, result
vars == <<job, result>>

Cut(x, w)      == x % 2^w
Up(x, k, w)    == (x % 2^(w - k)) * 2^k     \* x << k
Down(x, k)     == x \div 2^k                \* x >> k

-----------------------------------------------------------------------------
rounds(n) == 6 + 52 \div n

MX(y, z, p, sum, key) ==
  LET e == Down(sum, 2) % 4
  IN  Cut((Down(z, 5) ^^ Up(y, 2, W)) + (Down(y, 3) ^^ Up(z, 4, W)), W)
        ^^ Cut((sum ^^ y) + (key[((p % 4) ^^ e) + 1] ^^ z), W)

(* One word p of one round r, with its neighbours in the ring; decrypt     *)
(* goes through the same words in the opposite order.                      *)
Following(n, p) == ((p + 1) % n) + 1
Preceding(n, p) == ((p + n - 1) % n) + 1
Mix(v, r, p, key) ==
  MX(v[Following(Len(v), p)], v[Preceding(Len(v), p)], p, Cut(r * DELTA, W), key)
Steps(n) == [i \in 1..(rounds(n) * n) |-> <<(i - 1) \div n + 1, (i - 1) % n>>]

encrypt(v, key) ==
  FoldLeft(LAMBDA u, s : [u EXCEPT ![s[2] + 1] = Cut(@ + Mix(u, s[1], s[2], key), W)],
           v, Steps(Len(v)))
decrypt(v, key) ==
  FoldLeft(LAMBDA u, s : [u EXCEPT ![s[2] + 1] = Cut(@ - Mix(u, s[1], s[2], key), W)],
           v, Reverse(Steps(Len(v))))

-----------------------------------------------------------------------------

Absorb(hash, b) ==
  LET h == Cut(hash + b, H)
      g == Cut(h + Up(h, 10, H), H)
  IN  g ^^ Down(g, 6)

createCheck(data) ==
  LET h == FoldLeft(Absorb, 0, data)
      g == Cut(h + Up(h, 3, H), H)
      f == g ^^ Down(g, 11)
  IN  Cut(f + Up(f, 15, H), H)

-----------------------------------------------------------------------------
Data == UNION {[1..n -> Bytes] : n \in Lengths}

Init == /\ job \in [of : {"message"}, v : Messages, key : Keys]
                   \cup [of : {"data"}, v : Data]
        /\ result = <<>>

Encrypt == /\ job.of = "message" /\ Len(result) = 0
           /\ result' = <<encrypt(job.v, job.key)>> /\ UNCHANGED job
Decrypt == /\ job.of = "message" /\ Len(result) = 1
           /\ result' = Append(result, decrypt(result[1], job.key)) /\ UNCHANGED job
Check   == /\ job.of = "data" /\ Len(result) = 0
           /\ result' = <<createCheck(job.v)>> /\ UNCHANGED job
Next == Encrypt \/ Decrypt \/ Check

-----------------------------------------------------------------------------
(* What one side has closed the other side opens, for every length of two  *)
(* words and more.  (A single word does not come back, which is why a      *)
(* frame is filled up to MIN_BLOCK_SIZE.)                                  *)
Opened ==
  job.of = "message" /\ Len(result) = 2 /\ Len(job.v) >= 2 => result[2] = job.v

(* A frame one of whose bytes was changed under way fails its check.       *)
OneByteNoticed ==
  job.of = "data" /\ result # <<>> =>
    \A i \in DOMAIN job.v, b \in Bytes :
      b # job.v[i] => createCheck([job.v EXCEPT ![i] = b]) # result[1]
=============================================================================
