---------------------------- MODULE DiffieHellman ----------------------------
(***************************************************************************)
(* The key exchange of a registration (DiffieHellman.cpp), on words of W   *)
(* bits instead of 32: the gateway picks a private key for each prime of   *)
(* the preshared key, sends its public half, and makes the session key of  *)
(* the half the device has sent.  One of the four words is modelled; they  *)
(* do not meet.                                                            *)
(***************************************************************************)
EXTENDS Integers

CONSTANTS W,       \* width of a word, 32 in the code
          Primes   \* primes a server may send, words but for 0 and 1
VARIABLES exchange, half, session
exchangeVars == <<exchange, half, session>>

Word == 0..(2^W - 1)
ExchangeAssumption == W \in Nat \ {0} /\ Primes \subseteq 2..(2^W - 1)

-----------------------------------------------------------------------------
(* Mutant: the double is cut to the word before it is reduced.             *)
doubleModCut(a, prime) == ((2 * a) % 2^W) % prime

(* m + a and a + a modulo the prime, without leaving the word.             *)
addMod(m, a, prime) == IF m >= prime - a THEN m - (prime - a) ELSE (m + a) % 2^W
doubleMod(a, prime) == IF a >= prime - a THEN (2 * a - prime) % 2^W ELSE (2 * a) % 2^W

(* Bit by bit of b: m takes a where the bit is set, a doubles.             *)
multiplyMod(a, b, prime) ==
  LET doubled[i \in 0..W] == IF i = 0 THEN a ELSE doubleMod(doubled[i - 1], prime)
      sum[i \in 0..W] ==
        IF i = 0 THEN 0
        ELSE IF (b \div 2^(i - 1)) % 2 = 1
             THEN addMod(sum[i - 1], doubled[i - 1], prime) ELSE sum[i - 1]
  IN  sum[W]

(* Square and multiply.  An exponent of 0 is halved for ever; the prime    *)
(* itself is not reduced.                                                  *)
powerMod(a, b, prime) ==
  LET base == IF a > prime THEN a % prime ELSE a
      power[e \in 1..b] ==
        IF e = 1 THEN base
        ELSE LET t == multiplyMod(power[e \div 2], power[e \div 2], prime)
             IN  IF e % 2 = 1 THEN multiplyMod(t, base, prime) ELSE t
  IN  power[b]

-----------------------------------------------------------------------------
None == -1   \* not made yet

ExchangeInit ==
  /\ exchange \in [prime : Primes, generator : Word, device : Word, gateway : Word]
  /\ exchange.device # 0
  /\ half = None /\ session = None

(* The device's half came with its registration.                           *)
dha == powerMod(exchange.generator, exchange.device, exchange.prime)

(* The private key is any word; of 0 the recursion does not come back.     *)
getDHB ==
  /\ half = None /\ exchange.gateway # 0
  /\ half' = powerMod(exchange.generator, exchange.gateway, exchange.prime)
  /\ UNCHANGED <<exchange, session>>

getSessionKey ==
  /\ half # None /\ session = None
  /\ session' = powerMod(dha, exchange.gateway, exchange.prime)
  /\ UNCHANGED <<exchange, half>>

ExchangeNext == getDHB \/ getSessionKey
ExchangeSpec == ExchangeInit /\ [][ExchangeNext]_exchangeVars

-----------------------------------------------------------------------------
(* What powers are, without words or bits.                                 *)
PowerOf(a, b, prime) ==
  LET power[e \in 0..b] == IF e = 0 THEN 1 % prime ELSE (power[e - 1] * a) % prime
  IN  power[b]

(* The device finds the session key the gateway made, from the half the    *)
(* gateway sent: whatever the generator, the private keys and the widths   *)
(* of the products on the way.                                             *)
SameKey ==
  session # None =>
    powerMod(half, exchange.device, exchange.prime) = session

(* And it is the power it should be; of a generator that is the prime      *)
(* itself it is 0 in either form.                                          *)
KeyIsPower ==
  session # None =>
    session % exchange.prime
      = PowerOf(exchange.generator, exchange.device * exchange.gateway, exchange.prime)

(* Gateway and device have one key, and it is the one they should have.    *)
BothSidesAgree == SameKey /\ KeyIsPower
=============================================================================
