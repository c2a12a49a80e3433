--------------------------- MODULE SlidingWindow ---------------------------
(***************************************************************************)
(* What the anti-replay filter of network_security.h promises: it refuses  *)
(* a sequence number it has committed since the last reset and one that is *)
(* Words words of WordBits numbers, or more, behind the highest, and takes *)
(* every other.  The promise is stated on the set of committed numbers.    *)
(***************************************************************************)
EXTENDS Integers

CONSTANTS
  WordBits,    \* bits of a bitmap word, 64 in the code
  Words,       \* BITMAP_WORDS
  MaxSeq       \* the highest sequence number a peer reaches

VARIABLES
  high,        \* the highest committed number, 0 after a reset
  seen,        \* the numbers committed since the last reset
  candidates   \* numbers that were peeked at and are being decrypted

absVars == <<high, seen, candidates>>

Seqs      == 0..MaxSeq
WordOf(n) == n \div WordBits

(* n is in one of the Words words that end with the word of m.             *)
InWindow(n, m) == WordOf(m) - WordOf(n) \in 0..(Words - 1)

Fresh(n) == n > 0 /\ n \notin seen /\ (n > high \/ InWindow(n, high))

Remember(n) ==
  /\ seen' = seen \cup {n}
  /\ high' = IF n > high THEN n ELSE high

AbsInit == high = 0 /\ seen = {} /\ candidates = {}

AbsPeek(n) ==
  /\ Fresh(n)
  /\ candidates' = candidates \cup {n}
  /\ UNCHANGED <<high, seen>>

AbsDrop(n) ==
  /\ n \in candidates
  /\ candidates' = candidates \ {n}
  /\ UNCHANGED <<high, seen>>

AbsCommit(n) ==
  /\ n \in candidates
  /\ candidates' = candidates \ {n}
  /\ Remember(n)

AbsAccept(n) ==
  /\ Fresh(n)
  /\ Remember(n)
  /\ UNCHANGED candidates

AbsReset == high' = 0 /\ seen' = {} /\ UNCHANGED candidates

AbsNext ==
  \/ \E n \in Seqs : AbsPeek(n) \/ AbsDrop(n) \/ AbsCommit(n) \/ AbsAccept(n)
  \/ AbsReset

AbsSpec == AbsInit /\ [][AbsNext]_absVars
=============================================================================
