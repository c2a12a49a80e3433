---------------------------- MODULE ReplayWindow ----------------------------
(***************************************************************************)
(* AntiReplayFilterT of network_security.h with more than one bitmap word: *)
(* a ring of words, each the set of its bits that are set.  The word of a  *)
(* number that leaves the window is reused for the number that enters it.  *)
(* check_peek and update_commit are separate calls, so that any number of  *)
(* other commits, and a reset, come between those of one packet.           *)
(***************************************************************************)
EXTENDS Integers

CONSTANTS WordBits, Words, MaxSeq

VARIABLES
  lastSeq,     \* last_seq_
  bitmap,      \* bitmap_
  seen,        \* history: the numbers committed since the last reset
  candidates   \* numbers that were peeked at and are being decrypted

vars == <<lastSeq, bitmap, seen, candidates>>

SW == INSTANCE SlidingWindow WITH high <- lastSeq

ASSUME WordBitsPos == WordBits \in Nat \ {0}
ASSUME WordsMany   == Words \in Nat \ {0, 1}
ASSUME MaxSeqNat   == MaxSeq \in Nat

Seqs      == 0..MaxSeq
Slots     == 0..(Words - 1)
Window    == Words * WordBits
WordOf(n) == n \div WordBits          \* seq >> 6
BitOf(n)  == n % WordBits             \* seq & 63
SlotOf(w) == w % Words                \* w & (BITMAP_WORDS - 1)

IsSet(n) == BitOf(n) \in bitmap[SlotOf(WordOf(n))]

(* Mutated form: the range test alone, which the slot of a number up to a  *)
(* word beyond the ring passes.                                            *)
TooOldByRange(n) == lastSeq - n >= Window

TooOld(n) ==
  \/ lastSeq - n >= Window
  \/ WordOf(lastSeq) - WordOf(n) >= Words

(* Mutated form: number 0, which no sender uses, is let through.           *)
CheckPeekZero(n) == n <= lastSeq /\ (TooOld(n) \/ IsSet(n))

(* TRUE when the packet is refused.                                        *)
CheckPeek(n) ==
  \/ n = 0
  \/ n <= lastSeq /\ (TooOld(n) \/ IsSet(n))

(* Mutated form: the word of the new number itself is not cleared.         *)
StaleButLast(n) ==
  IF n - lastSeq >= Window
    THEN Slots
    ELSE {SlotOf(w) : w \in (WordOf(lastSeq) + 1)..(WordOf(n) - 1)}

(* The words that a step forward to n clears.                              *)
Stale(n) ==
  IF n - lastSeq >= Window
    THEN Slots
    ELSE {SlotOf(w) : w \in (WordOf(lastSeq) + 1)..WordOf(n)}

SetBit(n, kept) ==
  bitmap' = [i \in Slots |->
               (IF i \in kept THEN bitmap[i] ELSE {})
                 \cup (IF i = SlotOf(WordOf(n)) THEN {BitOf(n)} ELSE {})]

UpdateCommit(n) ==
  /\ seen' = seen \cup {n}
  /\ \/ /\ n > lastSeq
        /\ SetBit(n, Slots \ Stale(n))
        /\ lastSeq' = n
     \/ /\ n <= lastSeq
        /\ ~TooOld(n)
        /\ SetBit(n, Slots)
        /\ UNCHANGED lastSeq
     \/ /\ n <= lastSeq
        /\ TooOld(n)
        /\ UNCHANGED <<bitmap, lastSeq>>

Empty == [i \in Slots |-> {}]

Init ==
  /\ lastSeq = 0
  /\ bitmap = Empty
  /\ seen = {}
  /\ candidates = {}

Peek(n) ==
  /\ ~CheckPeek(n)
  /\ candidates' = candidates \cup {n}
  /\ UNCHANGED <<lastSeq, bitmap, seen>>

(* The packet fails authentication: its number is not committed.           *)
Drop(n) ==
  /\ n \in candidates
  /\ candidates' = candidates \ {n}
  /\ UNCHANGED <<lastSeq, bitmap, seen>>

Commit(n) ==
  /\ n \in candidates
  /\ candidates' = candidates \ {n}
  /\ UpdateCommit(n)

CheckAndUpdate(n) ==
  /\ ~CheckPeek(n)
  /\ UpdateCommit(n)
  /\ UNCHANGED candidates

(* A rekey replaces the filter while packets of the old key are in flight. *)
Reset ==
  /\ lastSeq' = 0
  /\ bitmap' = Empty
  /\ seen' = {}
  /\ UNCHANGED candidates

Next ==
  \/ \E n \in Seqs : Peek(n) \/ Drop(n) \/ Commit(n) \/ CheckAndUpdate(n)
  \/ Reset

Spec == Init /\ [][Next]_vars

-----------------------------------------------------------------------------
(* Properties.                                                             *)

TypeOK ==
  /\ lastSeq \in Seqs
  /\ bitmap \in [Slots -> SUBSET (0..(WordBits - 1))]
  /\ seen \in SUBSET (Seqs \ {0})
  /\ candidates \in SUBSET (Seqs \ {0})

(* The ring of words holds exactly the committed numbers of the window: no *)
(* bit of a word that was reused survives, none is lost, and no number     *)
(* above last_seq_ has its bit set.                                        *)
BitmapExact ==
  /\ \A n \in seen : n <= lastSeq
  /\ \A n \in Seqs : SW!InWindow(n, lastSeq) => (IsSet(n) <=> n \in seen)

(* The filter implements the sliding window of SlidingWindow: check_peek   *)
(* refuses what the promise refuses and nothing else.                      *)
Implements == SW!AbsSpec

IInv == TypeOK /\ BitmapExact
=============================================================================
