------------------------- MODULE ReplayWindowProofs -------------------------
(***************************************************************************)
(* Proofs about the anti-replay filter for every word size, ring size and  *)
(* range of sequence numbers: the bitmap is exact, and the filter          *)
(* implements the sliding window stated on the set of committed numbers.   *)
(***************************************************************************)
EXTENDS ReplayWindow, TLAPS

-----------------------------------------------------------------------------
(* Arithmetic of words, bits and slots.                                    *)

(* Multiplication distributes, and is monotone: products of two variables  *)
(* are beyond the arithmetic of the provers in a larger context.           *)
LEMMA TimesDifference ==
  ASSUME NEW c \in Int, NEW x \in Int, NEW y \in Int
  PROVE  /\ c * x \in Int
         /\ c * (x - y) = c * x - c * y
OBVIOUS

LEMMA TimesNat ==
  ASSUME NEW x \in Nat, NEW y \in Nat
  PROVE  x * y \in Nat
OBVIOUS

LEMMA TimesCommute ==
  ASSUME NEW x \in Int, NEW y \in Int
  PROVE  x * y = y * x
OBVIOUS

LEMMA TimesSuccessor ==
  ASSUME NEW c \in Int, NEW x \in Int
  PROVE  c * (x + 1) = c * x + c
OBVIOUS

LEMMA TimesMonotone ==
  ASSUME NEW c \in Nat, NEW x \in Int, NEW y \in Int, x <= y
  PROVE  c * x <= c * y
<1>1. c * (y - x) \in Nat
  BY TimesNat
<1>2. QED
  BY <1>1, TimesDifference

(* A number is its word and its bit in the word.                           *)
LEMMA WordAndBit ==
  ASSUME NEW n \in Nat
  PROVE  /\ WordOf(n) \in Nat
         /\ BitOf(n) \in 0..(WordBits - 1)
         /\ n = WordBits * WordOf(n) + BitOf(n)
BY WordBitsPos DEF WordOf, BitOf

LEMMA WordBounds ==
  ASSUME NEW n \in Nat
  PROVE  /\ WordOf(n) \in Nat
         /\ WordBits * WordOf(n) \in Nat
         /\ WordBits * WordOf(n) <= n
         /\ n < WordBits * WordOf(n) + WordBits
<1>1. WordBits \in Nat /\ WordOf(n) \in Nat
  BY WordBitsPos, WordAndBit
<1> DEFINE start == WordBits * WordOf(n)
<1>2. start \in Nat
  BY <1>1, TimesNat
<1>3. n = start + BitOf(n) /\ BitOf(n) \in 0..(WordBits - 1)
  BY WordAndBit
<1> HIDE DEF start
<1>4. start <= n /\ n < start + WordBits
  BY <1>1, <1>2, <1>3
<1>5. QED
  BY <1>1, <1>2, <1>4 DEF start

(* Later numbers are in later words, or in the same.                       *)
LEMMA WordMonotone ==
  ASSUME NEW m \in Nat, NEW n \in Nat, m <= n
  PROVE  WordOf(m) <= WordOf(n)
<1>1. /\ WordOf(m) \in Nat /\ WordOf(n) \in Nat
      /\ m >= WordBits * WordOf(m)
      /\ n < WordBits * WordOf(n) + WordBits
      /\ WordBits \in Nat
      /\ WordBits * WordOf(m) \in Nat /\ WordBits * WordOf(n) \in Nat
  BY WordBitsPos, WordBounds
<1>2. ASSUME WordOf(n) + 1 <= WordOf(m)
      PROVE  FALSE
  <2>1. WordBits * (WordOf(n) + 1) <= WordBits * WordOf(m)
    BY <1>1, <1>2, TimesMonotone
  <2>2. WordBits * (WordOf(n) + 1) = WordBits * WordOf(n) + WordBits
    BY <1>1, TimesSuccessor
  <2>3. QED
    BY <1>1, <2>1, <2>2
<1>3. QED
  BY <1>1, <1>2

(* Numbers of one word differ in their bit.                                *)
LEMMA BitsDiffer ==
  ASSUME NEW m \in Nat, NEW n \in Nat,
         WordOf(m) = WordOf(n), BitOf(m) = BitOf(n)
  PROVE  m = n
BY WordAndBit, WordBitsPos

(* A number a window behind another is Words words behind it.              *)
LEMMA WindowIsWords ==
  ASSUME NEW m \in Nat, NEW n \in Nat, n - m >= Window
  PROVE  WordOf(n) - WordOf(m) >= Words
<1> DEFINE d == WordOf(n) - WordOf(m)
<1>1. /\ d \in Int /\ WordBits \in Nat /\ Words \in Nat
      /\ WordOf(m) \in Nat /\ WordOf(n) \in Nat
  BY WordBitsPos, WordsMany, WordAndBit
<1>2. /\ m >= WordBits * WordOf(m)
      /\ n < WordBits * WordOf(n) + WordBits
  BY WordBounds
<1>3. n - m < WordBits * d + WordBits
  <2>1. WordBits * d = WordBits * WordOf(n) - WordBits * WordOf(m)
    BY <1>1, TimesDifference
  <2>2. /\ WordBits * WordOf(n) \in Nat
        /\ WordBits * WordOf(m) \in Nat
    BY <1>1, TimesNat
  <2>3. QED
    BY <1>1, <1>2, <2>1, <2>2
<1>4. WordBits * (d + 1) = WordBits * d + WordBits
  BY <1>1, TimesSuccessor
<1>5. Window = WordBits * Words
  BY <1>1, TimesCommute DEF Window
<1>6. ASSUME d + 1 <= Words
      PROVE  FALSE
  <2>1. WordBits * (d + 1) <= WordBits * Words
    BY <1>1, <1>6, TimesMonotone
  <2>2. WordBits * Words \in Nat /\ WordBits * d \in Int
    BY <1>1, TimesNat, TimesDifference
  <2>3. QED
    BY <1>1, <1>3, <1>4, <1>5, <2>1, <2>2
<1>7. QED
  BY <1>1, <1>6

(* Words less than a ring apart have slots of their own.                   *)
LEMMA SlotsDiffer ==
  ASSUME NEW v \in Nat, NEW w \in Nat, v <= w, w - v < Words,
         SlotOf(v) = SlotOf(w)
  PROVE  v = w
<1> DEFINE a == v \div Words
           b == w \div Words
<1>1. /\ a \in Int /\ b \in Int /\ SlotOf(w) \in Int /\ Words \in Nat
      /\ v = Words * a + SlotOf(v)
      /\ w = Words * b + SlotOf(w)
  BY WordsMany DEF SlotOf
<1> HIDE DEF a, b
<1>2. w - v = Words * (b - a)
  <2>1. Words * (b - a) = Words * b - Words * a
    BY <1>1, TimesDifference
  <2>2. Words * a \in Int /\ Words * b \in Int
    BY <1>1, TimesDifference
  <2>3. QED
    BY <1>1, <2>1, <2>2
<1>3. CASE b - a >= 1
  <2>1. Words * 1 <= Words * (b - a)
    BY <1>1, <1>3, TimesMonotone
  <2>2. QED
    BY <1>1, <1>2, <2>1
<1>4. CASE b - a <= 0
  <2>1. Words * (b - a) <= Words * 0
    BY <1>1, <1>4, TimesMonotone
  <2>2. QED
    BY <1>1, <1>2, <2>1
<1>5. QED
  BY <1>1, <1>3, <1>4

LEMMA SlotInRing ==
  ASSUME NEW w \in Nat
  PROVE  SlotOf(w) \in Slots
BY WordsMany DEF SlotOf, Slots

(* Within a ring, a slot and a bit name one number.                        *)
LEMMA OneNumberPerBit ==
  ASSUME NEW m \in Nat, NEW n \in Nat,
         WordOf(m) - WordOf(n) < Words, WordOf(n) - WordOf(m) < Words,
         SlotOf(WordOf(m)) = SlotOf(WordOf(n)), BitOf(m) = BitOf(n)
  PROVE  m = n
<1>1. WordOf(m) \in Nat /\ WordOf(n) \in Nat
  BY WordBounds
<1>2. WordOf(m) = WordOf(n)
  <2>1. CASE WordOf(m) <= WordOf(n)
    BY <1>1, <2>1, SlotsDiffer
  <2>2. CASE WordOf(n) <= WordOf(m)
    BY <1>1, <2>2, SlotsDiffer
  <2>3. QED
    BY <1>1, <2>1, <2>2
<1>3. QED
  BY <1>2, BitsDiffer

LEMMA InWindowWords ==
  ASSUME NEW m, NEW n
  PROVE  SW!InWindow(n, m) <=> WordOf(m) - WordOf(n) \in 0..(Words - 1)
BY DEF SW!InWindow, SW!WordOf, WordOf

(* The two tests of check_peek for a number that is too old come to one.   *)
LEMMA TooOldIsOutside ==
  ASSUME TypeOK, NEW n \in Seqs, n <= lastSeq
  PROVE  TooOld(n) <=> ~SW!InWindow(n, lastSeq)
<1>1. n \in Nat /\ lastSeq \in Nat
  BY MaxSeqNat DEF TypeOK, Seqs
<1>2. /\ WordOf(n) \in Nat /\ WordOf(lastSeq) \in Nat
      /\ WordOf(n) <= WordOf(lastSeq)
  BY <1>1, WordBounds, WordMonotone
<1>3. lastSeq - n >= Window => WordOf(lastSeq) - WordOf(n) >= Words
  BY <1>1, WindowIsWords
<1>4. QED
  BY <1>2, <1>3, InWindowWords, WordsMany DEF TooOld

-----------------------------------------------------------------------------
(* The effect of update_commit on the bitmap.                              *)

(* A step forward keeps what the new window shares with the old one, and   *)
(* shows nothing else but the new number.                                  *)
LEMMA AdvanceExact ==
  ASSUME IInv, NEW n \in Seqs, n > lastSeq,
         SetBit(n, Slots \ Stale(n)),
         NEW k \in Seqs, SW!InWindow(k, n)
  PROVE  IsSet(k)' <=> k \in seen \cup {n}
<1>1. n \in Nat /\ k \in Nat /\ lastSeq \in Nat
  BY MaxSeqNat DEF IInv, TypeOK, Seqs
<1>2. /\ WordOf(n) \in Nat /\ WordOf(k) \in Nat /\ WordOf(lastSeq) \in Nat
      /\ WordOf(k) <= WordOf(n)
      /\ WordOf(n) - WordOf(k) < Words
      /\ Words \in Nat \ {0, 1}
  BY <1>1, WordBounds, InWindowWords, WordsMany
<1>3. SlotOf(WordOf(k)) \in Slots
  BY <1>2, SlotInRing
<1> DEFINE i == SlotOf(WordOf(k))
           same == i = SlotOf(WordOf(n)) /\ BitOf(k) = BitOf(n)
<1>4. IsSet(k)' <=> \/ i \notin Stale(n) /\ IsSet(k)
                    \/ same
  BY <1>3 DEF SetBit, IsSet
<1>5. same <=> k = n
  BY <1>1, <1>2, OneNumberPerBit
<1> HIDE DEF same
<1>6. k \in seen => k <= lastSeq /\ WordOf(k) <= WordOf(lastSeq)
  BY <1>1, WordMonotone DEF IInv, BitmapExact
<1>7. CASE WordOf(k) > WordOf(lastSeq)
  <2>1. k \notin seen
    BY <1>2, <1>6, <1>7
  <2>2. i \in Stale(n)
    BY <1>2, <1>3, <1>7 DEF Stale
  <2>3. QED
    BY <1>4, <1>5, <2>1, <2>2
<1>8. CASE WordOf(k) <= WordOf(lastSeq) /\ n - lastSeq >= Window
  <2>1. WordOf(n) - WordOf(lastSeq) >= Words
    BY <1>1, <1>8, WindowIsWords
  <2>2. FALSE
    BY <1>2, <1>8, <2>1
  <2>3. QED
    BY <2>2
<1>9. CASE WordOf(k) <= WordOf(lastSeq) /\ ~(n - lastSeq >= Window)
  <2>1. WordOf(lastSeq) <= WordOf(n)
    BY <1>1, WordMonotone
  <2>2. SW!InWindow(k, lastSeq)
    BY <1>2, <1>9, <2>1, InWindowWords
  <2>3. IsSet(k) <=> k \in seen
    BY <2>2 DEF IInv, BitmapExact
  <2>4. ASSUME i \in Stale(n)
        PROVE  FALSE
    <3>1. PICK w \in (WordOf(lastSeq) + 1)..WordOf(n) : i = SlotOf(w)
      BY <1>9, <2>4 DEF Stale
    <3>2. /\ w \in Nat /\ WordOf(k) <= w /\ w - WordOf(k) < Words
          /\ w # WordOf(k)
      BY <1>2, <1>9, <3>1
    <3>3. QED
      BY <1>2, <3>1, <3>2, SlotsDiffer
  <2>5. QED
    BY <1>4, <1>5, <2>3, <2>4
<1>10. QED
  BY <1>2, <1>7, <1>8, <1>9

(* Whatever the case, update_commit keeps the bitmap exact.                *)
LEMMA CommitExact ==
  ASSUME IInv, NEW n \in Seqs \ {0}, UpdateCommit(n)
  PROVE  BitmapExact'
<1>1. n \in Nat /\ lastSeq \in Nat /\ seen \subseteq Nat
  BY MaxSeqNat DEF IInv, TypeOK, Seqs
<1>2. seen' = seen \cup {n}
  BY DEF UpdateCommit
<1>3. \A s \in seen' : s <= lastSeq'
  BY <1>1, <1>2 DEF UpdateCommit, IInv, BitmapExact
<1>4. SUFFICES ASSUME NEW k \in Seqs, SW!InWindow(k, lastSeq')
               PROVE  IsSet(k)' <=> k \in seen'
  BY <1>3 DEF BitmapExact, SW!InWindow, SW!WordOf
<1>5. CASE n > lastSeq /\ SetBit(n, Slots \ Stale(n)) /\ lastSeq' = n
  BY <1>2, <1>4, <1>5, AdvanceExact
<1>6. CASE n <= lastSeq /\ ~TooOld(n) /\ SetBit(n, Slots)
           /\ lastSeq' = lastSeq
  <2>1. SW!InWindow(n, lastSeq)
    BY <1>6, TooOldIsOutside DEF IInv
  <2>2. SW!InWindow(k, lastSeq)
    BY <1>4, <1>6
  <2>3. k \in Nat
    BY MaxSeqNat DEF Seqs
  <2>4. /\ WordOf(n) \in Nat /\ WordOf(k) \in Nat /\ WordOf(lastSeq) \in Nat
        /\ Words \in Nat
        /\ WordOf(n) - WordOf(k) < Words
        /\ WordOf(k) - WordOf(n) < Words
    BY <1>1, <2>1, <2>2, <2>3, WordBounds, InWindowWords, WordsMany
  <2>5. IsSet(k)' <=> \/ IsSet(k)
                      \/ /\ SlotOf(WordOf(k)) = SlotOf(WordOf(n))
                         /\ BitOf(k) = BitOf(n)
    BY <1>6, <2>4, SlotInRing DEF SetBit, IsSet
  <2>6. IsSet(k)' <=> IsSet(k) \/ k = n
    BY <1>1, <2>3, <2>4, <2>5, OneNumberPerBit
  <2>7. IsSet(k) <=> k \in seen
    BY <2>2 DEF IInv, BitmapExact
  <2>8. QED
    BY <1>2, <2>6, <2>7
<1>7. CASE n <= lastSeq /\ TooOld(n) /\ bitmap' = bitmap /\ lastSeq' = lastSeq
  <2>1. ~SW!InWindow(n, lastSeq)
    BY <1>7, TooOldIsOutside DEF IInv
  <2>2. SW!InWindow(k, lastSeq)
    BY <1>4, <1>7
  <2>3. IsSet(k)' <=> IsSet(k)
    BY <1>7 DEF IsSet
  <2>4. QED
    BY <1>2, <2>1, <2>2, <2>3 DEF IInv, BitmapExact
<1>8. QED
  BY <1>5, <1>6, <1>7 DEF UpdateCommit

(* update_commit keeps the types.                                          *)
LEMMA CommitType ==
  ASSUME TypeOK, NEW n \in Seqs \ {0}, UpdateCommit(n)
  PROVE  /\ lastSeq' \in Seqs
         /\ bitmap' \in [Slots -> SUBSET (0..(WordBits - 1))]
         /\ seen' \in SUBSET (Seqs \ {0})
<1>1. BitOf(n) \in 0..(WordBits - 1)
  BY MaxSeqNat, WordAndBit DEF Seqs
<1>2. ASSUME NEW kept, SetBit(n, kept)
      PROVE  bitmap' \in [Slots -> SUBSET (0..(WordBits - 1))]
  BY <1>1, <1>2 DEF SetBit, TypeOK
<1>3. QED
  BY <1>2 DEF UpdateCommit, TypeOK

-----------------------------------------------------------------------------
(* check_peek lets through exactly what the promise calls fresh.           *)
LEMMA PeekExact ==
  ASSUME IInv, NEW n \in Seqs
  PROVE  ~CheckPeek(n) <=> SW!Fresh(n)
<1>1. n \in Nat /\ lastSeq \in Nat
  BY MaxSeqNat DEF IInv, TypeOK, Seqs
<1>2. CASE n > lastSeq
  BY <1>1, <1>2 DEF CheckPeek, SW!Fresh, IInv, BitmapExact
<1>3. CASE n <= lastSeq
  <2>1. TooOld(n) <=> ~SW!InWindow(n, lastSeq)
    BY <1>3, TooOldIsOutside DEF IInv
  <2>2. SW!InWindow(n, lastSeq) => (IsSet(n) <=> n \in seen)
    BY DEF IInv, BitmapExact
  <2>3. QED
    BY <1>1, <1>3, <2>1, <2>2 DEF CheckPeek, SW!Fresh
<1>4. QED
  BY <1>1, <1>2, <1>3

LEMMA InitExact == Init => IInv
<1>1. ASSUME Init
      PROVE  TypeOK
  BY <1>1, MaxSeqNat, WordsMany, WordBitsPos
     DEF Init, Empty, TypeOK, Seqs, Slots
<1>2. ASSUME Init, NEW n \in Seqs
      PROVE  ~IsSet(n)
  <2>1. SlotOf(WordOf(n)) \in Slots
    BY MaxSeqNat, WordBounds, SlotInRing DEF Seqs
  <2>2. QED
    BY <1>2, <2>1 DEF Init, Empty, IsSet
<1>3. QED
  BY <1>1, <1>2 DEF Init, IInv, BitmapExact

LEMMA StepExact == IInv /\ [Next]_vars => IInv'
<1> SUFFICES ASSUME IInv, [Next]_vars
             PROVE  IInv'
  OBVIOUS
<1>1. ASSUME NEW n \in Seqs, Peek(n)
      PROVE  IInv'
  <2>1. n # 0
    BY <1>1 DEF Peek, CheckPeek
  <2>2. QED
    BY <1>1, <2>1 DEF Peek, IInv, TypeOK, BitmapExact, IsSet,
                      SW!InWindow, SW!WordOf
<1>2. ASSUME NEW n \in Seqs, Drop(n)
      PROVE  IInv'
  BY <1>2 DEF Drop, IInv, TypeOK, BitmapExact, IsSet, SW!InWindow, SW!WordOf
<1>3. ASSUME NEW n \in Seqs, Commit(n)
      PROVE  IInv'
  <2>1. n \in Seqs \ {0} /\ UpdateCommit(n) /\ candidates' = candidates \ {n}
    BY <1>3 DEF Commit, IInv, TypeOK
  <2>2. BitmapExact'
    BY <2>1, CommitExact
  <2>3. TypeOK'
    BY <2>1, CommitType DEF IInv, TypeOK
  <2>4. QED
    BY <2>2, <2>3 DEF IInv
<1>4. ASSUME NEW n \in Seqs, CheckAndUpdate(n)
      PROVE  IInv'
  <2>1. n \in Seqs \ {0} /\ UpdateCommit(n) /\ candidates' = candidates
    BY <1>4 DEF CheckAndUpdate, CheckPeek
  <2>2. BitmapExact'
    BY <2>1, CommitExact
  <2>3. TypeOK'
    BY <2>1, CommitType DEF IInv, TypeOK
  <2>4. QED
    BY <2>2, <2>3 DEF IInv
<1>5. CASE Reset
  <2>1. TypeOK'
    BY <1>5, MaxSeqNat, WordsMany, WordBitsPos
       DEF Reset, Empty, IInv, TypeOK, Seqs, Slots
  <2>2. ASSUME NEW n \in Seqs
        PROVE  ~IsSet(n)'
    <3>1. SlotOf(WordOf(n)) \in Slots
      BY MaxSeqNat, WordBounds, SlotInRing DEF Seqs
    <3>2. QED
      BY <1>5, <3>1 DEF Reset, Empty, IsSet
  <2>3. BitmapExact'
    BY <1>5, <2>2 DEF Reset, BitmapExact
  <2>4. QED
    BY <2>1, <2>3 DEF IInv
<1>6. CASE UNCHANGED vars
  BY <1>6 DEF vars, IInv, TypeOK, BitmapExact, IsSet, SW!InWindow, SW!WordOf
<1>7. QED
  BY <1>1, <1>2, <1>3, <1>4, <1>5, <1>6 DEF Next

-----------------------------------------------------------------------------
(* The types of the filter's state hold: only numbers other than 0 become  *)
(* candidates, and only bits of a word are set.                            *)
THEOREM TypeCorrect == Spec => []TypeOK
<1>1. IInv => TypeOK
  BY DEF IInv
<1>2. QED
  BY <1>1, InitExact, StepExact, PTL DEF Spec

(* AntiReplayFilterT: the ring of words shows the committed numbers of the *)
(* window, for every word size and number of words.                        *)
THEOREM BitmapIsExact == Spec => []BitmapExact
<1>1. IInv => BitmapExact
  BY DEF IInv
<1>2. QED
  BY <1>1, InitExact, StepExact, PTL DEF Spec

(* Every step of the filter is one of the sliding window, or none.         *)
LEMMA StepImplements == IInv /\ [Next]_vars => [SW!AbsNext]_(SW!absVars)
<1> SUFFICES ASSUME IInv, [Next]_vars
             PROVE  [SW!AbsNext]_(SW!absVars)
  OBVIOUS
<1> USE DEF SW!AbsNext, SW!absVars
<1>1. SW!Seqs = Seqs
  BY DEF SW!Seqs, Seqs
<1>2. ASSUME NEW n \in Seqs, UpdateCommit(n)
      PROVE  SW!Remember(n)
  BY <1>2, MaxSeqNat DEF UpdateCommit, SW!Remember, IInv, TypeOK, Seqs
<1>3. ASSUME NEW n \in Seqs, Peek(n)
      PROVE  SW!AbsPeek(n)
  BY <1>3, PeekExact DEF Peek, SW!AbsPeek
<1>4. ASSUME NEW n \in Seqs, Drop(n)
      PROVE  SW!AbsDrop(n)
  BY <1>4 DEF Drop, SW!AbsDrop
<1>5. ASSUME NEW n \in Seqs, Commit(n)
      PROVE  SW!AbsCommit(n)
  BY <1>2, <1>5 DEF Commit, SW!AbsCommit
<1>6. ASSUME NEW n \in Seqs, CheckAndUpdate(n)
      PROVE  SW!AbsAccept(n)
  BY <1>2, <1>6, PeekExact DEF CheckAndUpdate, SW!AbsAccept
<1>7. CASE Reset
  BY <1>7 DEF Reset, SW!AbsReset
<1>8. CASE UNCHANGED vars
  BY <1>8 DEF vars
<1>9. QED
  BY <1>1, <1>3, <1>4, <1>5, <1>6, <1>7, <1>8 DEF Next

(* The ring of bitmap words implements the sliding window: it refuses the  *)
(* numbers it has committed and those Words words behind, and no others.   *)
THEOREM FilterImplements == Spec => Implements
<1>1. Init => SW!AbsInit
  BY DEF Init, SW!AbsInit
<1>2. QED
  BY <1>1, InitExact, StepExact, StepImplements, PTL
     DEF Spec, Implements, SW!AbsSpec
=============================================================================
