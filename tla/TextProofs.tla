------------------------------ MODULE TextProofs ------------------------------
(***************************************************************************)
(* What is computed of sequences of any length, such as the lines of a     *)
(* text: what a sequence gathered piece by piece is made of, and that a    *)
(* diff tells the change between two texts and no more.                    *)
(***************************************************************************)
EXTENDS UnifiedDiff, SequenceTheorems, WellFoundedInduction, TLAPS

-----------------------------------------------------------------------------
(* Induction, over the set of what has been shown.                         *)
LEMMA NumberInduction ==
    ASSUME NEW shown \in SUBSET Nat, 0 \in shown, \A n \in shown : n + 1 \in shown
    PROVE  shown = Nat
<1> DEFINE open == Nat \ shown
<1> SUFFICES ASSUME open # {} PROVE FALSE
  OBVIOUS
<1>1. IsWellFoundedOn(OpToRel(<, Nat), Nat)
  BY NatLessThanWellFounded
<1>2. PICK least \in open : \A n \in open : <<n, least>> \notin OpToRel(<, Nat)
  <2>1. open \subseteq Nat
    OBVIOUS
  <2> HIDE DEF open
  <2> QED
    BY <1>1, <2>1, WFMin, Zenon
<1>3. \A n \in open : ~(n < least)
  BY <1>2 DEF OpToRel
<1>4. least # 0 /\ least - 1 \in Nat /\ least - 1 < least
  OBVIOUS
<1>5. least - 1 \in shown
  BY <1>3, <1>4
<1> QED
  BY <1>4, <1>5

LEMMA SequenceInduction ==
    ASSUME NEW T, NEW shown \in SUBSET Seq(T), << >> \in shown,
           \A seq \in shown, elt \in T : Append(seq, elt) \in shown
    PROVE  shown = Seq(T)
<1> DEFINE lengths == {n \in Nat : \A seq \in Seq(T) : Len(seq) = n => seq \in shown}
<1>1. 0 \in lengths
  <2>1. \A seq \in Seq(T) : Len(seq) = 0 => seq = << >>
    BY EmptySeq
  <2> QED
    BY <2>1
<1>2. ASSUME NEW n \in lengths PROVE n + 1 \in lengths
  <2> SUFFICES ASSUME NEW seq \in Seq(T), Len(seq) = n + 1 PROVE seq \in shown
    OBVIOUS
  <2>1. PICK front \in Seq(T), elt \in T : seq = Append(front, elt)
    <3>1. seq # << >>
      OBVIOUS
    <3> QED
      BY <3>1, SequenceEmptyOrAppend
  <2>2. Len(front) = n
    BY <2>1, AppendProperties, LenProperties
  <2> QED
    BY <2>1, <2>2
<1> HIDE DEF lengths
<1>3. lengths = Nat
  <2>1. lengths \in SUBSET Nat
    BY DEF lengths
  <2> QED
    BY <1>1, <1>2, <2>1, NumberInduction
<1>4. \A seq \in Seq(T) : Len(seq) \in Nat
  BY LenProperties
<1> QED
  BY <1>3, <1>4 DEF lengths

(* A bounded set of numbers has a largest one.                             *)
LEMMA LargestIsIn ==
    ASSUME NEW n \in Nat, NEW S \in SUBSET (0 .. n), S # {}
    PROVE  Max(S) \in S /\ \A i \in S : i <= Max(S)
<1> DEFINE below == {n - i : i \in S}
<1>1. below \subseteq Nat /\ below # {}
  <2>1. \A i \in S : n - i \in Nat
    OBVIOUS
  <2> QED
    BY <2>1
<1>2. IsWellFoundedOn(OpToRel(<, Nat), Nat)
  BY NatLessThanWellFounded
<1>3. PICK least \in below : \A d \in below : <<d, least>> \notin OpToRel(<, Nat)
  BY <1>1, <1>2, WFMin, Zenon
<1>4. \A d \in below : ~(d < least)
  BY <1>1, <1>3 DEF OpToRel
<1>5. PICK i \in S : least = n - i
  OBVIOUS
<1>6. \A j \in S : i >= j
  <2> SUFFICES ASSUME NEW j \in S PROVE i >= j
    OBVIOUS
  <2>1. n - j \in below
    OBVIOUS
  <2> HIDE DEF below
  <2> QED
    BY <1>4, <1>5, <2>1
<1> QED
  BY <1>5, <1>6 DEF Max

(* A set of natural numbers has a least one.                               *)
LEMMA LeastIsIn ==
    ASSUME NEW S \in SUBSET Nat, S # {}
    PROVE  Min(S) \in S /\ \A i \in S : Min(S) <= i
<1>1. IsWellFoundedOn(OpToRel(<, Nat), Nat)
  BY NatLessThanWellFounded
<1>2. PICK least \in S : \A i \in S : <<i, least>> \notin OpToRel(<, Nat)
  BY <1>1, WFMin, Zenon
<1>3. \A i \in S : ~(i < least)
  BY <1>2 DEF OpToRel
<1>4. \A i \in S : least <= i
  BY <1>3
<1> QED
  BY <1>4 DEF Min

(* What is in a sequence made of two.                                      *)
LEMMA JoinMembers ==
    ASSUME NEW S, NEW left \in Seq(S), NEW right \in Seq(S)
    PROVE  ToSet(left \o right) = ToSet(left) \cup ToSet(right)
<1> DEFINE both == left \o right
<1>1. /\ Len(left) \in Nat /\ Len(right) \in Nat
      /\ DOMAIN left = 1 .. Len(left) /\ DOMAIN right = 1 .. Len(right)
      /\ DOMAIN both = 1 .. Len(left) + Len(right)
      /\ \A i \in 1 .. Len(left) + Len(right) :
           both[i] = IF i <= Len(left) THEN left[i] ELSE right[i - Len(left)]
  BY ConcatProperties, LenProperties
<1> HIDE DEF both
<1>2. \A i \in DOMAIN left : i \in DOMAIN both /\ both[i] = left[i]
  BY <1>1
<1>3. \A i \in DOMAIN right :
        i + Len(left) \in DOMAIN both /\ both[i + Len(left)] = right[i]
  BY <1>1
<1>4. \A i \in DOMAIN both :
        \/ i \in DOMAIN left /\ both[i] = left[i]
        \/ i - Len(left) \in DOMAIN right /\ both[i] = right[i - Len(left)]
  BY <1>1
<1>5. ASSUME NEW x PROVE x \in ToSet(both) <=> x \in ToSet(left) \cup ToSet(right)
  BY <1>2, <1>3, <1>4 DEF ToSet
<1> QED
  BY <1>5 DEF both

-----------------------------------------------------------------------------
(* FlattenSeq.                                                             *)

(* The table it is computed with.                                          *)
IsFlat(table, seqs) ==
    table = [i \in 1 .. Len(seqs) |->
               IF i = 1 THEN seqs[i] ELSE table[i - 1] \o seqs[i]]

LEMMA TableExists ==
    ASSUME NEW T
    PROVE  \A seqs \in Seq(T) : \E table : IsFlat(table, seqs)
<1> DEFINE shown == {seqs \in Seq(T) : \E table : IsFlat(table, seqs)}
<1>1. << >> \in shown
  <2>1. IsFlat([i \in 1 .. 0 |-> << >>], << >>)
    BY DEF IsFlat
  <2> QED
    BY <2>1
<1>2. ASSUME NEW seqs \in shown, NEW elt \in T
      PROVE  Append(seqs, elt) \in shown
  <2>1. PICK table : IsFlat(table, seqs)
    OBVIOUS
  <2> DEFINE n == Len(seqs)
             more == Append(seqs, elt)
             last == IF n = 0 THEN elt ELSE table[n] \o elt
             longer == [i \in 1 .. n + 1 |-> IF i = n + 1 THEN last ELSE table[i]]
  <2>2. n \in Nat /\ Len(more) = n + 1 /\ more[n + 1] = elt /\ more \in Seq(T)
        /\ \A i \in 1 .. n : more[i] = seqs[i]
    BY AppendProperties, LenProperties
  <2>3. /\ DOMAIN table = 1 .. n
        /\ \A i \in 1 .. n : table[i] = IF i = 1 THEN seqs[i] ELSE table[i - 1] \o seqs[i]
    BY <2>1 DEF IsFlat
  <2> HIDE DEF n, more
  <2>4. ASSUME NEW i \in 1 .. n
        PROVE  longer[i] = IF i = 1 THEN more[i] ELSE longer[i - 1] \o more[i]
    <3>1. longer[i] = table[i] /\ more[i] = seqs[i]
      BY <2>2
    <3>2. i # 1 => longer[i - 1] = table[i - 1]
      BY <2>2
    <3> QED
      BY <2>3, <3>1, <3>2
  <2>5. longer[n + 1] = IF n + 1 = 1 THEN more[n + 1] ELSE longer[n] \o more[n + 1]
    BY <2>2, <2>3
  <2>6. longer = [i \in 1 .. n + 1 |-> longer[i]]
    OBVIOUS
  <2> HIDE DEF longer
  <2>7. \A i \in 1 .. n + 1 :
          longer[i] = IF i = 1 THEN more[i] ELSE longer[i - 1] \o more[i]
    BY <2>2, <2>4, <2>5
  <2>8. IsFlat(longer, more)
    BY <2>2, <2>6, <2>7 DEF IsFlat
  <2> QED
    BY <2>2, <2>8 DEF more
<1> HIDE DEF shown
<1>3. shown = Seq(T)
  <2>1. shown \in SUBSET Seq(T)
    BY DEF shown
  <2> QED
    BY <1>1, <1>2, <2>1, SequenceInduction
<1> QED
  BY <1>3 DEF shown

LEMMA FlatTable ==
    ASSUME NEW T, NEW seqs \in Seq(T), seqs # << >>
    PROVE  \E table : IsFlat(table, seqs) /\ FlattenSeq(seqs) = table[Len(seqs)]
<1> DEFINE flat == CHOOSE table : IsFlat(table, seqs)
<1>1. Len(seqs) # 0
  BY EmptySeq
<1>2. IsFlat(flat, seqs)
  BY TableExists
<1>3. FlattenSeq(seqs) = flat[Len(seqs)]
  BY <1>1 DEF FlattenSeq, IsFlat
<1> QED
  BY <1>2, <1>3

LEMMA FlatEmpty == FlattenSeq(<< >>) = << >>
  BY DEF FlattenSeq

LEMMA FlatAppend ==
    ASSUME NEW S, NEW seqs \in Seq(Seq(S)), NEW seq \in Seq(S)
    PROVE  FlattenSeq(Append(seqs, seq)) = FlattenSeq(seqs) \o seq
<1> DEFINE n == Len(seqs)
           more == Append(seqs, seq)
<1>1. n \in Nat /\ Len(more) = n + 1 /\ more[n + 1] = seq /\ more \in Seq(Seq(S))
      /\ more # << >> /\ \A i \in 1 .. n : more[i] = seqs[i]
  BY AppendProperties, LenProperties
<1>2. PICK longer : IsFlat(longer, more) /\ FlattenSeq(more) = longer[n + 1]
  BY <1>1, FlatTable
<1>3. \A i \in 1 .. n + 1 :
        longer[i] = IF i = 1 THEN more[i] ELSE longer[i - 1] \o more[i]
  BY <1>1, <1>2 DEF IsFlat
<1>4. CASE seqs = << >>
  <2>1. n = 0
    BY <1>4
  <2>2. FlattenSeq(more) = seq
    BY <1>1, <1>2, <1>3, <2>1
  <2> QED
    BY <1>4, <2>2, FlatEmpty, ConcatEmptySeq
<1>5. CASE seqs # << >>
  <2>1. n >= 1
    BY <1>5, EmptySeq
  <2>2. PICK table : IsFlat(table, seqs) /\ FlattenSeq(seqs) = table[n]
    BY <1>5, FlatTable
  <2>3. \A i \in 1 .. n : table[i] = IF i = 1 THEN seqs[i] ELSE table[i - 1] \o seqs[i]
    BY <2>2 DEF IsFlat
  <2> HIDE DEF n, more
  <2> DEFINE shown == {i \in Nat : i \in 1 .. n => table[i] = longer[i]}
  <2>4. ASSUME NEW i \in shown PROVE i + 1 \in shown
    <3> SUFFICES ASSUME i + 1 \in 1 .. n PROVE table[i + 1] = longer[i + 1]
      OBVIOUS
    <3>1. /\ table[i + 1] = IF i = 0 THEN seqs[i + 1] ELSE table[i] \o seqs[i + 1]
          /\ longer[i + 1] = IF i = 0 THEN more[i + 1] ELSE longer[i] \o more[i + 1]
          /\ more[i + 1] = seqs[i + 1]
      <4>1. /\ i + 1 \in 1 .. n /\ i + 1 \in 1 .. n + 1
            /\ (i + 1) - 1 = i /\ (i + 1 = 1 <=> i = 0)
        BY <1>1
      <4> HIDE DEF shown
      <4> QED
        BY <1>1, <1>3, <2>3, <4>1
    <3>2. i # 0 => table[i] = longer[i]
      BY <1>1
    <3> QED
      BY <3>1, <3>2
  <2>5. shown = Nat
    <3>1. 0 \in shown /\ shown \in SUBSET Nat
      OBVIOUS
    <3> HIDE DEF shown
    <3> QED
      BY <2>4, <3>1, NumberInduction
  <2>6. table[n] = longer[n]
    <3>1. n \in 1 .. n
      BY <1>1, <2>1
    <3>2. \A i \in Nat : i \in 1 .. n => table[i] = longer[i]
      BY <2>5
    <3> HIDE DEF shown
    <3> QED
      BY <1>1, <3>1, <3>2
  <2>7. longer[n + 1] = longer[n] \o seq
    <3>1. n + 1 \in 1 .. n + 1 /\ n + 1 # 1 /\ (n + 1) - 1 = n
      BY <1>1, <2>1
    <3> HIDE DEF shown
    <3> QED
      BY <1>1, <1>3, <3>1
  <2> QED
    BY <1>2, <2>2, <2>6, <2>7 DEF more
<1> QED
  BY <1>4, <1>5

LEMMA FlatType ==
    ASSUME NEW S
    PROVE  \A seqs \in Seq(Seq(S)) : FlattenSeq(seqs) \in Seq(S)
<1> DEFINE shown == {seqs \in Seq(Seq(S)) : FlattenSeq(seqs) \in Seq(S)}
<1>1. << >> \in shown
  BY FlatEmpty, EmptySeq
<1>2. ASSUME NEW seqs \in shown, NEW seq \in Seq(S)
      PROVE  Append(seqs, seq) \in shown
  <2>1. FlattenSeq(seqs) \o seq \in Seq(S) /\ Append(seqs, seq) \in Seq(Seq(S))
    BY ConcatProperties, AppendProperties
  <2> QED
    BY <2>1, FlatAppend
<1> HIDE DEF shown
<1>3. shown = Seq(Seq(S))
  <2>1. shown \in SUBSET Seq(Seq(S))
    BY DEF shown
  <2> QED
    BY <1>1, <1>2, <2>1, SequenceInduction
<1> QED
  BY <1>3 DEF shown

(* An element at the end goes to the second part.                          *)
LEMMA AppendToConcat ==
    ASSUME NEW T, NEW left \in Seq(T), NEW right \in Seq(T), NEW elt \in T
    PROVE  left \o Append(right, elt) = Append(left \o right, elt)
<1>1. <<elt>> \in Seq(T) /\ left \o right \in Seq(T)
  BY ConcatProperties
<1>2. (left \o right) \o <<elt>> = left \o (right \o <<elt>>)
  BY <1>1, ConcatAssociative
<1>3. /\ Append(right, elt) = right \o <<elt>>
      /\ Append(left \o right, elt) = (left \o right) \o <<elt>>
  BY <1>1, AppendIsConcat
<1> QED
  BY <1>2, <1>3

(* The pieces in two parts.                                                *)
LEMMA FlatConcat ==
    ASSUME NEW S, NEW left \in Seq(Seq(S))
    PROVE  \A right \in Seq(Seq(S)) :
             FlattenSeq(left \o right) = FlattenSeq(left) \o FlattenSeq(right)
<1> DEFINE shown == {right \in Seq(Seq(S)) :
                       FlattenSeq(left \o right) = FlattenSeq(left) \o FlattenSeq(right)}
<1>1. << >> \in shown
  <2>1. left \o << >> = left /\ FlattenSeq(left) \o << >> = FlattenSeq(left)
    BY FlatType, ConcatEmptySeq
  <2> QED
    BY <2>1, FlatEmpty, EmptySeq
<1>2. ASSUME NEW right \in shown, NEW seq \in Seq(S)
      PROVE  Append(right, seq) \in shown
  <2>1. left \o Append(right, seq) = Append(left \o right, seq)
    <3>1. right \in Seq(Seq(S))
      OBVIOUS
    <3> HIDE DEF shown
    <3> QED
      BY <3>1, AppendToConcat
  <2>2. left \o right \in Seq(Seq(S)) /\ Append(right, seq) \in Seq(Seq(S))
    BY ConcatProperties, AppendProperties
  <2>3. FlattenSeq(left) \in Seq(S) /\ FlattenSeq(right) \in Seq(S)
    BY FlatType
  <2>4. FlattenSeq(left \o Append(right, seq))
          = (FlattenSeq(left) \o FlattenSeq(right)) \o seq
    BY <2>1, <2>2, FlatAppend
  <2>5. @ = FlattenSeq(left) \o (FlattenSeq(right) \o seq)
    <3> HIDE DEF shown
    <3> QED
      BY <2>3, ConcatAssociative
  <2>6. @ = FlattenSeq(left) \o FlattenSeq(Append(right, seq))
    BY FlatAppend
  <2> QED
    BY <2>2, <2>4, <2>5, <2>6
<1> HIDE DEF shown
<1>3. shown = Seq(Seq(S))
  <2>1. shown \in SUBSET Seq(Seq(S))
    BY DEF shown
  <2> QED
    BY <1>1, <1>2, <2>1, SequenceInduction
<1> QED
  BY <1>3 DEF shown

(* Pieces of which each is empty.                                          *)
LEMMA FlatNothing ==
    \A seqs \in Seq({<< >>}) : FlattenSeq(seqs) = << >>
<1> DEFINE shown == {seqs \in Seq({<< >>}) : FlattenSeq(seqs) = << >>}
<1>1. << >> \in shown
  BY FlatEmpty
<1>2. ASSUME NEW seqs \in shown, NEW seq \in {<< >>}
      PROVE  Append(seqs, seq) \in shown
  <2>1. seqs \in Seq(Seq({})) /\ seq \in Seq({}) /\ Append(seqs, seq) \in Seq({<< >>})
    <3>1. {<< >>} \subseteq Seq({})
      BY EmptySeq
    <3>2. seqs \in Seq({<< >>})
      OBVIOUS
    <3>3. seqs \in Seq(Seq({}))
      BY <3>1, <3>2, SeqMonotonic
    <3>4. Append(seqs, seq) \in Seq({<< >>})
      BY <3>2, AppendProperties
    <3> QED
      BY <3>1, <3>3, <3>4
  <2>2. FlattenSeq(Append(seqs, seq)) = FlattenSeq(seqs) \o seq
    BY <2>1, FlatAppend
  <2>3. << >> \o << >> = << >>
    BY <2>1, ConcatEmptySeq
  <2> QED
    BY <2>1, <2>2, <2>3
<1> HIDE DEF shown
<1>3. shown = Seq({<< >>})
  <2>1. shown \in SUBSET Seq({<< >>})
    BY DEF shown
  <2> QED
    BY <1>1, <1>2, <2>1, SequenceInduction
<1> QED
  BY <1>3 DEF shown

(* Pieces of one element each.                                             *)
LEMMA FlatSingles ==
    ASSUME NEW S
    PROVE  \A seq \in Seq(S) : FlattenSeq([i \in 1 .. Len(seq) |-> <<seq[i]>>]) = seq
<1> DEFINE Singles(seq) == [i \in 1 .. Len(seq) |-> <<seq[i]>>]
           shown == {seq \in Seq(S) : FlattenSeq(Singles(seq)) = seq}
<1>1. << >> \in shown
  <2>1. Singles(<< >>) = << >>
    OBVIOUS
  <2> QED
    BY <2>1, FlatEmpty
<1>2. ASSUME NEW seq \in shown, NEW elt \in S
      PROVE  Append(seq, elt) \in shown
  <2>1. /\ Append(seq, elt) \in Seq(S) /\ Len(Append(seq, elt)) = Len(seq) + 1
        /\ Len(seq) \in Nat /\ Append(seq, elt)[Len(seq) + 1] = elt
        /\ \A i \in 1 .. Len(seq) : Append(seq, elt)[i] = seq[i] /\ seq[i] \in S
    BY AppendProperties, LenProperties, ElementOfSeq
  <2>2. /\ Singles(seq) \in Seq(Seq(S)) /\ Len(Singles(seq)) = Len(seq)
        /\ Singles(Append(seq, elt)) \in Seq(Seq(S))
        /\ Len(Singles(Append(seq, elt))) = Len(seq) + 1
    BY <2>1
  <2>3. Singles(Append(seq, elt)) = Append(Singles(seq), <<elt>>)
    <3>1. /\ Append(Singles(seq), <<elt>>) \in Seq(Seq(S))
          /\ Len(Append(Singles(seq), <<elt>>)) = Len(seq) + 1
          /\ Append(Singles(seq), <<elt>>)[Len(seq) + 1] = <<elt>>
          /\ \A i \in 1 .. Len(seq) : Append(Singles(seq), <<elt>>)[i] = Singles(seq)[i]
      BY <2>2, AppendProperties
    <3>2. \A i \in 1 .. Len(seq) + 1 :
            Singles(Append(seq, elt))[i] = Append(Singles(seq), <<elt>>)[i]
      BY <2>1, <3>1
    <3> HIDE DEF Singles
    <3> QED
      BY <2>2, <3>1, <3>2, SeqEqual
  <2> HIDE DEF Singles
  <2>4. FlattenSeq(Singles(Append(seq, elt))) = seq \o <<elt>>
    <3>1. FlattenSeq(Singles(seq)) = seq
      OBVIOUS
    <3>2. <<elt>> \in Seq(S)
      OBVIOUS
    <3>3. FlattenSeq(Append(Singles(seq), <<elt>>)) = FlattenSeq(Singles(seq)) \o <<elt>>
      BY <2>2, <3>2, FlatAppend
    <3> QED
      BY <2>3, <3>1, <3>3
  <2> QED
    BY <2>1, <2>4, AppendIsConcat
<1> HIDE DEF shown
<1>3. shown = Seq(S)
  <2>1. shown \in SUBSET Seq(S)
    BY DEF shown
  <2> QED
    BY <1>1, <1>2, <2>1, SequenceInduction
<1> QED
  BY <1>3 DEF shown

(* What is in the pieces.                                                  *)
LEMMA FlatMembers ==
    ASSUME NEW S
    PROVE  \A seqs \in Seq(Seq(S)) :
             ToSet(FlattenSeq(seqs)) = UNION {ToSet(seqs[i]) : i \in DOMAIN seqs}
<1> DEFINE Parts(seqs) == UNION {ToSet(seqs[i]) : i \in DOMAIN seqs}
           shown == {seqs \in Seq(Seq(S)) : ToSet(FlattenSeq(seqs)) = Parts(seqs)}
<1>1. << >> \in shown
  BY FlatEmpty DEF ToSet
<1>2. ASSUME NEW seqs \in shown, NEW seq \in Seq(S)
      PROVE  Append(seqs, seq) \in shown
  <2>1. /\ Append(seqs, seq) \in Seq(Seq(S))
        /\ DOMAIN Append(seqs, seq) = DOMAIN seqs \cup {Len(seqs) + 1}
        /\ Append(seqs, seq)[Len(seqs) + 1] = seq
        /\ \A i \in DOMAIN seqs : Append(seqs, seq)[i] = seqs[i]
    BY AppendProperties, LenProperties
  <2>2. Parts(Append(seqs, seq)) = Parts(seqs) \cup ToSet(seq)
    BY <2>1
  <2>3. ToSet(FlattenSeq(seqs) \o seq) = ToSet(FlattenSeq(seqs)) \cup ToSet(seq)
    <3>1. FlattenSeq(seqs) \in Seq(S)
      BY FlatType
    <3> QED
      BY <3>1, JoinMembers
  <2>4. FlattenSeq(Append(seqs, seq)) = FlattenSeq(seqs) \o seq
    BY FlatAppend
  <2> QED
    BY <2>1, <2>2, <2>3, <2>4
<1> HIDE DEF shown
<1>3. shown = Seq(Seq(S))
  <2>1. shown \in SUBSET Seq(Seq(S))
    BY DEF shown
  <2> QED
    BY <1>1, <1>2, <2>1, SequenceInduction
<1> QED
  BY <1>3 DEF shown

LEMMA FlatFive ==
    ASSUME NEW S, NEW seqs \in Seq(Seq(S)), Len(seqs) = 5
    PROVE  FlattenSeq(seqs)
             = (((seqs[1] \o seqs[2]) \o seqs[3]) \o seqs[4]) \o seqs[5]
<1> DEFINE a == seqs[1]
           b == seqs[2]
           c == seqs[3]
           d == seqs[4]
           e == seqs[5]
<1>0. /\ a \in Seq(S) /\ b \in Seq(S) /\ c \in Seq(S) /\ d \in Seq(S) /\ e \in Seq(S)
      /\ seqs = <<a, b, c, d, e>>
  OBVIOUS
<1> HIDE DEF a, b, c, d, e
<1>1. /\ <<a>> = Append(<< >>, a) /\ <<a, b>> = Append(<<a>>, b)
      /\ <<a, b, c>> = Append(<<a, b>>, c) /\ <<a, b, c, d>> = Append(<<a, b, c>>, d)
      /\ <<a, b, c, d, e>> = Append(<<a, b, c, d>>, e)
  OBVIOUS
<1>2. FlattenSeq(<<a>>) = a
  <2>1. << >> \in Seq(Seq(S)) /\ << >> \o a = a
    BY <1>0, EmptySeq, ConcatEmptySeq
  <2> QED
    BY <1>0, <1>1, <2>1, FlatEmpty, FlatAppend
<1>3. FlattenSeq(<<a, b>>) = a \o b
  <2>1. <<a>> \in Seq(Seq(S))
    BY <1>0
  <2> QED
    BY <1>0, <1>1, <1>2, <2>1, FlatAppend
<1>4. FlattenSeq(<<a, b, c>>) = (a \o b) \o c
  <2>1. <<a, b>> \in Seq(Seq(S))
    BY <1>0
  <2> QED
    BY <1>0, <1>1, <1>3, <2>1, FlatAppend
<1>5. FlattenSeq(<<a, b, c, d>>) = ((a \o b) \o c) \o d
  <2>1. <<a, b, c>> \in Seq(Seq(S))
    BY <1>0
  <2> QED
    BY <1>0, <1>1, <1>4, <2>1, FlatAppend
<1>6. FlattenSeq(<<a, b, c, d, e>>) = (((a \o b) \o c) \o d) \o e
  <2>1. <<a, b, c, d>> \in Seq(Seq(S))
    BY <1>0
  <2> QED
    BY <1>0, <1>1, <1>5, <2>1, FlatAppend
<1> QED
  BY <1>0, <1>6 DEF a, b, c, d, e

-----------------------------------------------------------------------------
(* A sequence of which each element contributes a piece: how every text of *)
(* the model is made of another.                                           *)
Pieces(seq, piece) == [i \in DOMAIN seq |-> piece[seq[i]]]

Gathered(seq, piece) == FlattenSeq(Pieces(seq, piece))

IsPiece(piece, T, S) == piece \in [T -> Seq(S)]

LEMMA PiecesTyped ==
    ASSUME NEW T, NEW S, NEW piece, IsPiece(piece, T, S), NEW seq \in Seq(T)
    PROVE  /\ Pieces(seq, piece) \in Seq(Seq(S))
           /\ Len(Pieces(seq, piece)) = Len(seq)
           /\ Gathered(seq, piece) \in Seq(S)
<1>1. /\ Len(seq) \in Nat /\ DOMAIN seq = 1 .. Len(seq)
      /\ \A i \in DOMAIN seq : seq[i] \in T
  BY LenProperties, ElementOfSeq
<1>2. \A i \in 1 .. Len(seq) : Pieces(seq, piece)[i] \in Seq(S)
  BY <1>1 DEF Pieces, IsPiece
<1>3. Pieces(seq, piece) = [i \in 1 .. Len(seq) |-> Pieces(seq, piece)[i]]
  BY <1>1 DEF Pieces
<1>4. Pieces(seq, piece) \in Seq(Seq(S)) /\ Len(Pieces(seq, piece)) = Len(seq)
  BY <1>1, <1>2, <1>3
<1> QED
  BY <1>4, FlatType DEF Gathered

LEMMA GatheredEmpty == \A piece : Gathered(<< >>, piece) = << >>
<1>1. \A piece : Pieces(<< >>, piece) = << >>
  BY DEF Pieces
<1> QED
  BY <1>1, FlatEmpty DEF Gathered

(* A sequence in two parts.                                                *)
LEMMA GatheredConcat ==
    ASSUME NEW T, NEW S, NEW piece, IsPiece(piece, T, S),
           NEW left \in Seq(T), NEW right \in Seq(T)
    PROVE  Gathered(left \o right, piece) = Gathered(left, piece) \o Gathered(right, piece)
<1> DEFINE n == Len(left)
           m == Len(right)
           both == Pieces(left \o right, piece)
           l == Pieces(left, piece)
           r == Pieces(right, piece)
<1>1. /\ left \o right \in Seq(T) /\ Len(left \o right) = n + m
      /\ n \in Nat /\ m \in Nat
      /\ DOMAIN left = 1 .. n /\ DOMAIN right = 1 .. m
      /\ DOMAIN (left \o right) = 1 .. n + m
      /\ \A i \in 1 .. n + m :
           (left \o right)[i] = IF i <= n THEN left[i] ELSE right[i - n]
  BY ConcatProperties, LenProperties
<1>2. /\ both \in Seq(Seq(S)) /\ Len(both) = n + m
      /\ l \in Seq(Seq(S)) /\ Len(l) = n
      /\ r \in Seq(Seq(S)) /\ Len(r) = m
  <2>1. \A seq \in Seq(T) : /\ Pieces(seq, piece) \in Seq(Seq(S))
                            /\ Len(Pieces(seq, piece)) = Len(seq)
    BY PiecesTyped
  <2> QED
    BY <1>1, <2>1
<1> HIDE DEF n, m
<1>3. /\ l \o r \in Seq(Seq(S)) /\ Len(l \o r) = n + m
      /\ \A i \in 1 .. n + m : (l \o r)[i] = IF i <= n THEN l[i] ELSE r[i - n]
  BY <1>2, ConcatProperties
<1>4. ASSUME NEW i \in 1 .. n + m PROVE both[i] = (l \o r)[i]
  <2>1. CASE i <= n
    <3>1. i \in DOMAIN left /\ i \in DOMAIN (left \o right) /\ (left \o right)[i] = left[i]
      BY <1>1, <2>1
    <3>2. both[i] = l[i]
      BY <3>1 DEF Pieces
    <3> HIDE DEF both, l, r
    <3> QED
      BY <1>3, <2>1, <3>2
  <2>2. CASE i > n
    <3>1. /\ i - n \in DOMAIN right /\ i \in DOMAIN (left \o right)
          /\ (left \o right)[i] = right[i - n] /\ ~(i <= n)
      BY <1>1, <2>2
    <3>2. both[i] = r[i - n]
      BY <3>1 DEF Pieces
    <3> HIDE DEF both, l, r
    <3> QED
      BY <1>3, <3>1, <3>2
  <2>3. i <= n \/ i > n
    BY <1>1
  <2> HIDE DEF both, l, r
  <2> QED
    BY <2>1, <2>2, <2>3
<1> HIDE DEF both, l, r
<1>5. both = l \o r
  BY <1>2, <1>3, <1>4, SeqEqual
<1>6. FlattenSeq(both) = FlattenSeq(l) \o FlattenSeq(r)
  BY <1>2, <1>5, FlatConcat
<1> QED
  BY <1>6 DEF Gathered, both, l, r

LEMMA GatheredOne ==
    ASSUME NEW T, NEW S, NEW piece, IsPiece(piece, T, S), NEW elt \in T
    PROVE  Gathered(<<elt>>, piece) = piece[elt]
<1>1. Pieces(<<elt>>, piece) = Append(<< >>, piece[elt])
  BY DEF Pieces
<1>2. << >> \in Seq(Seq(S)) /\ piece[elt] \in Seq(S) /\ << >> \o piece[elt] = piece[elt]
  BY EmptySeq, ConcatEmptySeq DEF IsPiece
<1> QED
  BY <1>1, <1>2, FlatAppend, FlatEmpty DEF Gathered

LEMMA GatheredFive ==
    ASSUME NEW T, NEW S, NEW piece, IsPiece(piece, T, S), NEW seq \in Seq(T), Len(seq) = 5
    PROVE  Gathered(seq, piece)
             = (((piece[seq[1]] \o piece[seq[2]]) \o piece[seq[3]]) \o piece[seq[4]])
                 \o piece[seq[5]]
<1> DEFINE p == Pieces(seq, piece)
<1>1. p \in Seq(Seq(S)) /\ Len(p) = 5
  BY PiecesTyped
<1>2. /\ p[1] = piece[seq[1]] /\ p[2] = piece[seq[2]] /\ p[3] = piece[seq[3]]
      /\ p[4] = piece[seq[4]] /\ p[5] = piece[seq[5]]
  BY DEF Pieces
<1> HIDE DEF p
<1>3. FlattenSeq(p) = (((p[1] \o p[2]) \o p[3]) \o p[4]) \o p[5]
  BY <1>1, FlatFive
<1> QED
  BY <1>2, <1>3 DEF Gathered, p

(* One element more.                                                       *)
LEMMA GatheredAppend ==
    ASSUME NEW T, NEW S, NEW piece, IsPiece(piece, T, S), NEW seq \in Seq(T), NEW elt \in T
    PROVE  Gathered(Append(seq, elt), piece) = Gathered(seq, piece) \o piece[elt]
<1> DEFINE one == <<elt>>
<1>1. one \in Seq(T) /\ Append(seq, elt) = seq \o one
  BY AppendIsConcat
<1>2. Gathered(one, piece) = piece[elt]
  BY GatheredOne
<1> HIDE DEF one
<1>3. Gathered(seq \o one, piece) = Gathered(seq, piece) \o Gathered(one, piece)
  BY <1>1, GatheredConcat
<1> QED
  BY <1>1, <1>2, <1>3

(* A sequence made of what was itself gathered.                            *)
IsComposed(pq, p, q, T) == \A elt \in T : pq[elt] = Gathered(p[elt], q)

LEMMA GatheredTwice ==
    ASSUME NEW T, NEW S, NEW R, NEW p, NEW q, NEW pq,
           IsPiece(p, T, S), IsPiece(q, S, R), IsPiece(pq, T, R), IsComposed(pq, p, q, T)
    PROVE  \A seq \in Seq(T) : Gathered(Gathered(seq, p), q) = Gathered(seq, pq)
<1> DEFINE shown == {seq \in Seq(T) : Gathered(Gathered(seq, p), q) = Gathered(seq, pq)}
<1>1. << >> \in shown
  <2>1. << >> \in Seq(T)
    BY EmptySeq
  <2> QED
    BY <2>1, GatheredEmpty
<1>2. ASSUME NEW seq \in Seq(T), Gathered(Gathered(seq, p), q) = Gathered(seq, pq),
             NEW elt \in T
      PROVE  Gathered(Gathered(Append(seq, elt), p), q) = Gathered(Append(seq, elt), pq)
  <2> HIDE DEF shown
  <2>1. Gathered(Append(seq, elt), p) = Gathered(seq, p) \o p[elt]
    BY GatheredAppend
  <2>2. Gathered(Append(seq, elt), pq) = Gathered(seq, pq) \o pq[elt]
    BY GatheredAppend
  <2>3. Gathered(seq, p) \in Seq(S) /\ p[elt] \in Seq(S)
    <3>1. Gathered(seq, p) \in Seq(S)
      BY PiecesTyped
    <3> QED
      BY <3>1 DEF IsPiece
  <2>4. Gathered(Gathered(seq, p) \o p[elt], q)
          = Gathered(Gathered(seq, p), q) \o Gathered(p[elt], q)
    BY <2>3, GatheredConcat
  <2> QED
    BY <1>2, <2>1, <2>2, <2>4 DEF IsComposed
<1>3. \A seq \in shown, elt \in T : Append(seq, elt) \in shown
  BY <1>2, AppendProperties
<1> HIDE DEF shown
<1>4. shown = Seq(T)
  <2>1. shown \in SUBSET Seq(T)
    BY DEF shown
  <2> QED
    BY <1>1, <1>3, <2>1, SequenceInduction
<1> QED
  BY <1>4 DEF shown

(* Elements that contribute nothing, and elements that contribute          *)
(* themselves.                                                             *)
LEMMA GatheredNothing ==
    ASSUME NEW T, NEW seq \in Seq(T), NEW piece, \A elt \in T : piece[elt] = << >>
    PROVE  Gathered(seq, piece) = << >>
<1>2. /\ Len(seq) \in Nat /\ DOMAIN seq = 1 .. Len(seq)
      /\ \A i \in DOMAIN seq : seq[i] \in T
  BY LenProperties, ElementOfSeq
<1>3. Pieces(seq, piece) \in Seq({<< >>})
  <2>1. \A i \in 1 .. Len(seq) : Pieces(seq, piece)[i] \in {<< >>}
    BY <1>2 DEF Pieces
  <2>2. Pieces(seq, piece) = [i \in 1 .. Len(seq) |-> Pieces(seq, piece)[i]]
    BY <1>2 DEF Pieces
  <2> QED
    BY <1>2, <2>1, <2>2
<1> QED
  BY <1>3, FlatNothing DEF Gathered

LEMMA GatheredAll ==
    ASSUME NEW T, NEW seq \in Seq(T), NEW piece, \A elt \in T : piece[elt] = <<elt>>
    PROVE  Gathered(seq, piece) = seq
<1>1. /\ Len(seq) \in Nat /\ DOMAIN seq = 1 .. Len(seq)
      /\ \A i \in DOMAIN seq : seq[i] \in T
  BY LenProperties, ElementOfSeq
<1>2. Pieces(seq, piece) = [i \in 1 .. Len(seq) |-> <<seq[i]>>]
  BY <1>1 DEF Pieces
<1> QED
  BY <1>2, FlatSingles DEF Gathered

LEMMA GatheredMembers ==
    ASSUME NEW T, NEW S, NEW piece, IsPiece(piece, T, S), NEW seq \in Seq(T)
    PROVE  \A x : x \in ToSet(Gathered(seq, piece)) <=>
                    \E i \in DOMAIN seq : x \in ToSet(piece[seq[i]])
<1>1. /\ Pieces(seq, piece) \in Seq(Seq(S))
      /\ DOMAIN Pieces(seq, piece) = DOMAIN seq
      /\ \A i \in DOMAIN seq : Pieces(seq, piece)[i] = piece[seq[i]]
  BY PiecesTyped DEF Pieces
<1> QED
  BY <1>1, FlatMembers DEF Gathered

-----------------------------------------------------------------------------
(* The diff of two texts: the table its walk reads, and what the walk tells.*)

(* Induction over the corners, from the last to the first.                 *)
Follow(shown, old, new, i, j) ==
    i <= Len(old) /\ j <= Len(new) =>
        /\ <<i + 1, j + 1>> \in shown
        /\ <<i + 1, j>> \in shown
        /\ <<i, j + 1>> \in shown

LEMMA CornerInduction ==
    ASSUME NEW T, NEW old \in Seq(T), NEW new \in Seq(T),
           NEW shown \in SUBSET Corners(old, new),
           \A i \in 1 .. Len(old) + 1, j \in 1 .. Len(new) + 1 :
              Follow(shown, old, new, i, j) => <<i, j>> \in shown
    PROVE  shown = Corners(old, new)
<1> DEFINE p == Len(old) + 1
           q == Len(new) + 1
           upTo == {n \in Nat : \A i \in 1 .. p, j \in 1 .. q :
                                  (p - i) + (q - j) < n => <<i, j>> \in shown}
<1>1. p \in Nat /\ q \in Nat
  OBVIOUS
<1> HIDE DEF p, q
<1>2. 0 \in upTo
  BY <1>1
<1>3. ASSUME NEW n \in upTo PROVE n + 1 \in upTo
  <2> SUFFICES ASSUME NEW i \in 1 .. p, NEW j \in 1 .. q, (p - i) + (q - j) < n + 1
               PROVE  <<i, j>> \in shown
    OBVIOUS
  <2>1. \A k \in 1 .. p, l \in 1 .. q : (p - k) + (q - l) < n => <<k, l>> \in shown
    OBVIOUS
  <2>2. i < p /\ j < q => <<i + 1, j + 1>> \in shown
    <3> SUFFICES ASSUME i < p, j < q PROVE <<i + 1, j + 1>> \in shown
      OBVIOUS
    <3>1. i + 1 \in 1 .. p /\ j + 1 \in 1 .. q /\ (p - (i + 1)) + (q - (j + 1)) < n
      BY <1>1
    <3> HIDE DEF upTo
    <3> QED
      BY <2>1, <3>1
  <2>3. i < p /\ j < q => <<i + 1, j>> \in shown
    <3> SUFFICES ASSUME i < p, j < q PROVE <<i + 1, j>> \in shown
      OBVIOUS
    <3>1. i + 1 \in 1 .. p /\ (p - (i + 1)) + (q - j) < n
      BY <1>1
    <3> HIDE DEF upTo
    <3> QED
      BY <2>1, <3>1
  <2>4. i < p /\ j < q => <<i, j + 1>> \in shown
    <3> SUFFICES ASSUME i < p, j < q PROVE <<i, j + 1>> \in shown
      OBVIOUS
    <3>1. j + 1 \in 1 .. q /\ (p - i) + (q - (j + 1)) < n
      BY <1>1
    <3> HIDE DEF upTo
    <3> QED
      BY <2>1, <3>1
  <2> HIDE DEF upTo
  <2>5. Follow(shown, old, new, i, j)
    BY <2>2, <2>3, <2>4 DEF Follow, p, q
  <2> QED
    BY <2>5 DEF p, q
<1>4. upTo = Nat
  <2>1. upTo \in SUBSET Nat
    OBVIOUS
  <2> HIDE DEF upTo
  <2> QED
    BY <1>2, <1>3, <2>1, NumberInduction
<1>5. \A i \in 1 .. p, j \in 1 .. q : <<i, j>> \in shown
  <2>1. p + q + 1 \in upTo
    <3> HIDE DEF upTo
    <3> QED
      BY <1>1, <1>4
  <2>2. \A i \in 1 .. p, j \in 1 .. q : (p - i) + (q - j) < p + q + 1
    BY <1>1
  <2> QED
    BY <2>1, <2>2
<1>6. \A at \in (1 .. p) \X (1 .. q) : at \in shown
  BY <1>5
<1> QED
  BY <1>6 DEF Corners, p, q

(* The table.                                                              *)
Counted(lcs, old, new, i, j) ==
    IF i > Len(old) \/ j > Len(new) THEN 0
    ELSE IF old[i] = new[j] THEN lcs[<<i + 1, j + 1>>] + 1
    ELSE Larger(lcs[<<i + 1, j>>], lcs[<<i, j + 1>>])

IsCount(lcs, old, new) ==
    lcs = [at \in Corners(old, new) |-> Counted(lcs, old, new, at[1], at[2])]

LEMMA CommonIsCount ==
    ASSUME NEW old, NEW new, \E lcs : IsCount(lcs, old, new)
    PROVE  IsCount(CommonFrom(old, new), old, new)
<1>1. CommonFrom(old, new) = CHOOSE lcs : IsCount(lcs, old, new)
  BY DEF CommonFrom, IsCount, Counted
<1> QED
  BY <1>1

LEMMA CountExists ==
    ASSUME NEW T, NEW old \in Seq(T), NEW new \in Seq(T)
    PROVE  \E lcs : IsCount(lcs, old, new)
<1> DEFINE p == Len(old) + 1
           q == Len(new) + 1
           Right(lcs, n) == \A i \in 1 .. p, j \in 1 .. q :
              (p - i) + (q - j) < n => lcs[<<i, j>>] = Counted(lcs, old, new, i, j)
           upTo == {n \in Nat : \E lcs : Right(lcs, n)}
<1>1. p \in Nat /\ q \in Nat
  OBVIOUS
<1> HIDE DEF p, q
<1>2. 0 \in upTo
  <2>1. Right(<< >>, 0)
    BY <1>1
  <2> QED
    BY <2>1
<1>3. ASSUME NEW n \in upTo PROVE n + 1 \in upTo
  <2>1. PICK lcs : Right(lcs, n)
    OBVIOUS
  <2> DEFINE Entry(i, j) == IF (p - i) + (q - j) = n
                            THEN Counted(lcs, old, new, i, j) ELSE lcs[<<i, j>>]
             more == [at \in (1 .. p) \X (1 .. q) |-> Entry(at[1], at[2])]
  <2>2. \A i \in 1 .. p, j \in 1 .. q : more[<<i, j>>] = Entry(i, j)
    OBVIOUS
  <2> HIDE DEF more
  <2>3. ASSUME NEW i \in 1 .. p, NEW j \in 1 .. q, (p - i) + (q - j) < n
        PROVE  more[<<i, j>>] = lcs[<<i, j>>]
    BY <2>2, <2>3
  <2>4. ASSUME NEW i \in 1 .. p, NEW j \in 1 .. q, (p - i) + (q - j) < n + 1
        PROVE  Counted(more, old, new, i, j) = Counted(lcs, old, new, i, j)
    <3> SUFFICES ASSUME i < p, j < q
                 PROVE  /\ more[<<i + 1, j + 1>>] = lcs[<<i + 1, j + 1>>]
                        /\ more[<<i + 1, j>>] = lcs[<<i + 1, j>>]
                        /\ more[<<i, j + 1>>] = lcs[<<i, j + 1>>]
      BY <1>1 DEF Counted, p, q
    <3>1. /\ i + 1 \in 1 .. p /\ j + 1 \in 1 .. q
          /\ (p - (i + 1)) + (q - (j + 1)) < n
          /\ (p - (i + 1)) + (q - j) < n
          /\ (p - i) + (q - (j + 1)) < n
      BY <1>1, <2>4
    <3> HIDE DEF upTo
    <3> QED
      BY <2>3, <3>1
  <2>5. Right(more, n + 1)
    <3> SUFFICES ASSUME NEW i \in 1 .. p, NEW j \in 1 .. q, (p - i) + (q - j) < n + 1
                 PROVE  more[<<i, j>>] = Counted(more, old, new, i, j)
      OBVIOUS
    <3>1. Counted(more, old, new, i, j) = Counted(lcs, old, new, i, j)
      BY <2>4
    <3>2. (p - i) + (q - j) = n \/ (p - i) + (q - j) < n
      BY <1>1
    <3>3. (p - i) + (q - j) < n => lcs[<<i, j>>] = Counted(lcs, old, new, i, j)
      BY <2>1
    <3> QED
      BY <2>2, <3>1, <3>2, <3>3
  <2>6. \E f : Right(f, n + 1)
    <3> HIDE DEF Right
    <3> QED
      BY <2>5
  <2>7. n + 1 \in Nat
    OBVIOUS
  <2> HIDE DEF Right
  <2> QED
    BY <2>6, <2>7
<1>4. upTo = Nat
  <2>1. upTo \in SUBSET Nat
    OBVIOUS
  <2> HIDE DEF upTo
  <2> QED
    BY <1>2, <1>3, <2>1, NumberInduction
<1>5. PICK lcs : Right(lcs, p + q + 1)
  <2>1. p + q + 1 \in upTo
    <3> HIDE DEF upTo
    <3> QED
      BY <1>1, <1>4
  <2> QED
    BY <2>1
<1> DEFINE whole == [at \in (1 .. p) \X (1 .. q) |-> lcs[at]]
<1>6. \A i \in 1 .. p, j \in 1 .. q : whole[<<i, j>>] = lcs[<<i, j>>]
  OBVIOUS
<1> HIDE DEF whole
<1>7. ASSUME NEW i \in 1 .. p, NEW j \in 1 .. q
      PROVE  whole[<<i, j>>] = Counted(whole, old, new, i, j)
  <2>1. lcs[<<i, j>>] = Counted(lcs, old, new, i, j)
    <3>1. (p - i) + (q - j) < p + q + 1
      BY <1>1
    <3> QED
      BY <1>5, <3>1
  <2>2. Counted(lcs, old, new, i, j) = Counted(whole, old, new, i, j)
    <3> SUFFICES ASSUME i < p, j < q
                 PROVE  /\ whole[<<i + 1, j + 1>>] = lcs[<<i + 1, j + 1>>]
                        /\ whole[<<i + 1, j>>] = lcs[<<i + 1, j>>]
                        /\ whole[<<i, j + 1>>] = lcs[<<i, j + 1>>]
      BY <1>1 DEF Counted, p, q
    <3>1. i + 1 \in 1 .. p /\ j + 1 \in 1 .. q
      BY <1>1
    <3> QED
      BY <1>6, <3>1
  <2> QED
    BY <1>6, <2>1, <2>2
<1>8. IsCount(whole, old, new)
  <2>1. \A at \in (1 .. p) \X (1 .. q) :
          whole[at] = Counted(whole, old, new, at[1], at[2])
    BY <1>7
  <2>2. whole = [at \in (1 .. p) \X (1 .. q) |-> whole[at]]
    BY DEF whole
  <2> QED
    BY <2>1, <2>2 DEF IsCount, Corners, p, q
<1> QED
  BY <1>8

(* What an entry of the table counts.                                      *)
ShareFrom(old, new, i, j, n) ==
    \E inOld \in Climbs(n, i .. Len(old)), inNew \in Climbs(n, j .. Len(new)) :
       \A k \in 1 .. n : old[inOld[k]] = new[inNew[k]]

IsLongest(lcs, old, new, i, j) ==
    /\ lcs[<<i, j>>] \in 0 .. Len(old) + 1 - i
    /\ ShareFrom(old, new, i, j, lcs[<<i, j>>])
    /\ \A n \in Nat : ShareFrom(old, new, i, j, n) => n <= lcs[<<i, j>>]

LEMMA CountAt ==
    ASSUME NEW T, NEW old \in Seq(T), NEW new \in Seq(T), NEW lcs, IsCount(lcs, old, new),
           NEW i \in 1 .. Len(old) + 1, NEW j \in 1 .. Len(new) + 1
    PROVE  lcs[<<i, j>>] = Counted(lcs, old, new, i, j)
  BY DEF IsCount, Corners

LEMMA ShareNothing ==
    ASSUME NEW T, NEW old \in Seq(T), NEW new \in Seq(T), NEW i \in Nat, NEW j \in Nat
    PROVE  /\ ShareFrom(old, new, i, j, 0)
           /\ i > Len(old) \/ j > Len(new) =>
                \A n \in Nat : ShareFrom(old, new, i, j, n) => n = 0
<1>1. ShareFrom(old, new, i, j, 0)
  <2> DEFINE none == [k \in 1 .. 0 |-> 0]
  <2>1. \A places : none \in Climbs(0, places)
    BY DEF Climbs
  <2>2. \A k \in 1 .. 0 : old[none[k]] = new[none[k]]
    OBVIOUS
  <2>3. none \in Climbs(0, i .. Len(old)) /\ none \in Climbs(0, j .. Len(new))
    BY <2>1
  <2> HIDE DEF none
  <2> QED
    BY <2>2, <2>3 DEF ShareFrom
<1>2. ASSUME i > Len(old) \/ j > Len(new), NEW n \in Nat, ShareFrom(old, new, i, j, n), n # 0
      PROVE  FALSE
  <2>1. PICK inOld \in Climbs(n, i .. Len(old)), inNew \in Climbs(n, j .. Len(new)) : TRUE
    BY <1>2 DEF ShareFrom
  <2>2. 1 \in 1 .. n
    BY <1>2
  <2>3. inOld[1] \in i .. Len(old) /\ inNew[1] \in j .. Len(new)
    BY <2>1, <2>2 DEF Climbs
  <2> QED
    BY <1>2, <2>3
<1> QED
  BY <1>1, <1>2

(* A line more at the front, and a line less.                              *)
Precedes(higher, i, at, n) ==
    higher[1] = i /\ \A k \in 1 .. n : higher[k + 1] = at[k]

LEMMA ClimbOn ==
    ASSUME NEW n \in Nat, NEW i \in Nat, NEW top \in Nat, i <= top,
           NEW at \in Climbs(n, i + 1 .. top)
    PROVE  \E higher \in Climbs(n + 1, i .. top) : Precedes(higher, i, at, n)
<1> DEFINE higher == [k \in 1 .. n + 1 |-> IF k = 1 THEN i ELSE at[k - 1]]
<1>1. /\ at \in [1 .. n -> i + 1 .. top]
      /\ \A k, l \in 1 .. n : k < l => at[k] < at[l]
  BY DEF Climbs
<1>2. Precedes(higher, i, at, n)
  BY DEF Precedes
<1>3. \A k \in 1 .. n + 1 :
        higher[k] = IF k = 1 THEN i ELSE at[k - 1]
  OBVIOUS
<1>4. \A k \in 1 .. n + 1 : higher[k] \in i .. top
  <2> SUFFICES ASSUME NEW k \in 1 .. n + 1 PROVE higher[k] \in i .. top
    OBVIOUS
  <2>1. k # 1 => k - 1 \in 1 .. n
    OBVIOUS
  <2> HIDE DEF higher
  <2> QED
    BY <1>1, <1>3, <2>1
<1>5. higher \in [1 .. n + 1 -> i .. top]
  BY <1>4
<1>6. ASSUME NEW k \in 1 .. n + 1, NEW l \in 1 .. n + 1, k < l
      PROVE  higher[k] < higher[l]
  <2>1. l - 1 \in 1 .. n /\ (k # 1 => k - 1 \in 1 .. n /\ k - 1 < l - 1) /\ l # 1
    BY <1>6
  <2>2. higher[l] = at[l - 1] /\ at[l - 1] \in i + 1 .. top
    BY <1>1, <2>1
  <2>3. CASE k = 1
    BY <2>2, <2>3
  <2>4. CASE k # 1
    <3>1. higher[k] = at[k - 1]
      BY <2>4
    <3> HIDE DEF higher
    <3> QED
      BY <1>1, <2>1, <2>2, <2>4, <3>1
  <2> QED
    BY <2>3, <2>4
<1> HIDE DEF higher
<1>7. higher \in Climbs(n + 1, i .. top)
  BY <1>5, <1>6 DEF Climbs
<1> QED
  BY <1>2, <1>7

Follows(less, at, n) == \A k \in 1 .. n : less[k] = at[k + 1]

LEMMA ClimbLess ==
    ASSUME NEW n \in Nat, NEW i \in Nat, NEW top \in Nat,
           NEW at \in Climbs(n + 1, i .. top)
    PROVE  \E less \in Climbs(n, i + 1 .. top) : Follows(less, at, n)
<1> DEFINE less == [k \in 1 .. n |-> at[k + 1]]
<1>1. /\ at \in [1 .. n + 1 -> i .. top]
      /\ \A k, l \in 1 .. n + 1 : k < l => at[k] < at[l]
  BY DEF Climbs
<1>2. \A k \in 1 .. n : less[k] = at[k + 1] /\ k + 1 \in 1 .. n + 1 /\ 1 \in 1 .. n + 1
  OBVIOUS
<1>3. ASSUME NEW k \in 1 .. n PROVE less[k] \in i + 1 .. top
  <2>1. at[1] \in i .. top /\ at[k + 1] \in i .. top /\ at[1] < at[k + 1]
    BY <1>1, <1>2
  <2> QED
    BY <1>2, <2>1
<1>4. less \in [1 .. n -> i + 1 .. top]
  BY <1>3
<1>5. ASSUME NEW k \in 1 .. n, NEW l \in 1 .. n, k < l PROVE less[k] < less[l]
  <2>1. k + 1 < l + 1
    BY <1>5
  <2> HIDE DEF less
  <2> QED
    BY <1>1, <1>2, <2>1
<1>6. Follows(less, at, n)
  BY <1>2 DEF Follows
<1> HIDE DEF less
<1>7. less \in Climbs(n, i + 1 .. top)
  BY <1>4, <1>5 DEF Climbs
<1> QED
  BY <1>6, <1>7

(* Nothing of the first line is used, or it is.                            *)
LEMMA ClimbPast ==
    ASSUME NEW n \in Nat, NEW i \in Nat, NEW top \in Nat,
           NEW at \in Climbs(n, i .. top), n > 0, at[1] # i
    PROVE  at \in Climbs(n, i + 1 .. top)
<1>1. /\ at \in [1 .. n -> i .. top]
      /\ \A k, l \in 1 .. n : k < l => at[k] < at[l]
      /\ 1 \in 1 .. n
  BY DEF Climbs
<1>2. ASSUME NEW k \in 1 .. n PROVE at[k] \in i + 1 .. top
  <2>1. at[1] \in i .. top /\ at[k] \in i .. top /\ (k # 1 => at[1] < at[k])
    BY <1>1
  <2> QED
    BY <2>1
<1> QED
  BY <1>1, <1>2 DEF Climbs

LEMMA ClimbWider ==
    ASSUME NEW n \in Nat, NEW i \in Nat, NEW top \in Nat,
           NEW at \in Climbs(n, i + 1 .. top)
    PROVE  at \in Climbs(n, i .. top)
<1>1. \A k \in i + 1 .. top : k \in i .. top
  OBVIOUS
<1> QED
  BY <1>1 DEF Climbs

LEMMA ShareOn ==
    ASSUME NEW T, NEW old \in Seq(T), NEW new \in Seq(T),
           NEW i \in 1 .. Len(old), NEW j \in 1 .. Len(new), old[i] = new[j],
           NEW n \in Nat, ShareFrom(old, new, i + 1, j + 1, n)
    PROVE  ShareFrom(old, new, i, j, n + 1)
<1>1. PICK inOld \in Climbs(n, i + 1 .. Len(old)), inNew \in Climbs(n, j + 1 .. Len(new)) :
              \A k \in 1 .. n : old[inOld[k]] = new[inNew[k]]
  BY DEF ShareFrom
<1>2. Len(old) \in Nat /\ Len(new) \in Nat /\ i \in Nat /\ j \in Nat
      /\ i <= Len(old) /\ j <= Len(new)
  OBVIOUS
<1>3. PICK a \in Climbs(n + 1, i .. Len(old)) : Precedes(a, i, inOld, n)
  BY <1>2, ClimbOn
<1>4. PICK b \in Climbs(n + 1, j .. Len(new)) : Precedes(b, j, inNew, n)
  BY <1>2, ClimbOn
<1>5. ASSUME NEW k \in 1 .. n + 1 PROVE old[a[k]] = new[b[k]]
  <2>1. CASE k = 1
    BY <1>3, <1>4, <2>1 DEF Precedes
  <2>2. CASE k # 1
    <3>1. k - 1 \in 1 .. n /\ (k - 1) + 1 = k
      BY <2>2
    <3>2. a[k] = inOld[k - 1] /\ b[k] = inNew[k - 1]
      BY <1>3, <1>4, <3>1 DEF Precedes
    <3> QED
      BY <1>1, <3>1, <3>2
  <2> QED
    BY <2>1, <2>2
<1> QED
  BY <1>5 DEF ShareFrom

LEMMA ShareLess ==
    ASSUME NEW T, NEW old \in Seq(T), NEW new \in Seq(T), NEW i \in Nat, NEW j \in Nat,
           NEW n \in Nat, ShareFrom(old, new, i, j, n + 1)
    PROVE  ShareFrom(old, new, i + 1, j + 1, n)
<1>1. PICK inOld \in Climbs(n + 1, i .. Len(old)), inNew \in Climbs(n + 1, j .. Len(new)) :
              \A k \in 1 .. n + 1 : old[inOld[k]] = new[inNew[k]]
  BY DEF ShareFrom
<1>2. Len(old) \in Nat /\ Len(new) \in Nat
  OBVIOUS
<1>3. PICK a \in Climbs(n, i + 1 .. Len(old)) : Follows(a, inOld, n)
  BY <1>2, ClimbLess
<1>4. PICK b \in Climbs(n, j + 1 .. Len(new)) : Follows(b, inNew, n)
  BY <1>2, ClimbLess
<1>5. \A k \in 1 .. n : k + 1 \in 1 .. n + 1
  OBVIOUS
<1>6. \A k \in 1 .. n : old[a[k]] = new[b[k]]
  BY <1>1, <1>3, <1>4, <1>5 DEF Follows
<1> QED
  BY <1>6 DEF ShareFrom

LEMMA ShareWider ==
    ASSUME NEW T, NEW old \in Seq(T), NEW new \in Seq(T), NEW i \in Nat, NEW j \in Nat,
           NEW n \in Nat,
           ShareFrom(old, new, i + 1, j, n) \/ ShareFrom(old, new, i, j + 1, n)
    PROVE  ShareFrom(old, new, i, j, n)
<1>1. Len(old) \in Nat /\ Len(new) \in Nat
  OBVIOUS
<1>2. \A at \in Climbs(n, i + 1 .. Len(old)) : at \in Climbs(n, i .. Len(old))
  BY <1>1, ClimbWider
<1>3. \A at \in Climbs(n, j + 1 .. Len(new)) : at \in Climbs(n, j .. Len(new))
  BY <1>1, ClimbWider
<1> QED
  BY <1>2, <1>3 DEF ShareFrom

LEMMA ShareEither ==
    ASSUME NEW T, NEW old \in Seq(T), NEW new \in Seq(T), NEW i \in Nat, NEW j \in Nat,
           old[i] # new[j], NEW n \in Nat, n > 0, ShareFrom(old, new, i, j, n)
    PROVE  ShareFrom(old, new, i + 1, j, n) \/ ShareFrom(old, new, i, j + 1, n)
<1>1. PICK inOld \in Climbs(n, i .. Len(old)), inNew \in Climbs(n, j .. Len(new)) :
              \A k \in 1 .. n : old[inOld[k]] = new[inNew[k]]
  BY DEF ShareFrom
<1>2. Len(old) \in Nat /\ Len(new) \in Nat
  OBVIOUS
<1>3. inOld[1] # i \/ inNew[1] # j
  <2>1. 1 \in 1 .. n
    OBVIOUS
  <2>2. old[inOld[1]] = new[inNew[1]]
    BY <1>1, <2>1
  <2> QED
    BY <2>2
<1>4. CASE inOld[1] # i
  <2>1. inOld \in Climbs(n, i + 1 .. Len(old))
    BY <1>2, <1>4, ClimbPast
  <2> QED
    BY <1>1, <2>1 DEF ShareFrom
<1>5. CASE inNew[1] # j
  <2>1. inNew \in Climbs(n, j + 1 .. Len(new))
    BY <1>2, <1>5, ClimbPast
  <2> QED
    BY <1>1, <2>1 DEF ShareFrom
<1> QED
  BY <1>3, <1>4, <1>5

(* The table holds the longest lengths.                                    *)
LEMMA CountIsLongest ==
    ASSUME NEW T, NEW old \in Seq(T), NEW new \in Seq(T), NEW lcs, IsCount(lcs, old, new)
    PROVE  \A i \in 1 .. Len(old) + 1, j \in 1 .. Len(new) + 1 :
              IsLongest(lcs, old, new, i, j)
<1> DEFINE shown == {at \in Corners(old, new) : IsLongest(lcs, old, new, at[1], at[2])}
<1>1. \A i \in 1 .. Len(old) + 1, j \in 1 .. Len(new) + 1 :
        <<i, j>> \in shown <=> IsLongest(lcs, old, new, i, j)
  BY DEF Corners
<1>2. shown \in SUBSET Corners(old, new)
  OBVIOUS
<1> HIDE DEF shown
<1>3. ASSUME NEW i \in 1 .. Len(old) + 1, NEW j \in 1 .. Len(new) + 1,
             Follow(shown, old, new, i, j)
      PROVE  IsLongest(lcs, old, new, i, j)
  <2>1. /\ Len(old) \in Nat /\ Len(new) \in Nat /\ i \in Nat /\ j \in Nat
        /\ i <= Len(old) + 1
    OBVIOUS
  <2>2. lcs[<<i, j>>] = Counted(lcs, old, new, i, j)
    BY CountAt
  <2>3. CASE i > Len(old) \/ j > Len(new)
    <3>1. lcs[<<i, j>>] = 0
      BY <2>2, <2>3 DEF Counted
    <3>2. ShareFrom(old, new, i, j, 0)
          /\ \A n \in Nat : ShareFrom(old, new, i, j, n) => n <= 0
      BY <2>1, <2>3, ShareNothing
    <3>3. 0 \in 0 .. Len(old) + 1 - i
      BY <2>1
    <3> QED
      BY <3>1, <3>2, <3>3 DEF IsLongest
  <2>4. CASE i <= Len(old) /\ j <= Len(new)
    <3> DEFINE both == lcs[<<i + 1, j + 1>>]
               down == lcs[<<i + 1, j>>]
               right == lcs[<<i, j + 1>>]
    <3>1. i \in 1 .. Len(old) /\ j \in 1 .. Len(new)
          /\ i + 1 \in 1 .. Len(old) + 1 /\ j + 1 \in 1 .. Len(new) + 1
      BY <2>1, <2>4
    <3>2. /\ IsLongest(lcs, old, new, i + 1, j + 1)
          /\ IsLongest(lcs, old, new, i + 1, j)
          /\ IsLongest(lcs, old, new, i, j + 1)
      BY <1>1, <1>3, <2>4, <3>1 DEF Follow
    <3>3. /\ both \in 0 .. Len(old) + 1 - (i + 1)
          /\ ShareFrom(old, new, i + 1, j + 1, both)
          /\ \A n \in Nat : ShareFrom(old, new, i + 1, j + 1, n) => n <= both
      BY <3>2 DEF IsLongest
    <3>4. /\ down \in 0 .. Len(old) + 1 - (i + 1)
          /\ ShareFrom(old, new, i + 1, j, down)
          /\ \A n \in Nat : ShareFrom(old, new, i + 1, j, n) => n <= down
      BY <3>2 DEF IsLongest
    <3>5. /\ right \in 0 .. Len(old) + 1 - i
          /\ ShareFrom(old, new, i, j + 1, right)
          /\ \A n \in Nat : ShareFrom(old, new, i, j + 1, n) => n <= right
      BY <3>2 DEF IsLongest
    <3> HIDE DEF both, down, right
    <3>6. /\ both \in Nat /\ down \in Nat /\ right \in Nat
          /\ both + 1 \in 0 .. Len(old) + 1 - i
          /\ down \in 0 .. Len(old) + 1 - i
      <4>1. both \in Nat /\ both + 1 \in 0 .. Len(old) + 1 - i
        BY <2>1, <3>3
      <4>2. down \in Nat /\ down \in 0 .. Len(old) + 1 - i
        BY <2>1, <3>4
      <4>3. right \in Nat
        BY <2>1, <3>5
      <4> QED
        BY <4>1, <4>2, <4>3
    <3>7. /\ ~(i > Len(old) \/ j > Len(new))
          /\ old[i] = new[j] => lcs[<<i, j>>] = both + 1
          /\ old[i] # new[j] => lcs[<<i, j>>] = Larger(down, right)
      BY <2>1, <2>2, <2>4 DEF Counted, both, down, right
    <3>8. CASE old[i] = new[j]
      <4>1. ShareFrom(old, new, i, j, both + 1)
        BY <3>1, <3>3, <3>6, <3>8, ShareOn
      <4>2. ASSUME NEW n \in Nat, ShareFrom(old, new, i, j, n) PROVE n <= both + 1
        <5>1. CASE n = 0
          BY <3>6, <5>1
        <5>2. CASE n # 0
          <6>1. n - 1 \in Nat /\ (n - 1) + 1 = n
            BY <5>2
          <6>2. ShareFrom(old, new, i + 1, j + 1, n - 1)
            BY <2>1, <4>2, <6>1, ShareLess
          <6>3. n - 1 <= both
            BY <3>3, <6>1, <6>2
          <6> QED
            BY <3>6, <6>3
        <5> QED
          BY <5>1, <5>2
      <4> QED
        BY <3>6, <3>7, <3>8, <4>1, <4>2 DEF IsLongest
    <3>9. CASE old[i] # new[j]
      <4> DEFINE more == Larger(down, right)
      <4>1. more \in {down, right} /\ down <= more /\ right <= more
            /\ more \in Nat /\ more \in 0 .. Len(old) + 1 - i
        BY <3>5, <3>6 DEF Larger
      <4> HIDE DEF more
      <4>2. ShareFrom(old, new, i, j, more)
        <5>1. ShareFrom(old, new, i + 1, j, more) \/ ShareFrom(old, new, i, j + 1, more)
          BY <3>4, <3>5, <4>1
        <5> QED
          BY <2>1, <4>1, <5>1, ShareWider
      <4>3. ASSUME NEW n \in Nat, ShareFrom(old, new, i, j, n) PROVE n <= more
        <5>1. CASE n = 0
          BY <4>1, <5>1
        <5>2. CASE n > 0
          <6>1. \/ ShareFrom(old, new, i + 1, j, n)
                \/ ShareFrom(old, new, i, j + 1, n)
            BY <2>1, <3>9, <4>3, <5>2, ShareEither
          <6>2. n <= down \/ n <= right
            BY <3>4, <3>5, <6>1
          <6> QED
            BY <3>6, <4>1, <6>2
        <5> QED
          BY <5>1, <5>2
      <4> QED
        BY <3>7, <3>9, <4>1, <4>2, <4>3 DEF IsLongest, more
    <3> QED
      BY <3>8, <3>9
  <2> QED
    BY <2>1, <2>3, <2>4
<1>4. shown = Corners(old, new)
  BY <1>1, <1>2, <1>3, CornerInduction
<1>5. \A i \in 1 .. Len(old) + 1, j \in 1 .. Len(new) + 1 : <<i, j>> \in shown
  BY <1>4 DEF Corners
<1> QED
  BY <1>1, <1>5

LEMMA CountsLongestCommon ==
    ASSUME NEW T, NEW old \in Seq(T), NEW new \in Seq(T)
    PROVE  CommonFrom(old, new)[<<1, 1>>] = LongestCommon(old, new)
<1> DEFINE lcs == CommonFrom(old, new)
           most == lcs[<<1, 1>>]
           lengths == {n \in 0 .. Len(old) : Share(old, new, n)}
<1>1. Len(old) \in Nat /\ DOMAIN old = 1 .. Len(old) /\ DOMAIN new = 1 .. Len(new)
      /\ 1 \in 1 .. Len(old) + 1 /\ 1 \in 1 .. Len(new) + 1
  OBVIOUS
<1>2. IsCount(lcs, old, new)
  BY CountExists, CommonIsCount
<1> HIDE DEF lcs
<1>3. IsLongest(lcs, old, new, 1, 1)
  BY <1>1, <1>2, CountIsLongest
<1>4. \A n : ShareFrom(old, new, 1, 1, n) <=> Share(old, new, n)
  BY <1>1 DEF ShareFrom, Share
<1>5. most \in 0 .. Len(old) /\ Share(old, new, most)
      /\ \A n \in Nat : Share(old, new, n) => n <= most
  BY <1>1, <1>3, <1>4 DEF IsLongest
<1> HIDE DEF most
<1>6. most \in lengths /\ \A n \in lengths : n <= most
  BY <1>1, <1>5
<1>7. Max(lengths) \in lengths /\ \A n \in lengths : n <= Max(lengths)
  <2>1. lengths \in SUBSET (0 .. Len(old)) /\ lengths # {}
    BY <1>6
  <2> HIDE DEF lengths
  <2> QED
    BY <1>1, <2>1, LargestIsIn
<1>8. Max(lengths) = most
  <2>1. Max(lengths) \in Nat /\ most \in Nat
    BY <1>1, <1>5, <1>7
  <2>2. Max(lengths) <= most /\ most <= Max(lengths)
    BY <1>6, <1>7
  <2> HIDE DEF lengths
  <2> QED
    BY <2>1, <2>2
<1> QED
  BY <1>8 DEF LongestCommon, most, lcs

(* The walk.                                                               *)
Walked(walk, lcs, old, new, i, j) ==
    IF i > Len(old) THEN Marked("added", From(new, j))
    ELSE IF j > Len(new) THEN Marked("removed", From(old, i))
    ELSE IF old[i] = new[j] THEN Marked("kept", <<old[i]>>) \o walk[<<i + 1, j + 1>>]
    ELSE IF lcs[<<i + 1, j>>] >= lcs[<<i, j + 1>>]
         THEN Marked("removed", <<old[i]>>) \o walk[<<i + 1, j>>]
    ELSE Marked("added", <<new[j]>>) \o walk[<<i, j + 1>>]

IsWalk(walk, lcs, old, new) ==
    walk = [at \in Corners(old, new) |-> Walked(walk, lcs, old, new, at[1], at[2])]

LEMMA WalkedSame ==
    ASSUME NEW T, NEW old \in Seq(T), NEW new \in Seq(T), NEW lcs, NEW v, NEW w,
           NEW i \in Nat, NEW j \in Nat,
           i <= Len(old) /\ j <= Len(new) =>
             /\ v[<<i + 1, j + 1>>] = w[<<i + 1, j + 1>>]
             /\ v[<<i + 1, j>>] = w[<<i + 1, j>>]
             /\ v[<<i, j + 1>>] = w[<<i, j + 1>>]
    PROVE  Walked(v, lcs, old, new, i, j) = Walked(w, lcs, old, new, i, j)
  BY DEF Walked

LEMMA DiffedIsWalk ==
    ASSUME NEW old, NEW new, \E walk : IsWalk(walk, CommonFrom(old, new), old, new)
    PROVE  \E walk : /\ IsWalk(walk, CommonFrom(old, new), old, new)
                     /\ Diffed(old, new) = walk[<<1, 1>>]
<1> DEFINE walk == CHOOSE w : IsWalk(w, CommonFrom(old, new), old, new)
<1>1. Diffed(old, new) = walk[<<1, 1>>]
  BY DEF Diffed, IsWalk, Walked
<1>2. IsWalk(walk, CommonFrom(old, new), old, new)
  OBVIOUS
<1> HIDE DEF walk
<1> QED
  BY <1>1, <1>2

LEMMA WalkExists ==
    ASSUME NEW T, NEW old \in Seq(T), NEW new \in Seq(T), NEW lcs
    PROVE  \E walk : IsWalk(walk, lcs, old, new)
<1> DEFINE p == Len(old) + 1
           q == Len(new) + 1
           Right(walk, n) == \A i \in 1 .. p, j \in 1 .. q :
              (p - i) + (q - j) < n => walk[<<i, j>>] = Walked(walk, lcs, old, new, i, j)
           upTo == {n \in Nat : \E walk : Right(walk, n)}
<1>1. p \in Nat /\ q \in Nat
  OBVIOUS
<1> HIDE DEF p, q
<1>2. 0 \in upTo
  <2>1. Right(<< >>, 0)
    BY <1>1
  <2> QED
    BY <2>1
<1>3. ASSUME NEW n \in upTo PROVE n + 1 \in upTo
  <2>1. PICK walk : Right(walk, n)
    OBVIOUS
  <2> DEFINE Entry(i, j) == IF (p - i) + (q - j) = n
                            THEN Walked(walk, lcs, old, new, i, j) ELSE walk[<<i, j>>]
             more == [at \in (1 .. p) \X (1 .. q) |-> Entry(at[1], at[2])]
  <2>2. \A i \in 1 .. p, j \in 1 .. q : more[<<i, j>>] = Entry(i, j)
    OBVIOUS
  <2> HIDE DEF more
  <2>3. ASSUME NEW i \in 1 .. p, NEW j \in 1 .. q, (p - i) + (q - j) < n
        PROVE  more[<<i, j>>] = walk[<<i, j>>]
    BY <2>2, <2>3
  <2>4. ASSUME NEW i \in 1 .. p, NEW j \in 1 .. q, (p - i) + (q - j) < n + 1
        PROVE  Walked(more, lcs, old, new, i, j) = Walked(walk, lcs, old, new, i, j)
    <3>0. SUFFICES ASSUME i < p, j < q
                   PROVE  /\ more[<<i + 1, j + 1>>] = walk[<<i + 1, j + 1>>]
                          /\ more[<<i + 1, j>>] = walk[<<i + 1, j>>]
                          /\ more[<<i, j + 1>>] = walk[<<i, j + 1>>]
      <4>1. i \in Nat /\ j \in Nat
        BY <1>1
      <4>2. i <= Len(old) /\ j <= Len(new) => i < p /\ j < q
        BY <1>1, <4>1 DEF p, q
      <4> HIDE DEF upTo
      <4> QED
        BY <4>1, <4>2, WalkedSame
    <3>1. /\ i + 1 \in 1 .. p /\ j + 1 \in 1 .. q
          /\ (p - (i + 1)) + (q - (j + 1)) < n
          /\ (p - (i + 1)) + (q - j) < n
          /\ (p - i) + (q - (j + 1)) < n
      BY <1>1, <2>4, <3>0
    <3> HIDE DEF upTo
    <3> QED
      BY <2>3, <3>1
  <2>5. Right(more, n + 1)
    <3> SUFFICES ASSUME NEW i \in 1 .. p, NEW j \in 1 .. q, (p - i) + (q - j) < n + 1
                 PROVE  more[<<i, j>>] = Walked(more, lcs, old, new, i, j)
      OBVIOUS
    <3>1. Walked(more, lcs, old, new, i, j) = Walked(walk, lcs, old, new, i, j)
      BY <2>4
    <3>2. (p - i) + (q - j) = n \/ (p - i) + (q - j) < n
      BY <1>1
    <3>3. (p - i) + (q - j) < n => walk[<<i, j>>] = Walked(walk, lcs, old, new, i, j)
      BY <2>1
    <3> QED
      BY <2>2, <3>1, <3>2, <3>3
  <2>6. \E f : Right(f, n + 1)
    <3> HIDE DEF Right
    <3> QED
      BY <2>5
  <2>7. n + 1 \in Nat
    OBVIOUS
  <2> HIDE DEF Right
  <2> QED
    BY <2>6, <2>7
<1>4. upTo = Nat
  <2>1. upTo \in SUBSET Nat
    OBVIOUS
  <2> HIDE DEF upTo
  <2> QED
    BY <1>2, <1>3, <2>1, NumberInduction
<1>5. PICK walk : Right(walk, p + q + 1)
  <2>1. p + q + 1 \in upTo
    <3> HIDE DEF upTo
    <3> QED
      BY <1>1, <1>4
  <2> QED
    BY <2>1
<1> DEFINE whole == [at \in (1 .. p) \X (1 .. q) |-> walk[at]]
<1>6. \A i \in 1 .. p, j \in 1 .. q : whole[<<i, j>>] = walk[<<i, j>>]
  OBVIOUS
<1> HIDE DEF whole
<1>7. ASSUME NEW i \in 1 .. p, NEW j \in 1 .. q
      PROVE  whole[<<i, j>>] = Walked(whole, lcs, old, new, i, j)
  <2>1. walk[<<i, j>>] = Walked(walk, lcs, old, new, i, j)
    <3>1. (p - i) + (q - j) < p + q + 1
      BY <1>1
    <3> QED
      BY <1>5, <3>1
  <2>2. Walked(walk, lcs, old, new, i, j) = Walked(whole, lcs, old, new, i, j)
    <3>0. SUFFICES ASSUME i < p, j < q
                   PROVE  /\ whole[<<i + 1, j + 1>>] = walk[<<i + 1, j + 1>>]
                          /\ whole[<<i + 1, j>>] = walk[<<i + 1, j>>]
                          /\ whole[<<i, j + 1>>] = walk[<<i, j + 1>>]
      <4>1. i \in Nat /\ j \in Nat
        BY <1>1
      <4>2. i <= Len(old) /\ j <= Len(new) => i < p /\ j < q
        BY <1>1, <4>1 DEF p, q
      <4> HIDE DEF upTo
      <4> QED
        BY <4>1, <4>2, WalkedSame
    <3>1. i + 1 \in 1 .. p /\ j + 1 \in 1 .. q
      BY <1>1, <3>0
    <3> QED
      BY <1>6, <3>1
  <2> QED
    BY <1>6, <2>1, <2>2
<1>8. IsWalk(whole, lcs, old, new)
  <2>1. \A at \in (1 .. p) \X (1 .. q) :
          whole[at] = Walked(whole, lcs, old, new, at[1], at[2])
    BY <1>7
  <2>2. whole = [at \in (1 .. p) \X (1 .. q) |-> whole[at]]
    BY DEF whole
  <2> QED
    BY <2>1, <2>2 DEF IsWalk, Corners, p, q
<1> QED
  BY <1>8

LEMMA WalkAt ==
    ASSUME NEW T, NEW old \in Seq(T), NEW new \in Seq(T), NEW lcs, NEW walk,
           IsWalk(walk, lcs, old, new),
           NEW i \in 1 .. Len(old) + 1, NEW j \in 1 .. Len(new) + 1
    PROVE  walk[<<i, j>>] = Walked(walk, lcs, old, new, i, j)
  BY DEF IsWalk, Corners

(* What is read of a diff, line by line.                                   *)
Entries(T) == [mark : {"kept", "removed", "added"}, line : T]

LineOf(marks, T) ==
    [entry \in Entries(T) |-> IF entry.mark \in marks THEN <<entry.line>> ELSE << >>]

LEMMA MarkedPieces ==
    ASSUME NEW T, NEW marks
    PROVE  /\ IsPiece(LineOf(marks, T), Entries(T), T)
           /\ \A diff \in Seq(Entries(T)) :
                LinesMarked(diff, marks) = Gathered(diff, LineOf(marks, T))
<1>1. IsPiece(LineOf(marks, T), Entries(T), T)
  <2>1. \A entry \in Entries(T) :
          (IF entry.mark \in marks THEN <<entry.line>> ELSE << >>) \in Seq(T)
    BY DEF Entries
  <2> QED
    BY <2>1 DEF IsPiece, LineOf
<1>2. ASSUME NEW diff \in Seq(Entries(T))
      PROVE  LinesMarked(diff, marks) = Gathered(diff, LineOf(marks, T))
  <2>1. \A k \in DOMAIN diff : diff[k] \in Entries(T)
    BY ElementOfSeq, LenProperties
  <2>2. \A k \in DOMAIN diff :
          LineOf(marks, T)[diff[k]]
            = IF diff[k].mark \in marks THEN <<diff[k].line>> ELSE << >>
    BY <2>1 DEF LineOf
  <2> QED
    BY <2>2 DEF LinesMarked, Gathered, Pieces
<1> QED
  BY <1>1, <1>2

LEMMA LinesTold ==
    ASSUME NEW T, NEW diff \in Seq(Entries(T)), NEW marks
    PROVE  LinesMarked(diff, marks) \in Seq(T)
<1> DEFINE piece == LineOf(marks, T)
<1>1. /\ IsPiece(piece, Entries(T), T)
      /\ LinesMarked(diff, marks) = Gathered(diff, piece)
  BY MarkedPieces
<1> HIDE DEF piece
<1> QED
  BY <1>1, PiecesTyped

(* What lines with one mark show behind some marks, and one line more.     *)
Visible(mark, marks, lines) == IF mark \in marks THEN lines ELSE << >>

OneMore(mark, marks, line, lines) ==
    IF mark \in marks THEN <<line>> \o lines ELSE lines

IsOn(diff, mark, line, rest) == diff = Marked(mark, <<line>>) \o rest

LEMMA MarkedLines ==
    ASSUME NEW T, NEW lines \in Seq(T), NEW mark \in {"kept", "removed", "added"}, NEW marks
    PROVE  /\ Marked(mark, lines) \in Seq(Entries(T))
           /\ LinesMarked(Marked(mark, lines), marks) = Visible(mark, marks, lines)
<1> DEFINE diff == Marked(mark, lines)
<1>1. /\ Len(lines) \in Nat /\ DOMAIN lines = 1 .. Len(lines)
      /\ \A k \in DOMAIN lines : lines[k] \in T
  BY LenProperties, ElementOfSeq
<1>2. /\ DOMAIN diff = 1 .. Len(lines)
      /\ \A k \in DOMAIN lines : diff[k] = [mark |-> mark, line |-> lines[k]]
  BY <1>1 DEF Marked
<1>3. diff \in Seq(Entries(T))
  <2>1. \A k \in 1 .. Len(lines) : diff[k] \in Entries(T)
    BY <1>1, <1>2 DEF Entries
  <2>2. diff = [k \in 1 .. Len(lines) |-> diff[k]]
    BY <1>1 DEF Marked
  <2> HIDE DEF diff
  <2> QED
    BY <1>1, <2>1, <2>2
<1> DEFINE pieces == [k \in DOMAIN diff |->
                        IF diff[k].mark \in marks THEN <<diff[k].line>> ELSE << >>]
<1>4. LinesMarked(diff, marks) = FlattenSeq(pieces)
  BY DEF LinesMarked
<1> HIDE DEF diff
<1>5. CASE mark \in marks
  <2>1. pieces = [k \in 1 .. Len(lines) |-> <<lines[k]>>]
    BY <1>1, <1>2, <1>5
  <2>2. FlattenSeq(pieces) = lines
    BY <2>1, FlatSingles
  <2> QED
    BY <1>3, <1>4, <1>5, <2>2 DEF diff, Visible
<1>6. CASE mark \notin marks
  <2>1. \A k \in 1 .. Len(lines) : pieces[k] = << >>
    BY <1>1, <1>2, <1>6
  <2>2. pieces \in Seq({<< >>})
    <3>1. pieces = [k \in 1 .. Len(lines) |-> pieces[k]]
      BY <1>2
    <3> HIDE DEF pieces
    <3> QED
      BY <1>1, <2>1, <3>1
  <2>3. FlattenSeq(pieces) = << >>
    <3> HIDE DEF pieces
    <3> QED
      BY <2>2, FlatNothing
  <2> QED
    BY <1>3, <1>4, <1>6, <2>3 DEF diff, Visible
<1> QED
  BY <1>5, <1>6

(* One entry more in front.                                                *)
LEMMA MarkedOn ==
    ASSUME NEW T, NEW line \in T, NEW mark \in {"kept", "removed", "added"},
           NEW rest \in Seq(Entries(T)),
           NEW diff, IsOn(diff, mark, line, rest)
    PROVE  /\ diff \in Seq(Entries(T))
           /\ \A marks : LinesMarked(diff, marks)
                           = OneMore(mark, marks, line, LinesMarked(rest, marks))
<1> DEFINE first == Marked(mark, <<line>>)
<1>1. /\ first \in Seq(Entries(T))
      /\ \A marks : LinesMarked(first, marks) = Visible(mark, marks, <<line>>)
  <2> DEFINE lines == <<line>>
  <2>1. lines \in Seq(T)
    OBVIOUS
  <2> HIDE DEF lines
  <2>2. Marked(mark, lines) \in Seq(Entries(T))
    BY <2>1, MarkedLines
  <2>3. \A marks : LinesMarked(Marked(mark, lines), marks) = Visible(mark, marks, lines)
    BY <2>1, MarkedLines
  <2> QED
    BY <2>2, <2>3 DEF lines
<1>2. diff = first \o rest
  BY DEF IsOn
<1> HIDE DEF first
<1>3. diff \in Seq(Entries(T))
  BY <1>1, <1>2, ConcatProperties
<1>4. ASSUME NEW marks
      PROVE  LinesMarked(diff, marks)
               = OneMore(mark, marks, line, LinesMarked(rest, marks))
  <2> DEFINE piece == LineOf(marks, T)
  <2>1. /\ IsPiece(piece, Entries(T), T)
        /\ \A d \in Seq(Entries(T)) : LinesMarked(d, marks) = Gathered(d, piece)
    BY MarkedPieces
  <2> HIDE DEF piece
  <2>2. Gathered(first \o rest, piece) = Gathered(first, piece) \o Gathered(rest, piece)
    BY <1>1, <2>1, GatheredConcat
  <2>3. LinesMarked(diff, marks) = LinesMarked(first, marks) \o LinesMarked(rest, marks)
    BY <1>1, <1>2, <1>3, <2>1, <2>2
  <2>4. << >> \o LinesMarked(rest, marks) = LinesMarked(rest, marks)
    <3>1. LinesMarked(rest, marks) \in Seq(T)
      BY <2>1, PiecesTyped
    <3> QED
      BY <3>1, ConcatEmptySeq
  <2> QED
    BY <1>1, <2>3, <2>4 DEF Visible, OneMore
<1> QED
  BY <1>3, <1>4

LEMMA FromSteps ==
    ASSUME NEW T, NEW lines \in Seq(T)
    PROVE  /\ From(lines, 1) = lines
           /\ From(lines, Len(lines) + 1) = << >>
           /\ \A i \in 1 .. Len(lines) + 1 : From(lines, i) \in Seq(T)
           /\ \A i \in 1 .. Len(lines) : From(lines, i) = <<lines[i]>> \o From(lines, i + 1)
<1>1. Len(lines) \in Nat /\ DOMAIN lines = 1 .. Len(lines)
  OBVIOUS
<1>2. \A i \in 1 .. Len(lines) + 1 :
        /\ From(lines, i) \in Seq(T)
        /\ Len(From(lines, i)) = Len(lines) + 1 - i
        /\ \A k \in 1 .. Len(lines) + 1 - i : From(lines, i)[k] = lines[i + (k - 1)]
  BY <1>1, SubSeqProperties DEF From
<1>3. From(lines, 1) = lines
  <2>0. 1 \in 1 .. Len(lines) + 1 /\ Len(lines) + 1 - 1 = Len(lines)
    BY <1>1
  <2>1. /\ From(lines, 1) \in Seq(T) /\ Len(From(lines, 1)) = Len(lines)
        /\ \A k \in 1 .. Len(lines) : From(lines, 1)[k] = lines[1 + (k - 1)]
    BY <1>2, <2>0
  <2>2. \A k \in 1 .. Len(lines) : 1 + (k - 1) = k
    BY <1>1
  <2>3. \A k \in 1 .. Len(lines) : From(lines, 1)[k] = lines[k]
    BY <2>1, <2>2
  <2> QED
    BY <2>1, <2>3, SeqEqual
<1>4. From(lines, Len(lines) + 1) = << >>
  <2>1. /\ From(lines, Len(lines) + 1) \in Seq(T)
        /\ Len(From(lines, Len(lines) + 1)) = 0
    BY <1>1, <1>2
  <2> QED
    BY <2>1, EmptySeq
<1>5. ASSUME NEW i \in 1 .. Len(lines)
      PROVE  From(lines, i) = <<lines[i]>> \o From(lines, i + 1)
  <2> DEFINE l == From(lines, i)
             rest == From(lines, i + 1)
             r == <<lines[i]>> \o rest
  <2>1. i \in Nat /\ i \in 1 .. Len(lines) + 1 /\ i + 1 \in 1 .. Len(lines) + 1
    BY <1>1
  <2>2. /\ l \in Seq(T) /\ Len(l) = Len(lines) + 1 - i
        /\ \A k \in 1 .. Len(lines) + 1 - i : l[k] = lines[i + (k - 1)]
    BY <1>2, <2>1
  <2>3. /\ rest \in Seq(T) /\ Len(rest) = Len(lines) - i
        /\ \A k \in 1 .. Len(lines) - i : rest[k] = lines[i + k]
    <3> DEFINE m == Len(lines)
    <3>0. m \in Nat /\ i \in Nat
      BY <1>1, <2>1
    <3> HIDE DEF m
    <3>1. m + 1 - (i + 1) = m - i
      BY <3>0
    <3>2. \A k \in 1 .. m - i : (i + 1) + (k - 1) = i + k
      BY <3>0
    <3>3. /\ rest \in Seq(T) /\ Len(rest) = Len(lines) - i
          /\ \A k \in 1 .. Len(lines) - i : rest[k] = lines[(i + 1) + (k - 1)]
      <4> DEFINE next == i + 1
      <4>1. next \in 1 .. Len(lines) + 1
        BY <2>1
      <4> HIDE DEF next
      <4>2. /\ From(lines, next) \in Seq(T)
            /\ Len(From(lines, next)) = Len(lines) + 1 - next
            /\ \A k \in 1 .. Len(lines) + 1 - next :
                 From(lines, next)[k] = lines[next + (k - 1)]
        BY <1>2, <4>1
      <4>3. Len(lines) + 1 - next = Len(lines) - i
        BY <3>1 DEF next, m
      <4> QED
        BY <4>2, <4>3 DEF next
    <3> HIDE DEF rest
    <3> QED
      BY <3>2, <3>3 DEF m
  <2> HIDE DEF l, rest
  <2>4. <<lines[i]>> \in Seq(T) /\ Len(<<lines[i]>>) = 1 /\ <<lines[i]>>[1] = lines[i]
    BY <1>1
  <2>5. /\ r \in Seq(T) /\ Len(r) = Len(lines) + 1 - i
        /\ \A k \in 1 .. Len(lines) + 1 - i :
             r[k] = IF k <= 1 THEN lines[i] ELSE rest[k - 1]
    BY <1>1, <2>1, <2>3, <2>4, ConcatProperties
  <2> HIDE DEF r
  <2>6. ASSUME NEW k \in 1 .. Len(lines) + 1 - i PROVE l[k] = r[k]
    <3>1. CASE k = 1
      BY <1>1, <2>1, <2>2, <2>5, <3>1
    <3>2. CASE k # 1
      <4>1. k - 1 \in 1 .. Len(lines) - i /\ ~(k <= 1)
        BY <1>1, <2>1, <3>2
      <4>2. rest[k - 1] = lines[i + (k - 1)]
        BY <2>3, <4>1
      <4> QED
        BY <2>2, <2>5, <4>1, <4>2
    <3> QED
      BY <3>1, <3>2
  <2>7. l = r
    BY <2>2, <2>5, <2>6, SeqEqual
  <2> QED
    BY <2>7 DEF l, r, rest
<1> QED
  BY <1>2, <1>3, <1>4, <1>5

(* The two texts and what they keep in common can be read of the diff.     *)
Tells(walk, lcs, old, new, i, j) ==
    LET diff == walk[<<i, j>>]
    IN  /\ LinesMarked(diff, {"kept", "removed"}) = From(old, i)
        /\ LinesMarked(diff, {"kept", "added"}) = From(new, j)
        /\ Len(LinesMarked(diff, {"kept"})) = lcs[<<i, j>>]

LEMMA WalkTells ==
    ASSUME NEW T, NEW old \in Seq(T), NEW new \in Seq(T), NEW lcs, NEW walk,
           IsCount(lcs, old, new), IsWalk(walk, lcs, old, new)
    PROVE  \A i \in 1 .. Len(old) + 1, j \in 1 .. Len(new) + 1 :
              /\ walk[<<i, j>>] \in Seq(Entries(T))
              /\ Tells(walk, lcs, old, new, i, j)
<1> DEFINE Good(i, j) == /\ walk[<<i, j>>] \in Seq(Entries(T))
                         /\ Tells(walk, lcs, old, new, i, j)
           shown == {at \in Corners(old, new) : Good(at[1], at[2])}
<1>1. \A i \in 1 .. Len(old) + 1, j \in 1 .. Len(new) + 1 :
        <<i, j>> \in shown <=> Good(i, j)
  BY DEF Corners
<1>2. shown \in SUBSET Corners(old, new)
  OBVIOUS
<1> HIDE DEF shown
<1>3. ASSUME NEW i \in 1 .. Len(old) + 1, NEW j \in 1 .. Len(new) + 1,
             Follow(shown, old, new, i, j)
      PROVE  Good(i, j)
  <2> DEFINE diff == walk[<<i, j>>]
  <2>1. /\ Len(old) \in Nat /\ Len(new) \in Nat /\ i \in Nat /\ j \in Nat
        /\ i <= Len(old) + 1 /\ j <= Len(new) + 1
    OBVIOUS
  <2>2. diff = Walked(walk, lcs, old, new, i, j)
    BY WalkAt
  <2>3. lcs[<<i, j>>] = Counted(lcs, old, new, i, j)
    BY CountAt
  <2> HIDE DEF diff
  <2>4. CASE i > Len(old)
    <3> DEFINE rest == From(new, j)
    <3>1. diff = Marked("added", rest) /\ lcs[<<i, j>>] = 0
      BY <2>2, <2>3, <2>4 DEF Walked, Counted
    <3>2. rest \in Seq(T)
      BY FromSteps
    <3>3. From(old, i) = << >>
      <4>1. i = Len(old) + 1
        BY <2>1, <2>4
      <4> QED
        BY <4>1, FromSteps
    <3> HIDE DEF rest
    <3>4. /\ diff \in Seq(Entries(T))
          /\ \A marks : LinesMarked(diff, marks) = Visible("added", marks, rest)
      BY <3>1, <3>2, MarkedLines
    <3>5. /\ LinesMarked(diff, {"kept", "removed"}) = << >>
          /\ LinesMarked(diff, {"kept", "added"}) = rest
          /\ LinesMarked(diff, {"kept"}) = << >>
      BY <3>4 DEF Visible
    <3>6. Len(<< >>) = 0
      OBVIOUS
    <3> QED
      BY <3>1, <3>3, <3>4, <3>5, <3>6 DEF Tells, diff, rest
  <2>5. CASE i <= Len(old) /\ j > Len(new)
    <3> DEFINE rest == From(old, i)
    <3>1. diff = Marked("removed", rest) /\ lcs[<<i, j>>] = 0
      BY <2>1, <2>2, <2>3, <2>5 DEF Walked, Counted
    <3>2. rest \in Seq(T)
      BY FromSteps
    <3>3. From(new, j) = << >>
      <4>1. j = Len(new) + 1
        BY <2>1, <2>5
      <4> QED
        BY <4>1, FromSteps
    <3> HIDE DEF rest
    <3>4. /\ diff \in Seq(Entries(T))
          /\ \A marks : LinesMarked(diff, marks) = Visible("removed", marks, rest)
      BY <3>1, <3>2, MarkedLines
    <3>5. /\ LinesMarked(diff, {"kept", "removed"}) = rest
          /\ LinesMarked(diff, {"kept", "added"}) = << >>
          /\ LinesMarked(diff, {"kept"}) = << >>
      BY <3>4 DEF Visible
    <3>6. Len(<< >>) = 0
      OBVIOUS
    <3> QED
      BY <3>1, <3>3, <3>4, <3>5, <3>6 DEF Tells, diff, rest
  <2>6. CASE i <= Len(old) /\ j <= Len(new)
    <3>1. /\ i \in 1 .. Len(old) /\ j \in 1 .. Len(new)
          /\ i + 1 \in 1 .. Len(old) + 1 /\ j + 1 \in 1 .. Len(new) + 1
          /\ ~(i > Len(old)) /\ ~(j > Len(new))
      BY <2>1, <2>6
    <3>2. Good(i + 1, j + 1) /\ Good(i + 1, j) /\ Good(i, j + 1)
      <4>1. /\ <<i + 1, j + 1>> \in shown /\ <<i + 1, j>> \in shown /\ <<i, j + 1>> \in shown
        BY <1>3, <2>6 DEF Follow
      <4> HIDE DEF Good
      <4> QED
        BY <1>1, <3>1, <4>1
    <3>3. old[i] \in T /\ new[j] \in T
      BY <3>1
    <3>4. /\ From(old, i) = <<old[i]>> \o From(old, i + 1)
          /\ From(new, j) = <<new[j]>> \o From(new, j + 1)
      BY <3>1, FromSteps
    <3>5. /\ lcs[<<i + 1, j + 1>>] \in Nat
          /\ lcs[<<i + 1, j>>] \in Nat
          /\ lcs[<<i, j + 1>>] \in Nat
      <4>1. \A k \in 1 .. Len(old) + 1, l \in 1 .. Len(new) + 1 : lcs[<<k, l>>] \in Nat
        <5>1. \A k \in 1 .. Len(old) + 1, l \in 1 .. Len(new) + 1 :
                IsLongest(lcs, old, new, k, l)
          BY CountIsLongest
        <5>2. \A k \in 1 .. Len(old) + 1, l \in 1 .. Len(new) + 1 :
                lcs[<<k, l>>] \in 0 .. Len(old) + 1 - k
          BY <5>1 DEF IsLongest
        <5>3. \A k \in 1 .. Len(old) + 1 : 0 .. Len(old) + 1 - k \subseteq Nat
          BY <2>1
        <5> QED
          BY <5>2, <5>3
      <4> QED
        BY <3>1, <4>1
    <3>6. CASE old[i] = new[j]
      <4> DEFINE rest == walk[<<i + 1, j + 1>>]
                 both == LinesMarked(rest, {"kept"})
      <4>1. /\ IsOn(diff, "kept", old[i], rest)
            /\ lcs[<<i, j>>] = lcs[<<i + 1, j + 1>>] + 1
        <5>1. IsOn(diff, "kept", old[i], rest)
          BY <2>2, <3>1, <3>6, Zenon DEF Walked, IsOn
        <5>2. lcs[<<i, j>>] = lcs[<<i + 1, j + 1>>] + 1
          BY <2>3, <3>1, <3>5, <3>6 DEF Counted
        <5> HIDE DEF rest
        <5> QED
          BY <5>1, <5>2
      <4>2. /\ rest \in Seq(Entries(T))
            /\ LinesMarked(rest, {"kept", "removed"}) = From(old, i + 1)
            /\ LinesMarked(rest, {"kept", "added"}) = From(new, j + 1)
            /\ Len(both) = lcs[<<i + 1, j + 1>>]
        BY <3>2 DEF Tells
      <4> HIDE DEF rest, both
      <4>3. /\ diff \in Seq(Entries(T))
            /\ \A marks : LinesMarked(diff, marks)
                            = OneMore("kept", marks, old[i], LinesMarked(rest, marks))
        <5> DEFINE line == old[i]
                   mark == "kept"
        <5>1. line \in T /\ mark \in {"kept", "removed", "added"}
              /\ rest \in Seq(Entries(T)) /\ IsOn(diff, mark, line, rest)
          BY <3>3, <4>1, <4>2
        <5> HIDE DEF line, mark
        <5>2. diff \in Seq(Entries(T))
          BY <5>1, MarkedOn
        <5>3. \A marks : LinesMarked(diff, marks)
                           = OneMore(mark, marks, line, LinesMarked(rest, marks))
          BY <5>1, MarkedOn
        <5> QED
          BY <5>2, <5>3 DEF line, mark
      <4>4. /\ LinesMarked(diff, {"kept", "removed"})
                 = <<old[i]>> \o LinesMarked(rest, {"kept", "removed"})
            /\ LinesMarked(diff, {"kept", "added"})
                 = <<old[i]>> \o LinesMarked(rest, {"kept", "added"})
            /\ LinesMarked(diff, {"kept"}) = <<old[i]>> \o both
        BY <4>3 DEF OneMore, both
      <4>5. <<old[i]>> \o both \in Seq(T) /\ Len(<<old[i]>> \o both) = Len(both) + 1
        <5>1. <<old[i]>> \in Seq(T) /\ Len(<<old[i]>>) = 1
          BY <3>3
        <5>2. both \in Seq(T) /\ Len(both) \in Nat
          <6>1. both \in Seq(T)
            BY <4>2, LinesTold DEF both
          <6> QED
            BY <6>1, LenProperties
        <5>3. /\ <<old[i]>> \o both \in Seq(T)
              /\ Len(<<old[i]>> \o both) = Len(<<old[i]>>) + Len(both)
          BY <5>1, <5>2, ConcatProperties
        <5> QED
          BY <5>1, <5>2, <5>3
      <4> QED
        BY <3>4, <3>6, <4>1, <4>2, <4>3, <4>4, <4>5 DEF Tells, diff
    <3>7. CASE old[i] # new[j] /\ lcs[<<i + 1, j>>] >= lcs[<<i, j + 1>>]
      <4> DEFINE rest == walk[<<i + 1, j>>]
      <4>1. /\ IsOn(diff, "removed", old[i], rest)
            /\ lcs[<<i, j>>] = lcs[<<i + 1, j>>]
        <5>1. IsOn(diff, "removed", old[i], rest)
          BY <2>2, <3>1, <3>7, Zenon DEF Walked, IsOn
        <5>2. lcs[<<i, j>>] = lcs[<<i + 1, j>>]
          BY <2>3, <3>1, <3>5, <3>7 DEF Counted, Larger
        <5> HIDE DEF rest
        <5> QED
          BY <5>1, <5>2
      <4>2. /\ rest \in Seq(Entries(T))
            /\ LinesMarked(rest, {"kept", "removed"}) = From(old, i + 1)
            /\ LinesMarked(rest, {"kept", "added"}) = From(new, j)
            /\ Len(LinesMarked(rest, {"kept"})) = lcs[<<i + 1, j>>]
        BY <3>2 DEF Tells
      <4> HIDE DEF rest
      <4>3. /\ diff \in Seq(Entries(T))
            /\ \A marks : LinesMarked(diff, marks)
                            = OneMore("removed", marks, old[i], LinesMarked(rest, marks))
        <5> DEFINE line == old[i]
                   mark == "removed"
        <5>1. line \in T /\ mark \in {"kept", "removed", "added"}
              /\ rest \in Seq(Entries(T)) /\ IsOn(diff, mark, line, rest)
          BY <3>3, <4>1, <4>2
        <5> HIDE DEF line, mark
        <5>2. diff \in Seq(Entries(T))
          BY <5>1, MarkedOn
        <5>3. \A marks : LinesMarked(diff, marks)
                           = OneMore(mark, marks, line, LinesMarked(rest, marks))
          BY <5>1, MarkedOn
        <5> QED
          BY <5>2, <5>3 DEF line, mark
      <4>4. /\ LinesMarked(diff, {"kept", "removed"})
                 = <<old[i]>> \o LinesMarked(rest, {"kept", "removed"})
            /\ LinesMarked(diff, {"kept", "added"}) = LinesMarked(rest, {"kept", "added"})
            /\ LinesMarked(diff, {"kept"}) = LinesMarked(rest, {"kept"})
        BY <4>3 DEF OneMore
      <4> QED
        BY <3>4, <4>1, <4>2, <4>3, <4>4 DEF Tells, diff
    <3>8. CASE old[i] # new[j] /\ ~(lcs[<<i + 1, j>>] >= lcs[<<i, j + 1>>])
      <4> DEFINE rest == walk[<<i, j + 1>>]
      <4>1. /\ IsOn(diff, "added", new[j], rest)
            /\ lcs[<<i, j>>] = lcs[<<i, j + 1>>]
        <5>1. IsOn(diff, "added", new[j], rest)
          BY <2>2, <3>1, <3>8, Zenon DEF Walked, IsOn
        <5>2. lcs[<<i, j>>] = lcs[<<i, j + 1>>]
          BY <2>3, <3>1, <3>5, <3>8 DEF Counted, Larger
        <5> HIDE DEF rest
        <5> QED
          BY <5>1, <5>2
      <4>2. /\ rest \in Seq(Entries(T))
            /\ LinesMarked(rest, {"kept", "removed"}) = From(old, i)
            /\ LinesMarked(rest, {"kept", "added"}) = From(new, j + 1)
            /\ Len(LinesMarked(rest, {"kept"})) = lcs[<<i, j + 1>>]
        BY <3>2 DEF Tells
      <4> HIDE DEF rest
      <4>3. /\ diff \in Seq(Entries(T))
            /\ \A marks : LinesMarked(diff, marks)
                            = OneMore("added", marks, new[j], LinesMarked(rest, marks))
        <5> DEFINE line == new[j]
                   mark == "added"
        <5>1. line \in T /\ mark \in {"kept", "removed", "added"}
              /\ rest \in Seq(Entries(T)) /\ IsOn(diff, mark, line, rest)
          BY <3>3, <4>1, <4>2
        <5> HIDE DEF line, mark
        <5>2. diff \in Seq(Entries(T))
          BY <5>1, MarkedOn
        <5>3. \A marks : LinesMarked(diff, marks)
                           = OneMore(mark, marks, line, LinesMarked(rest, marks))
          BY <5>1, MarkedOn
        <5> QED
          BY <5>2, <5>3 DEF line, mark
      <4>4. /\ LinesMarked(diff, {"kept", "removed"}) = LinesMarked(rest, {"kept", "removed"})
            /\ LinesMarked(diff, {"kept", "added"})
                 = <<new[j]>> \o LinesMarked(rest, {"kept", "added"})
            /\ LinesMarked(diff, {"kept"}) = LinesMarked(rest, {"kept"})
        BY <4>3 DEF OneMore
      <4> QED
        BY <3>4, <4>1, <4>2, <4>3, <4>4 DEF Tells, diff
    <3> QED
      BY <3>6, <3>7, <3>8
  <2> QED
    BY <2>1, <2>4, <2>5, <2>6
<1> HIDE DEF Good
<1>4. shown = Corners(old, new)
  BY <1>1, <1>2, <1>3, CornerInduction
<1>5. \A i \in 1 .. Len(old) + 1, j \in 1 .. Len(new) + 1 : <<i, j>> \in shown
  BY <1>4 DEF Corners
<1>6. \A i \in 1 .. Len(old) + 1, j \in 1 .. Len(new) + 1 : Good(i, j)
  BY <1>1, <1>5
<1> QED
  BY <1>6 DEF Good

(* The diff of two texts of any lengths reads as the old one without its   *)
(* added lines, as the new one without its removed lines, and keeps as     *)
(* many lines as the texts have in common (UnifiedDiff).                   *)
THEOREM DiffTellsTheChange ==
    ASSUME NEW T, NEW old \in Seq(T), NEW new \in Seq(T)
    PROVE  TellsTheChange(Diffed(old, new), old, new)
<1> DEFINE lcs == CommonFrom(old, new)
<1>1. IsCount(lcs, old, new)
  BY CountExists, CommonIsCount
<1>2. PICK walk : IsWalk(walk, lcs, old, new) /\ Diffed(old, new) = walk[<<1, 1>>]
  BY WalkExists, DiffedIsWalk
<1>3. lcs[<<1, 1>>] = LongestCommon(old, new)
  BY CountsLongestCommon
<1> HIDE DEF lcs
<1>4. Tells(walk, lcs, old, new, 1, 1)
  <2>1. 1 \in 1 .. Len(old) + 1 /\ 1 \in 1 .. Len(new) + 1
    OBVIOUS
  <2> QED
    BY <1>1, <1>2, <2>1, WalkTells
<1>5. From(old, 1) = old /\ From(new, 1) = new
  BY FromSteps
<1> QED
  BY <1>2, <1>3, <1>4, <1>5 DEF Tells, TellsTheChange
=============================================================================
