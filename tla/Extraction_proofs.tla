------------------------- MODULE Extraction_proofs -------------------------
(***************************************************************************)
(* For payloads of any length and blocks of any size: the server's digest  *)
(* accepts what arrived as it was sent, and nothing with a single word of  *)
(* a block altered.  For archives with any number of files: each image is  *)
(* paired with the sidecar of its stem.                                    *)
(***************************************************************************)
EXTENDS Extraction, SequenceTheorems, TLAPS

------------------------------------------------------------------------------
(* Sums up to carries.                                                      *)

\* Equal ends are equal, but for the two zeros.
LEMMA CongruentEnds ==
  ASSUME NEW a \in Bits16, NEW b \in Bits16, Congruent(a, b), a # b
  PROVE  a \in Zeros /\ b \in Zeros
<1>1. (a - b) % 65535 = 0 /\ -65535 <= a - b /\ a - b <= 65535 /\ a - b # 0
  BY SMT DEF Congruent, Bits16
<1>2. a \in Int /\ b \in Int
  BY DEF Bits16
<1>3. a - b = 65535 \/ a - b = -65535
  BY SMT, <1>1, <1>2
<1> QED BY SMT, <1>3 DEF Zeros, Bits16

\* A carry added at once is a carry folded in later, ...
LEMMA OnesSumFits ==
  ASSUME NEW t \in Nat, NEW c \in Bits16, NEW s \in Bits16, NEW g \in Bits16,
         NEW d \in Int, NEW e, e = c + d, Congruent(t, e),
         NEW f, f = OnesSum(c, s) + d + g - s
  PROVE  Congruent(t + g, f)
<1>0. t \in Int /\ c \in Int /\ s \in Int /\ g \in Int
  BY SMT DEF Bits16
<1>1. (t - (c + d)) % 65535 = 0
  BY SMT DEF Congruent
<1>2. CASE c + s > 65535
  <2>1. f = (c + s - 65535) + d + g - s
    BY SMT, <1>2 DEF OnesSum
  <2>2. ((t + g) - ((c + s - 65535) + d + g - s)) % 65535 = 0
    BY SMT, <1>0, <1>1
  <2> QED BY SMT, <2>1, <2>2 DEF Congruent
<1>3. CASE c + s <= 65535
  <2>1. f = (c + s) + d + g - s
    BY SMT, <1>0, <1>3 DEF OnesSum
  <2>2. (t + g) - f = t - (c + d)
    BY SMT, <1>0, <2>1
  <2> QED BY SMT, <1>1, <2>2 DEF Congruent
<1> QED BY SMT, <1>0, <1>2, <1>3

\* ... and makes no zero.
LEMMA OnesSumTypes ==
  ASSUME NEW c \in Bits16, NEW s \in Bits16
  PROVE  /\ OnesSum(c, s) \in Bits16 /\ OnesSum(c, s) \in Int
         /\ OnesSum(c, s) = 0 <=> c = 0 /\ s = 0
BY SMT DEF OnesSum, Bits16

LEMMA FoldFits ==
  ASSUME NEW t \in Nat, t > 65535, NEW f, f = (t \div 65536) + (t % 65536)
  PROVE  f \in Nat /\ f # 0 /\ \A b \in Int : Congruent(t, b) => Congruent(f, b)
<1> DEFINE q == t \div 65536
<1>1. f \in Nat /\ f # 0 /\ q \in Int /\ f = t - 65535 * q
  BY SMT
<1> HIDE DEF q
<1>2. ASSUME NEW b \in Int, Congruent(t, b) PROVE Congruent(f, b)
  BY SMT, <1>1, <1>2 DEF Congruent
<1> QED BY SMT, <1>1, <1>2

------------------------------------------------------------------------------
(* The parts of the invariant.                                              *)

SameSums == Congruent(total, cardSum) /\ (total = 0 <=> cardSum = 0)

Sums ==
  /\ (\A i \in DOMAIN words : Current(i) => words[i].sent = words[i].got) => SameSums
  /\ \A i \in DOMAIN words :
       Current(i) /\ AlteredAlone(i) => Congruent(total, cardSum + words[i].got - words[i].sent)

\* The blocks compared, and those to come.
Blocks ==
  /\ \A i \in DOMAIN words : words[i].block <= block
  /\ pc \in {"digested", "verified", "refused"} => \A i \in DOMAIN words : ~Current(i)
  /\ pc = "verified" => agree /\ sameKey
  /\ pc = "refused" => ~(agree /\ sameKey)

LEMMA Parts == DigestInv <=> TypeOK /\ Sums /\ ChecksumsFit /\ Blocks
BY DEF DigestInv, SumsFit, Sums, SameSums, Blocks

LEMMA PartsAfter == TypeOK' /\ Sums' /\ ChecksumsFit' /\ Blocks' => DigestInv'
BY DEF DigestInv, SumsFit, Sums, SameSums, Blocks

LEMMA WordTypes ==
  ASSUME TypeOK
  PROVE  /\ Len(words) \in Nat /\ DOMAIN words = 1..Len(words)
         /\ \A i \in DOMAIN words : /\ words[i] \in Word /\ words[i].block \in Nat
                                    /\ words[i].sent \in Bits16 /\ words[i].got \in Bits16
                                    /\ words[i].sent \in Int /\ words[i].got \in Int
<1>1. words \in Seq(Word) /\ Len(words) \in Nat /\ DOMAIN words = 1..Len(words)
  BY LenProperties DEF TypeOK
<1>2. \A i \in DOMAIN words : words[i] \in Word
  BY <1>1, ElementOfSeq
<1>3. \A w \in Word : w.block \in Nat /\ w.sent \in Bits16 /\ w.got \in Bits16
  BY ExtractionAssumption DEF Word
<1>4. Bits16 \subseteq Int
  BY DEF Bits16
<1> QED BY <1>1, <1>2, <1>3, <1>4

\* Of a block under way without words, nothing is added up.
LEMMA EmptyBlock ==
  ASSUME Sums, \A i \in DOMAIN words : ~Current(i)
  PROVE  SameSums
BY DEF Sums

------------------------------------------------------------------------------
(* A word is added.                                                         *)

LEMMA AddGrows ==
  ASSUME TypeOK, NEW s \in Words, NEW g \in Words, Add(s, g), NEW n, n = Len(words) + 1
  PROVE  /\ words' \in Seq(Word)
         /\ \A i : i \in DOMAIN words' <=> i \in DOMAIN words \/ i = n
         /\ n \notin DOMAIN words
         /\ \A i \in DOMAIN words : words'[i] = words[i]
         /\ words'[n].block = block /\ words'[n].sent = s /\ words'[n].got = g
<1> DEFINE w == [block |-> block, sent |-> s, got |-> g]
<1>1. words' = Append(words, w)
  BY DEF Add
<1>2. w \in Word
  BY DEF Word, TypeOK
<1> HIDE DEF w
<1>3. /\ words' \in Seq(Word) /\ Len(words') = n /\ words'[n] = w
      /\ \A i \in 1..Len(words) : words'[i] = words[i]
  BY <1>1, <1>2, AppendProperties DEF TypeOK
<1>4. DOMAIN words = 1..Len(words) /\ Len(words) \in Nat /\ DOMAIN words' = 1..n
  BY <1>3, WordTypes, LenProperties
<1> QED BY <1>3, <1>4 DEF w

LEMMA AddTypes ==
  ASSUME TypeOK, NEW s \in Words, NEW g \in Words, Add(s, g)
  PROVE  TypeOK'
<1>1. words' \in Seq(Word)
  BY AddGrows
<1>2. cardSum' \in Bits16 /\ total' \in Nat
  BY SMT, ExtractionAssumption DEF Add, TypeOK, OnesSum, Bits16
<1>3. UNCHANGED <<block, agree, sameKey, pc, members, images, logs>>
  BY DEF Add
<1> QED BY <1>1, <1>2, <1>3 DEF TypeOK

LEMMA AddSums ==
  ASSUME TypeOK, Sums, NEW s \in Words, NEW g \in Words, Add(s, g)
  PROVE  Sums'
<1> PICK n : n = Len(words) + 1
  OBVIOUS
<1>1. /\ block' = block /\ cardSum' = OnesSum(cardSum, s) /\ total' = total + g
      /\ s \in Bits16 /\ g \in Bits16 /\ total \in Nat /\ cardSum \in Bits16
      /\ s \in Int /\ g \in Int /\ cardSum \in Int
  BY SMT, ExtractionAssumption DEF Add, TypeOK, Bits16
<1>2. \A i : i \in DOMAIN words' <=> i \in DOMAIN words \/ i = n
  BY AddGrows
<1>3. /\ n \notin DOMAIN words /\ \A i \in DOMAIN words : words'[i] = words[i]
      /\ words'[n].block = block /\ words'[n].sent = s /\ words'[n].got = g
  BY AddGrows
<1>4. Current(n)' /\ \A i \in DOMAIN words : Current(i)' <=> Current(i)
  BY <1>1, <1>3 DEF Current
<1> DEFINE o == OnesSum(cardSum, s)
<1>5. o \in Int /\ (o = 0 <=> cardSum = 0 /\ s = 0)
  BY <1>1, OnesSumTypes
<1>6. ASSUME NEW d \in Int, NEW e, e = cardSum + d, Congruent(total, e),
             NEW f, f = o + d + g - s
      PROVE  Congruent(total', f)
  BY <1>1, <1>6, OnesSumFits
<1> HIDE DEF o
<1>7. ASSUME \A i \in DOMAIN words' : Current(i)' => words'[i].sent = words'[i].got
      PROVE  SameSums'
  <2>1. SameSums /\ s = g
    BY <1>2, <1>3, <1>4, <1>7 DEF Sums
  <2>2. 0 \in Int /\ cardSum = cardSum + 0 /\ o = o + 0 + g - s
    BY SMT, <1>1, <1>5, <2>1
  <2>3. Congruent(total', o)
    BY <1>6, <2>1, <2>2 DEF SameSums
  <2>4. total + g = 0 <=> o = 0
    BY SMT, <1>1, <1>5, <2>1 DEF SameSums, Bits16
  <2> QED BY <1>1, <2>3, <2>4 DEF SameSums, o
<1>8. ASSUME NEW i \in DOMAIN words', Current(i)', AlteredAlone(i)'
      PROVE  Congruent(total', cardSum' + words'[i].got - words'[i].sent)
  <2>0. /\ words'[i].sent # words'[i].got
        /\ \A j \in DOMAIN words' : Current(j)' /\ words'[j].sent # words'[j].got => j = i
    BY <1>8 DEF AlteredAlone, Current
  <2>1. CASE i = n
    <3>1. \A j \in DOMAIN words : Current(j) => words[j].sent = words[j].got
      BY <1>2, <1>3, <1>4, <2>0, <2>1
    <3>2. Congruent(total, cardSum)
      BY <3>1 DEF Sums, SameSums
    <3>3. 0 \in Int /\ cardSum = cardSum + 0 /\ o + g - s = o + 0 + g - s
      BY SMT, <1>1, <1>5
    <3>4. Congruent(total', o + g - s)
      BY <1>6, <3>2, <3>3
    <3> QED BY <1>1, <1>3, <2>1, <3>4 DEF o
  <2>2. CASE i \in DOMAIN words
    <3>1. s = g
      BY <1>2, <1>3, <1>4, <2>0, <2>2
    <3>2. Current(i) /\ AlteredAlone(i)
      BY <1>2, <1>3, <1>4, <1>8, <2>0, <2>2 DEF AlteredAlone, Current
    <3>3. Congruent(total, cardSum + words[i].got - words[i].sent)
      BY <2>2, <3>2 DEF Sums
    <3>4. words[i].got \in Int /\ words[i].sent \in Int /\ words'[i] = words[i]
      BY <1>3, <2>2, WordTypes
    <3> DEFINE d == words[i].got - words[i].sent
    <3>5. /\ d \in Int /\ cardSum + words[i].got - words[i].sent = cardSum + d
          /\ o + words[i].got - words[i].sent = o + d + g - s
      BY SMT, <1>1, <1>5, <3>1, <3>4
    <3> HIDE DEF d
    <3>6. Congruent(total', o + words[i].got - words[i].sent)
      BY <1>6, <3>3, <3>5
    <3> QED BY <1>1, <3>4, <3>6 DEF o
  <2> QED BY <1>2, <2>1, <2>2
<1> QED BY <1>7, <1>8 DEF Sums

LEMMA AddInv ==
  ASSUME DigestInv, NEW s \in Words, NEW g \in Words, Add(s, g)
  PROVE  DigestInv'
<1>0. TypeOK /\ Sums /\ ChecksumsFit /\ Blocks
  BY Parts
<1> PICK n : n = Len(words) + 1
  OBVIOUS
<1>1. UNCHANGED <<block, agree, sameKey, pc>> /\ pc = "summing" /\ block \in Nat
  BY <1>0 DEF Add, TypeOK, Bits16
<1>2. \A i : i \in DOMAIN words' <=> i \in DOMAIN words \/ i = n
  BY <1>0, AddGrows
<1>3. /\ n \notin DOMAIN words /\ \A i \in DOMAIN words : words'[i] = words[i]
      /\ words'[n].block = block
  BY <1>0, AddGrows
<1>4. Blocks'
  BY <1>0, <1>1, <1>2, <1>3 DEF Blocks
<1>5. \A i \in DOMAIN words : AlteredAlone(i)' => AlteredAlone(i)
  BY <1>2, <1>3 DEF AlteredAlone
<1>6. Current(n)' /\ \A i \in DOMAIN words : Current(i)' <=> Current(i)
  BY <1>1, <1>3 DEF Current
<1>7. ChecksumsFit'
  BY <1>0, <1>1, <1>2, <1>3, <1>5, <1>6 DEF ChecksumsFit
<1> QED BY <1>0, <1>4, <1>7, AddTypes, AddSums, PartsAfter

------------------------------------------------------------------------------
(* A block is closed and its checksums are compared.                        *)

LEMMA FoldInv == ASSUME DigestInv, Fold PROVE DigestInv'
<1>0. TypeOK /\ Sums /\ ChecksumsFit /\ Blocks
  BY Parts
<1>1. /\ UNCHANGED <<words, block, cardSum, agree, sameKey, pc, members, images, logs>>
      /\ total \in Nat /\ total > 65535 /\ total' = (total \div 65536) + (total % 65536)
  BY <1>0 DEF Fold, TypeOK
<1>2. /\ total' \in Nat /\ total' # 0 /\ total # 0
      /\ \A b \in Int : Congruent(total, b) => Congruent(total', b)
  <2>1. total # 0
    BY SMT, <1>1
  <2> QED BY <1>1, <2>1, FoldFits
<1>3. ASSUME NEW b \in Int, Congruent(total, b) PROVE Congruent(total', b)
  BY <1>2, <1>3
<1>4. TypeOK' /\ ChecksumsFit' /\ Blocks'
  BY <1>0, <1>1, <1>2 DEF TypeOK, ChecksumsFit, Blocks, Current, AlteredAlone
<1>5. cardSum \in Int /\ cardSum' = cardSum
  BY <1>0, <1>1 DEF TypeOK, Bits16
<1>6. SameSums => SameSums'
  BY <1>2, <1>3, <1>5 DEF SameSums
<1>7. ASSUME NEW i \in DOMAIN words, Congruent(total, cardSum + words[i].got - words[i].sent)
      PROVE  Congruent(total', cardSum + words[i].got - words[i].sent)
  <2>1. words[i].got \in Int /\ words[i].sent \in Int
    BY <1>0, WordTypes
  <2>2. cardSum + words[i].got - words[i].sent \in Int
    BY SMT, <1>5, <2>1
  <2> QED BY <1>3, <1>7, <2>2
<1>8. Sums'
  BY <1>0, <1>1, <1>6, <1>7 DEF Sums, Current, AlteredAlone
<1> QED BY <1>4, <1>8, PartsAfter

\* The checksums of a block that arrived as it was sent are equal, ...
LEMMA IntactBlock ==
  ASSUME TypeOK, Sums, total \in Bits16, \A i \in DOMAIN words : Current(i) => words[i].sent = words[i].got
  PROVE  total = cardSum
<1>1. SameSums /\ total \in Bits16 /\ cardSum \in Bits16
  BY DEF TypeOK, Sums
<1>2. total # cardSum => total \in Zeros /\ cardSum \in Zeros
  BY <1>1, CongruentEnds DEF SameSums
<1> QED BY SMT, <1>1, <1>2 DEF SameSums, Zeros

\* ... and equal checksums hide a single word of the block only if it is a zero.
LEMMA AlteredBlock ==
  ASSUME TypeOK, Sums, total = cardSum, NEW i \in DOMAIN words, Current(i), AlteredAlone(i)
  PROVE  words[i].sent \in Zeros /\ words[i].got \in Zeros
<1>1. /\ words[i].sent \in Bits16 /\ words[i].got \in Bits16 /\ words[i].sent # words[i].got
      /\ words[i].sent \in Int /\ words[i].got \in Int
  BY WordTypes DEF AlteredAlone
<1>2. Congruent(total, cardSum + words[i].got - words[i].sent) /\ total \in Int
  BY DEF Sums, TypeOK
<1>3. Congruent(words[i].sent, words[i].got)
  <2> DEFINE x == words[i].sent
             y == words[i].got
  <2>1. total - (total + y - x) = x - y
    BY SMT, <1>1, <1>2
  <2> QED BY <1>2, <2>1 DEF Congruent
<1> QED BY <1>1, <1>3, CongruentEnds

LEMMA ChecksummedInv == ASSUME DigestInv, Checksummed PROVE DigestInv'
<1>0. TypeOK /\ Sums /\ ChecksumsFit /\ Blocks
  BY Parts
<1>1. /\ UNCHANGED <<words, sameKey, members, images, logs>>
      /\ block' = block + 1 /\ cardSum' = 0 /\ total' = 0
      /\ pc' \in {"summing", "digested"} /\ pc = "folding"
  BY DEF Checksummed, NextBlock
<1>2. /\ block \in Nat /\ total \in Bits16 /\ cardSum \in Bits16 /\ 0 \in Bits16
      /\ agree' = (agree /\ total = cardSum)
  <2>1. block \in Nat /\ total \in Bits16 /\ cardSum \in Bits16 /\ 0 \in Bits16
    BY SMT, <1>0 DEF TypeOK, Checksummed, NextBlock, Bits16
  <2>2. Checksum(total) = Checksum(cardSum) <=> total = cardSum
    BY SMT, <2>1 DEF Checksum, Bits16
  <2> QED BY <2>1, <2>2 DEF Checksummed
<1>3. TypeOK'
  BY <1>0, <1>1, <1>2 DEF TypeOK
<1>4. ASSUME NEW i \in DOMAIN words PROVE ~Current(i)' /\ words[i].block <= block'
  <2>1. words[i].block \in Nat /\ words[i].block <= block
    BY <1>0, WordTypes DEF Blocks
  <2>2. words[i].block # block + 1 /\ words[i].block <= block + 1
    BY SMT, <1>2, <2>1
  <2> QED BY <1>1, <2>2 DEF Current
<1>5. Blocks'
  BY <1>1, <1>4 DEF Blocks
<1>6. SameSums'
  BY SMT, <1>1 DEF SameSums, Congruent
<1>7. Sums'
  BY <1>1, <1>4, <1>6 DEF Sums
<1>8. ASSUME ~agree' PROVE \E i \in DOMAIN words : words[i].sent # words[i].got
  BY <1>0, <1>1, <1>2, <1>8, IntactBlock DEF ChecksumsFit
<1>9. ASSUME agree', NEW i \in DOMAIN words, AlteredAlone(i)
      PROVE  words[i].sent \in Zeros /\ words[i].got \in Zeros
  BY <1>0, <1>2, <1>9, AlteredBlock DEF ChecksumsFit
<1>10. ChecksumsFit'
  BY <1>1, <1>8, <1>9 DEF ChecksumsFit, AlteredAlone
<1> QED BY <1>3, <1>5, <1>7, <1>10, PartsAfter

LEMMA VerifyInv == ASSUME DigestInv, Verify PROVE DigestInv'
<1>0. TypeOK /\ Sums /\ ChecksumsFit /\ Blocks
  BY Parts
<1>1. /\ UNCHANGED <<words, block, cardSum, total, agree, sameKey, members, images, logs>>
      /\ pc' = IF agree /\ sameKey THEN "verified" ELSE "refused"
      /\ pc = "digested" \/ InBlock = {}
  BY DEF Verify
<1>2. \A i \in DOMAIN words : ~Current(i)
  BY <1>0, <1>1 DEF Blocks, Current, InBlock
<1>3. TypeOK' /\ Sums' /\ ChecksumsFit' /\ Blocks'
  BY <1>0, <1>1, <1>2 DEF TypeOK, Sums, SameSums, ChecksumsFit, Blocks, Current, AlteredAlone
<1> QED BY <1>3, PartsAfter

\* After that the words are dropped.
LEMMA UnpackInv == ASSUME DigestInv, Unpack \/ UnpackFails PROVE DigestInv'
<1>0. TypeOK /\ Sums /\ ChecksumsFit /\ Blocks
  BY Parts
<1>1. /\ UNCHANGED <<block, cardSum, total, agree, sameKey, members, images, logs>>
      /\ pc = "verified" /\ pc' \in {"pairing", "raised"} /\ words' = << >>
  BY DEF Unpack, UnpackFails
<1>2. SameSums /\ agree
  BY <1>0, <1>1, EmptyBlock DEF Blocks
<1>3. words' \in Seq(Word) /\ DOMAIN words' = {}
  BY <1>1, EmptySeq
<1>4. TypeOK'
  BY <1>0, <1>1, <1>3 DEF TypeOK
<1>5. SameSums'
  BY <1>1, <1>2 DEF SameSums
<1>6. Sums' /\ ChecksumsFit' /\ Blocks'
  BY <1>1, <1>2, <1>3, <1>5 DEF Sums, ChecksumsFit, Blocks
<1> QED BY <1>4, <1>6, PartsAfter

------------------------------------------------------------------------------
(* The files.                                                               *)

\* The entries of a stem are its last image and its last sidecar.
LastImage(s) ==
  /\ images[s] = 0 \/ (/\ images[s] \in DOMAIN members /\ members[images[s]].stem = s
                       /\ ~IsLog(members[images[s]]))
  /\ \A i \in DOMAIN members : members[i].stem = s /\ ~IsLog(members[i]) => i <= images[s]

LastLog(s) ==
  /\ logs[s] = 0 \/ (/\ logs[s] \in DOMAIN members /\ members[logs[s]].stem = s
                     /\ IsLog(members[logs[s]]))
  /\ \A i \in DOMAIN members : members[i].stem = s /\ IsLog(members[i]) => i <= logs[s]

Paired == \A s \in Stems : LastImage(s) /\ LastLog(s)

MembersTypeOK ==
  members \in Seq(Name) /\ images \in [Stems -> Nat] /\ logs \in [Stems -> Nat]

LEMMA PairGrows ==
  ASSUME MembersTypeOK, NEW name \in Name, Pair(name), NEW n, n = Len(members) + 1
  PROVE  /\ members' \in Seq(Name) /\ n \in Nat
         /\ \A i : i \in DOMAIN members' <=> i \in DOMAIN members \/ i = n
         /\ \A i \in DOMAIN members : i \in Nat /\ i < n /\ members'[i] = members[i]
         /\ members'[n] = name
<1>1. members' = Append(members, name)
  BY DEF Pair
<1>2. /\ members' \in Seq(Name) /\ Len(members') = n /\ members'[n] = name
      /\ \A i \in 1..Len(members) : members'[i] = members[i]
  BY <1>1, AppendProperties DEF MembersTypeOK
<1>3. DOMAIN members = 1..Len(members) /\ Len(members) \in Nat /\ DOMAIN members' = 1..n
  BY <1>2, LenProperties DEF MembersTypeOK
<1> QED BY <1>2, <1>3

LEMMA PairPairs ==
  ASSUME MembersTypeOK, Paired, NEW name \in Name, Pair(name)
  PROVE  MembersTypeOK' /\ Paired'
<1> PICK n : n = Len(members) + 1
  OBVIOUS
<1>1. /\ members' \in Seq(Name) /\ n \in Nat
      /\ \A i : i \in DOMAIN members' <=> i \in DOMAIN members \/ i = n
      /\ \A i \in DOMAIN members : i \in Nat /\ i < n /\ members'[i] = members[i]
      /\ members'[n] = name
  BY PairGrows
<1>2. name.stem \in Stems
  BY DEF Name
<1>3. ASSUME NEW s \in Stems
      PROVE  /\ images'[s] \in Nat /\ LastImage(s)'
             /\ logs'[s] \in Nat /\ LastLog(s)'
  <2>1. images[s] \in Nat /\ logs[s] \in Nat /\ LastImage(s) /\ LastLog(s)
    BY DEF MembersTypeOK, Paired
  <2>2. CASE IsLog(name)
    <3>1. images'[s] = images[s] /\ logs'[s] = IF s = name.stem THEN n ELSE logs[s]
      BY <1>2, <2>2 DEF Pair, MembersTypeOK
    <3> QED BY <1>1, <2>1, <2>2, <3>1 DEF LastImage, LastLog
  <2>3. CASE ~IsLog(name)
    <3>1. logs'[s] = logs[s] /\ images'[s] = IF s = name.stem THEN n ELSE images[s]
      BY <1>2, <2>3 DEF Pair, MembersTypeOK
    <3> QED BY <1>1, <2>1, <2>3, <3>1 DEF LastImage, LastLog
  <2> QED BY <2>2, <2>3
<1>4. \E f, h : images' = [images EXCEPT ![name.stem] = f] /\ logs' = [logs EXCEPT ![name.stem] = h]
  <2>1. images = [images EXCEPT ![name.stem] = images[name.stem]]
    BY <1>2 DEF MembersTypeOK
  <2>2. logs = [logs EXCEPT ![name.stem] = logs[name.stem]]
    BY <1>2 DEF MembersTypeOK
  <2> QED BY <2>1, <2>2 DEF Pair
<1>5. images' \in [Stems -> Nat] /\ logs' \in [Stems -> Nat]
  BY <1>3, <1>4 DEF MembersTypeOK
<1> QED BY <1>1, <1>3, <1>5 DEF MembersTypeOK, Paired

LEMMA PairInv ==
  ASSUME DigestInv, NEW name \in Name, Pair(name)
  PROVE  DigestInv'
<1>0. TypeOK /\ Sums /\ ChecksumsFit /\ Blocks /\ MembersTypeOK
  BY Parts DEF TypeOK, MembersTypeOK
<1>1. UNCHANGED <<words, block, cardSum, total, agree, sameKey, pc>>
  BY DEF Pair
<1>2. members' \in Seq(Name)
  BY <1>0, PairGrows
<1>3. images' \in [Stems -> Nat] /\ logs' \in [Stems -> Nat]
  <2>1. Len(members) + 1 \in Nat
    BY <1>0, LenProperties DEF MembersTypeOK
  <2> QED BY <1>0, <2>1 DEF Pair, MembersTypeOK
<1>4. TypeOK' /\ Sums' /\ ChecksumsFit' /\ Blocks'
  BY <1>0, <1>1, <1>2, <1>3
     DEF TypeOK, Sums, SameSums, ChecksumsFit, Blocks, Current, AlteredAlone
<1> QED BY <1>4, PartsAfter

LEMMA PairedMeans ==
  ASSUME MembersTypeOK, Paired
  PROVE  PairedByStem
<1> SUFFICES ASSUME NEW i \in DOMAIN members, members[i].suffix \notin Logs
             PROVE  LET s == members[i].stem
                        later == {j \in DOMAIN members : j > i /\ members[j].stem = s}
                        log == {j \in DOMAIN members : members[j].stem = s /\ members[j].suffix \in Logs}
                    IN /\ images[s] = i \/ images[s] \in later \ log
                       /\ logs[s] \in IF log = {} THEN {0} ELSE log
                       /\ \A j \in log : j <= logs[s]
  BY DEF PairedByStem
<1> DEFINE s == members[i].stem
<1>1. DOMAIN members \subseteq Nat \ {0} /\ members[i] \in Name
  BY LenProperties, ElementOfSeq DEF MembersTypeOK
<1>2. s \in Stems /\ LastImage(s) /\ LastLog(s) /\ images[s] \in Nat /\ logs[s] \in Nat
  BY <1>1 DEF Name, Paired, MembersTypeOK
<1> HIDE DEF s
<1>3. i <= images[s] /\ images[s] \in DOMAIN members /\ members[images[s]].stem = s
      /\ members[images[s]].suffix \notin Logs
  BY <1>1, <1>2 DEF s, LastImage, IsLog
<1>4. images[s] = i \/ images[s] > i
  BY <1>1, <1>2, <1>3
<1> DEFINE log == {j \in DOMAIN members : members[j].stem = s /\ members[j].suffix \in Logs}
<1>5. \A j \in log : j <= logs[s] /\ j # 0
  BY <1>1, <1>2 DEF LastLog, IsLog
<1>6. logs[s] = 0 \/ logs[s] \in log
  BY <1>2 DEF LastLog, IsLog
<1>7. logs[s] \in IF log = {} THEN {0} ELSE log
  BY <1>1, <1>2, <1>5, <1>6
<1> QED BY <1>3, <1>4, <1>5, <1>7 DEF s

------------------------------------------------------------------------------
(* The theorems.                                                            *)

LEMMA InitInv == Init => DigestInv /\ Paired
<1> SUFFICES ASSUME Init PROVE DigestInv /\ Paired
  OBVIOUS
<1>1. words \in Seq(Word) /\ members \in Seq(Name) /\ DOMAIN words = {} /\ DOMAIN members = {}
  BY EmptySeq DEF Init
<1>2. TypeOK
  <2>1. cardSum \in Bits16
    BY SMT DEF Init, Bits16
  <2> QED BY <1>1, <2>1 DEF Init, TypeOK, NoMember
<1>3. SameSums
  BY SMT DEF Init, SameSums, Congruent
<1>4. Sums /\ ChecksumsFit /\ Blocks
  BY <1>1, <1>3 DEF Init, Sums, ChecksumsFit, Blocks
<1>5. Paired
  BY <1>1 DEF Init, Paired, LastImage, LastLog, NoMember
<1> QED BY <1>2, <1>4, <1>5, Parts

LEMMA NextInv == ASSUME DigestInv, [Next]_vars PROVE DigestInv'
<1>1. CASE \E s, g \in Words : Add(s, g)
  BY <1>1, AddInv
<1>2. CASE Unpack \/ UnpackFails
  BY <1>2, UnpackInv
<1>3. CASE \E name \in Name : Pair(name)
  BY <1>3, PairInv
<1>4. CASE EndBlock \/ Return \/ UNCHANGED vars
  <2>0. TypeOK /\ Sums /\ ChecksumsFit /\ Blocks
    BY Parts
  <2>1. /\ UNCHANGED <<words, block, cardSum, total, agree, sameKey, members, images, logs>>
        /\ pc' = pc \/ pc' \in {"folding", "returned"}
    BY <1>4 DEF EndBlock, Return, vars
  <2>2. TypeOK' /\ Sums' /\ ChecksumsFit' /\ Blocks'
    BY <2>0, <2>1 DEF TypeOK, Sums, SameSums, ChecksumsFit, Blocks, Current, AlteredAlone
  <2> QED BY <2>2, PartsAfter
<1> QED BY <1>1, <1>2, <1>3, <1>4, FoldInv, ChecksummedInv, VerifyInv DEF Next

LEMMA NextPairs == ASSUME DigestInv, Paired, [Next]_vars PROVE Paired'
<1>0. MembersTypeOK
  BY Parts DEF TypeOK, MembersTypeOK
<1>1. CASE \E name \in Name : Pair(name)
  BY <1>0, <1>1, PairPairs
<1>2. CASE UNCHANGED <<members, images, logs>>
  BY <1>2 DEF Paired, LastImage, LastLog
<1>3. Fold \/ Checksummed => UNCHANGED <<members, images, logs>>
  BY SMT DEF Fold, Checksummed, NextBlock
<1>4. ASSUME NEW s \in Words, NEW g \in Words, Add(s, g) PROVE UNCHANGED <<members, images, logs>>
  BY SMT, <1>4 DEF Add
<1>5. EndBlock \/ Verify \/ Unpack \/ UnpackFails \/ Return \/ UNCHANGED vars
        => UNCHANGED <<members, images, logs>>
  BY SMT DEF EndBlock, Verify, Unpack, UnpackFails, Return, vars
<1> QED BY <1>1, <1>2, <1>3, <1>4, <1>5 DEF Next

\* Of the blocks of a payload the sums differ by what was altered, up to carries, for any
\* words, blocks of any size and however often the carries are folded in (protocol.py:67-95).
THEOREM DigestInvariant == Spec => []DigestInv
BY InitInv, NextInv, PTL DEF Spec

\* What arrived as it was sent, with the right key, is not refused (protocol.py:67-95).
THEOREM AcceptsIntact == Spec => []IntactIsAccepted
<1>1. DigestInv => IntactIsAccepted
  BY Parts DEF Blocks, ChecksumsFit, IntactIsAccepted
<1> QED BY <1>1, DigestInvariant, PTL

\* What is unpacked has the right key, and no block with a single word altered
\* (tar_extract.py:36-45).
THEOREM AcceptsOnlyIntact == Spec => []AcceptedIsIntact
<1>1. DigestInv => AcceptedIsIntact
  BY Parts DEF Blocks, ChecksumsFit, AcceptedIsIntact
<1> QED BY <1>1, DigestInvariant, PTL

\* Each image is paired with the last sidecar of its stem, for archives with any
\* number of files in any order (tar_extract.py:55-68).
THEOREM PairsByStem == Spec => []PairedByStem
<1>1. DigestInv => MembersTypeOK
  BY Parts DEF TypeOK, MembersTypeOK
<1>2. DigestInv /\ Paired => PairedByStem
  BY <1>1, PairedMeans
<1>3. DigestInv /\ Paired /\ [Next]_vars => Paired'
  BY NextPairs
<1> QED BY <1>2, <1>3, InitInv, DigestInvariant, PTL DEF Spec
=============================================================================
