----------------------------- MODULE Extraction -----------------------------
(***************************************************************************)
(* One UploadPhoto payload on its way from the card into the download      *)
(* directory: the integrity digest of protocol.py, which the card computes *)
(* over what it sends and the server over what it got, and the unpacking   *)
(* and pairing of tar_extract.py.                                          *)
(*                                                                         *)
(* The payload is read as the digest reads it, in blocks of 16-bit words.  *)
(* The card's side is the one's-complement sum by its definition, with the *)
(* carry added at every word; the server adds up a block first and folds   *)
(* the carries in afterwards.  MD5 over the checksums and the upload key   *)
(* is taken to differ if one of them differs.  A word is what the card     *)
(* sent and what the server got.  Nothing is unpacked before the digests   *)
(* are compared; then the names of the files are gone through once.        *)
(***************************************************************************)
EXTENDS Integers, Sequences, FiniteSets

CONSTANTS
  Words,       \* 16-bit words that occur
  BlockWords,  \* words of a 512-byte block (256)
  Stems,       \* stems of file names
  MaxWords,    \* bound: words of a payload
  MaxAltered,  \* bound: words that arrive altered
  MaxMembers   \* bound: members of the tar

Bits16 == {x \in Nat : x < 65536}

ASSUME ExtractionAssumption ==
  /\ Words \subseteq Bits16 /\ BlockWords \in Nat \ {0}
  /\ MaxWords \in Nat /\ MaxAltered \in Nat /\ MaxMembers \in Nat

VARIABLES
  words,    \* the words summed so far, with the number of their block
  block,    \* the number of the block under way
  cardSum,  \* the card's sum of that block
  total,    \* the server's, before or while the carries are folded in
  agree,    \* the checksums of the blocks before are equal
  sameKey,  \* the server's upload key is the card's
  pc,       \* "summing", "folding", "digested", "verified", "refused", "pairing",
            \* "returned" or "raised"
  members,  \* the names of the files unpacked, in the order of the tar
  images,   \* stem -> index of the member the loop holds as its image (0: none)
  logs      \* stem -> the same for its sidecar

vars == <<words, block, cardSum, total, agree, sameKey, pc, members, images, logs>>

Word == [block : Nat, sent : Words, got : Words]

Logs == {".log", ".LOG"}
Suffixes == Logs \cup {".JPG", ".MOV"}
Name == [stem : Stems, suffix : Suffixes]

NoMember == [s \in Stems |-> 0]

Init ==
  /\ words = << >> /\ block = 1
  /\ cardSum = 0 /\ total = 0
  /\ agree = TRUE
  /\ sameKey \in BOOLEAN
  /\ pc = "summing"
  /\ members = << >> /\ images = NoMember /\ logs = NoMember

------------------------------------------------------------------------------
(* The digest.                                                              *)

Altered == {i \in DOMAIN words : words[i].sent # words[i].got}
InBlock == {i \in DOMAIN words : words[i].block = block}

\* The card adds the carry as soon as it occurs.
OnesSum(a, b) == IF a + b > 65535 THEN a + b - 65535 ELSE a + b

\* One word of the loops over a block.
Add(s, g) ==
  /\ pc = "summing"
  /\ Len(words) < MaxWords /\ Cardinality(InBlock) < BlockWords
  /\ s = g \/ Cardinality(Altered) < MaxAltered
  /\ words' = Append(words, [block |-> block, sent |-> s, got |-> g])
  /\ cardSum' = OnesSum(cardSum, s)
  /\ total' = total + g
  /\ UNCHANGED <<block, agree, sameKey, pc, members, images, logs>>

\* The block is full, or the payload ends: the zeros added then change no sum.
EndBlock ==
  /\ pc = "summing" /\ InBlock # {}
  /\ pc' = "folding"
  /\ UNCHANGED <<words, block, cardSum, total, agree, sameKey, members, images, logs>>

\* Mutant of Fold: if total >> 16, what is left over is cut off.
FoldIf ==
  /\ pc = "folding" /\ total > 65535
  /\ total' = ((total \div 65536) + (total % 65536)) % 65536
  /\ UNCHANGED <<words, block, cardSum, agree, sameKey, pc, members, images, logs>>

\* while total >> 16.
Fold ==
  /\ pc = "folding" /\ total > 65535
  /\ total' = (total \div 65536) + (total % 65536)
  /\ UNCHANGED <<words, block, cardSum, agree, sameKey, pc, members, images, logs>>

\* The complement, in 16 bits.
Checksum(sum) == 65535 - sum

NextBlock ==
  /\ pc = "folding" /\ total < 65536
  /\ pc' = IF Cardinality(InBlock) = BlockWords THEN "summing" ELSE "digested"
  /\ block' = block + 1 /\ cardSum' = 0 /\ total' = 0
  /\ UNCHANGED <<words, sameKey, members, images, logs>>

\* Mutant of Checksummed: the checksum of the last block alone is left.
ChecksummedLast ==
  /\ NextBlock
  /\ agree' = (Checksum(total) = Checksum(cardSum))

Checksummed ==
  /\ NextBlock
  /\ agree' = (agree /\ Checksum(total) = Checksum(cardSum))

Verify ==
  /\ pc = "digested" \/ (pc = "summing" /\ InBlock = {})
  /\ pc' = IF agree /\ sameKey THEN "verified" ELSE "refused"
  /\ UNCHANGED <<words, block, cardSum, total, agree, sameKey, members, images, logs>>

------------------------------------------------------------------------------
(* Unpacking and pairing; the words are not looked at any more.             *)

\* tarfile cannot read what came, or cannot write it.
UnpackFails ==
  /\ pc = "verified"
  /\ pc' = "raised" /\ words' = << >>
  /\ UNCHANGED <<block, cardSum, total, agree, sameKey, members, images, logs>>

Unpack ==
  /\ pc = "verified"
  /\ pc' = "pairing" /\ words' = << >>
  /\ UNCHANGED <<block, cardSum, total, agree, sameKey, members, images, logs>>

\* Mutant of IsLog: the suffix is not lowered.
IsLogAsWritten(name) == name.suffix = ".log"

IsLog(name) == name.suffix \in Logs

\* One file of the loop over the names.
Pair(name) ==
  /\ pc = "pairing" /\ Len(members) < MaxMembers
  /\ \A i \in DOMAIN members : members[i] # name
  /\ members' = Append(members, name)
  /\ \/ /\ IsLog(name)
        /\ logs' = [logs EXCEPT ![name.stem] = Len(members) + 1] /\ UNCHANGED images
     \/ /\ ~IsLog(name)
        /\ images' = [images EXCEPT ![name.stem] = Len(members) + 1] /\ UNCHANGED logs
  /\ UNCHANGED <<words, block, cardSum, total, agree, sameKey, pc>>

Return ==
  /\ pc = "pairing"
  /\ pc' = "returned"
  /\ UNCHANGED <<words, block, cardSum, total, agree, sameKey, members, images, logs>>

Next ==
  \/ \E s, g \in Words : Add(s, g)
  \/ EndBlock \/ Fold \/ Checksummed \/ Verify
  \/ Unpack \/ UnpackFails \/ Return
  \/ \E name \in Name : Pair(name)

Spec == Init /\ [][Next]_vars

------------------------------------------------------------------------------
(* Properties.                                                              *)

TypeOK ==
  /\ words \in Seq(Word) /\ block \in Nat \ {0}
  /\ cardSum \in Bits16 /\ total \in Nat
  /\ agree \in BOOLEAN /\ sameKey \in BOOLEAN
  /\ pc \in {"summing", "folding", "digested", "verified", "refused", "pairing", "returned",
             "raised"}
  /\ members \in Seq(Name)
  /\ images \in [Stems -> Nat] /\ logs \in [Stems -> Nat]

\* The word i is the only one of its block that arrived altered.
AlteredAlone(i) ==
  /\ words[i].sent # words[i].got
  /\ \A j \in DOMAIN words : words[j].block = words[i].block /\ words[j].sent # words[j].got => j = i

\* The two ways to write zero in one's complement.
Zeros == {0, 65535}

\* Equal up to carries.
Congruent(a, b) == (a - b) % 65535 = 0

Current(i) == words[i].block = block

\* What the server has added up of the block under way, against the card's sum:
\* of a block without altered words, or with a single one.
SumsFit ==
  /\ (\A i \in DOMAIN words : Current(i) => words[i].sent = words[i].got)
       => Congruent(total, cardSum) /\ (total = 0 <=> cardSum = 0)
  /\ \A i \in DOMAIN words :
       Current(i) /\ AlteredAlone(i) => Congruent(total, cardSum + words[i].got - words[i].sent)

\* What the checksums compared so far tell.
ChecksumsFit ==
  /\ ~agree => \E i \in DOMAIN words : words[i].sent # words[i].got
  /\ agree => \A i \in DOMAIN words :
       ~Current(i) /\ AlteredAlone(i) => words[i].sent \in Zeros /\ words[i].got \in Zeros

\* protocol.py:67-95, word by word: however the carries are folded in, the sums of
\* a block differ by what was altered, up to carries, and checksums by no less.
DigestInv ==
  /\ TypeOK /\ SumsFit /\ ChecksumsFit
  /\ \A i \in DOMAIN words : words[i].block <= block
  /\ pc \in {"digested", "verified", "refused"} => \A i \in DOMAIN words : ~Current(i)
  /\ pc = "verified" => agree /\ sameKey
  /\ pc = "refused" => ~(agree /\ sameKey)

\* protocol.py:67-95 against the definition of the sum: what arrived as it was
\* sent is never refused a card whose upload key is right, however often the
\* carries have to be folded in.
IntactIsAccepted ==
  pc = "refused" /\ sameKey => \E i \in DOMAIN words : words[i].sent # words[i].got

\* tar_extract.py:1-2: what is unpacked was sent with the right upload key, and
\* no block of it has a single word altered, but for a zero written the other
\* way; several altered words of a block may cancel out.
AcceptedIsIntact ==
  pc = "verified" =>
    /\ sameKey
    /\ \A i \in DOMAIN words : AlteredAlone(i) => words[i].sent \in Zeros /\ words[i].got \in Zeros

\* tar_extract.py:78-79: an image is returned unless a later one has its stem, and
\* with it the sidecar of its stem, the last one, exactly if there is any.
PairedByStem ==
  pc = "returned" =>
    \A i \in DOMAIN members :
      LET later == {j \in DOMAIN members : j > i /\ members[j].stem = members[i].stem}
          log == {j \in DOMAIN members : members[j].stem = members[i].stem /\ members[j].suffix \in Logs}
      IN members[i].suffix \notin Logs =>
           /\ images[members[i].stem] = i \/ images[members[i].stem] \in later \ log
           /\ logs[members[i].stem] \in IF log = {} THEN {0} ELSE log
           /\ \A j \in log : j <= logs[members[i].stem]
=============================================================================
