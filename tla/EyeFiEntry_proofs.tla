-------------------------- MODULE EyeFiEntry_proofs --------------------------
(***************************************************************************)
(* For any number of entries, ports, cards and calls of the backfill       *)
(* service, and tables that are rebuilt with any room: servers, hass.data  *)
(* and the service fit together, a server knows the cards its entry had,   *)
(* and a call that returns has visited each entry once.                    *)
(***************************************************************************)
EXTENDS EyeFiEntry, SequenceTheorems, FunctionTheorems, FiniteSetTheorems,
        WellFoundedInduction, TLAPS

------------------------------------------------------------------------------
(* The table of hass.data[DOMAIN].                                          *)

LEMMA FiledIsFinite ==
  /\ Filed \subseteq Entries /\ IsFiniteSet(Filed)
  /\ Cardinality(Filed) \in Nat /\ Cardinality(Filed) \in 0..Cardinality(Entries)
<1>1. Filed \subseteq Entries
  BY DEF Filed
<1>2. IsFiniteSet(Entries) /\ Cardinality(Entries) \in Nat
  BY EyeFiEntryAssumption, FS_CardinalityType
<1>3. IsFiniteSet(Filed) /\ Cardinality(Filed) <= Cardinality(Entries)
  BY <1>1, <1>2, FS_Subset
<1>4. Cardinality(Filed) \in Nat
  BY <1>3, FS_CardinalityType
<1> QED BY <1>1, <1>2, <1>3, <1>4

\* Without the gaps the items keep their order.
LEMMA RankKeepsOrder ==
  ASSUME place \in [Entries -> Nat]
  PROVE  /\ \A f \in Entries : Rank(f) \in 0..Cardinality(Filed)
         /\ \A f \in Entries : Rank(f) > 0 <=> f \in Filed
         /\ \A f, g \in Filed : place[f] < place[g] => Rank(f) < Rank(g)
<1> DEFINE UpTo(f) == {g \in Filed : place[g] <= place[f]}
<1>1. ASSUME NEW f \in Entries
      PROVE  /\ UpTo(f) \in SUBSET Filed /\ IsFiniteSet(UpTo(f)) /\ Rank(f) = Cardinality(UpTo(f))
             /\ Rank(f) \in Nat /\ Rank(f) <= Cardinality(Filed)
  <2>1. UpTo(f) \in SUBSET Filed
    OBVIOUS
  <2> HIDE DEF UpTo
  <2>2. IsFiniteSet(UpTo(f)) /\ Cardinality(UpTo(f)) <= Cardinality(Filed)
    BY <2>1, FiledIsFinite, FS_Subset
  <2>3. Cardinality(UpTo(f)) \in Nat
    BY <2>2, FS_CardinalityType
  <2>4. Rank(f) = Cardinality(UpTo(f))
    BY DEF Rank, UpTo
  <2> QED BY <2>1, <2>2, <2>3, <2>4
<1>2. ASSUME NEW f \in Entries PROVE Rank(f) > 0 <=> f \in Filed
  <2>1. UpTo(f) # {} <=> f \in Filed
    <3>1. CASE f \in Filed
      BY <3>1
    <3>2. CASE f \notin Filed
      BY <3>2 DEF Filed
    <3> QED BY <3>1, <3>2
  <2> HIDE DEF UpTo
  <2>2. Cardinality(UpTo(f)) = 0 <=> UpTo(f) = {}
    BY <1>1, FS_EmptySet
  <2> QED BY <1>1, <2>1, <2>2
<1>3. ASSUME NEW f \in Filed, NEW g \in Filed, place[f] < place[g]
      PROVE  Rank(f) < Rank(g)
  <2>1. f \in Entries /\ g \in Entries
    BY FiledIsFinite
  <2>2. place[f] \in Nat /\ place[g] \in Nat /\ \A x \in Filed : place[x] \in Nat
    BY <2>1, FiledIsFinite
  <2>3. UpTo(f) \in SUBSET UpTo(g) /\ g \in UpTo(g) /\ g \notin UpTo(f)
    BY <1>3, <2>2
  <2> HIDE DEF UpTo
  <2>4. IsFiniteSet(UpTo(g)) /\ UpTo(f) # UpTo(g)
    BY <1>1, <2>1, <2>3
  <2>5. /\ Cardinality(UpTo(f)) <= Cardinality(UpTo(g))
        /\ Cardinality(UpTo(f)) # Cardinality(UpTo(g))
    BY <2>3, <2>4, FS_Subset
  <2> QED BY <1>1, <2>1, <2>5
<1> HIDE DEF UpTo
<1>4. \A f \in Entries : Rank(f) \in 0..Cardinality(Filed)
  BY <1>1, FiledIsFinite
<1> QED BY <1>2, <1>3, <1>4

TableOK ==
  /\ place \in [Entries -> Nat] /\ filled \in Nat /\ room \in Nat
  /\ PlacesDiffer

LEMMA FileEffect ==
  ASSUME TableOK, NEW e \in Entries, e \notin Filed, File(e)
  PROVE  /\ TableOK' /\ Filed' = Filed \cup {e}
         /\ \/ /\ filled' > filled /\ place'[e] > filled /\ UNCHANGED rebuilt
               /\ \A f \in Filed : place'[f] = place[f]
            \/ rebuilt' = [c \in Calls |-> rebuilt[c] \/ Visiting(c)]
<1>1. CASE /\ filled < room
           /\ place' = [place EXCEPT ![e] = filled + 1]
           /\ filled' = filled + 1
           /\ UNCHANGED <<room, rebuilt>>
  <2>1. \A f \in Entries : place'[f] = IF f = e THEN filled + 1 ELSE place[f]
    BY <1>1 DEF TableOK, PlacesDiffer
  <2>2. Filed' = Filed \cup {e}
    BY <1>1, <2>1 DEF Filed, TableOK, PlacesDiffer
  <2>3. TableOK'
    BY <1>1, <2>1, <2>2 DEF TableOK, PlacesDiffer, Filed
  <2>4. \A f \in Filed : place'[f] = place[f]
    BY <2>1, FiledIsFinite
  <2> QED BY <1>1, <2>1, <2>2, <2>3, <2>4 DEF TableOK, PlacesDiffer
<1>2. CASE /\ filled = room
           /\ place' = [f \in Entries |-> IF f = e THEN Cardinality(Filed) + 1 ELSE Rank(f)]
           /\ filled' = Cardinality(Filed) + 1
           /\ room' = RoomFor[Cardinality(Filed)]
           /\ rebuilt' = [c \in Calls |-> rebuilt[c] \/ Visiting(c)]
  <2> DEFINE n == Cardinality(Filed)
  <2>1. n \in Nat /\ n \in 0..Cardinality(Entries)
    BY FiledIsFinite
  <2>2. /\ \A f \in Entries : Rank(f) \in Nat /\ Rank(f) <= n /\ (Rank(f) > 0 <=> f \in Filed)
        /\ \A f, g \in Filed : place[f] < place[g] => Rank(f) < Rank(g)
    BY <2>1, RankKeepsOrder DEF TableOK, PlacesDiffer
  <2>3. \A f \in Entries : place'[f] = IF f = e THEN n + 1 ELSE Rank(f)
    BY <1>2
  <2>4. room' \in Nat /\ room' > n /\ filled' = n + 1
    BY <1>2, <2>1, EyeFiEntryAssumption
  <2> HIDE DEF n
  <2>5. \A f \in Entries : f \in Filed' <=> f = e \/ f \in Filed
    BY <2>1, <2>2, <2>3 DEF Filed
  <2>6. Filed' = Filed \cup {e}
    BY <2>5, FiledIsFinite DEF Filed
  <2>7. place' \in [Entries -> Nat]
    BY <1>2, <2>1, <2>2 DEF n
  <2>8. ASSUME NEW f \in Filed', NEW g \in Filed', place'[f] = place'[g] PROVE f = g
    <3>1. f \in Entries /\ g \in Entries
      BY <2>6, FiledIsFinite
    <3>2. CASE f = e \/ g = e
      BY <2>1, <2>2, <2>3, <2>8, <3>1, <3>2
    <3>3. CASE f # e /\ g # e
      <4>1. f \in Filed /\ g \in Filed /\ Rank(f) = Rank(g)
        BY <2>3, <2>6, <2>8, <3>1, <3>3
      <4>2. place[f] \in Nat /\ place[g] \in Nat /\ Rank(f) \in Nat
        BY <2>2, <3>1 DEF TableOK, PlacesDiffer
      <4>3. place[f] = place[g]
        BY <2>2, <4>1, <4>2
      <4> QED BY <4>1, <4>3 DEF TableOK, PlacesDiffer
    <3> QED BY <3>2, <3>3
  <2>9. \A f \in Entries : place'[f] <= filled'
    BY <2>1, <2>2, <2>3, <2>4
  <2> QED BY <1>2, <2>1, <2>4, <2>6, <2>7, <2>8, <2>9 DEF TableOK, PlacesDiffer
<1> QED BY <1>1, <1>2 DEF File

LEMMA PopEffect ==
  ASSUME TableOK, NEW e \in Entries, Pop(e)
  PROVE  /\ TableOK' /\ Filed' = Filed \ {e}
         /\ \A f \in Filed' : place'[f] = place[f]
<1>1. \A f \in Entries : place'[f] = IF f = e THEN 0 ELSE place[f]
  BY DEF Pop, TableOK
<1>2. Filed' = Filed \ {e}
  BY <1>1 DEF Filed
<1> QED BY <1>1, <1>2 DEF TableOK, PlacesDiffer, Pop, Filed


------------------------------------------------------------------------------
(* The cards of a server.                                                   *)

\* Least element of a set of naturals.
LEMMA Least ==
  ASSUME NEW S, S \subseteq Nat, S # {}
  PROVE  \E m \in S : \A k \in S : m <= k
<1> DEFINE R == OpToRel(<, Nat)
<1>1. IsWellFoundedOn(R, Nat)
  BY NatLessThanWellFounded
<1>2. \A x, y \in Nat : <<x, y>> \in R <=> x < y
  BY DEF OpToRel
<1> HIDE DEF R
<1>3. PICK m \in S : \A k \in S : ~ (<<k, m>> \in R)
  BY <1>1, WFMin
<1>4. m \in Nat /\ \A k \in S : k \in Nat /\ ~(k < m)
  BY <1>2, <1>3
<1> QED BY <1>3, <1>4

\* A mac that some card has, some card is the last to have.
LEMMA KeyIsOfLast ==
  ASSUME NEW cards \in Seq(Card), NEW h \in 1..Len(cards)
  PROVE  \E i \in 1..Len(cards) :
           /\ cards[i][1] = cards[h][1] /\ KeyOf(cards, cards[h][1]) = cards[i][2]
           /\ \A j \in (i + 1)..Len(cards) : cards[j][1] # cards[h][1]
<1> DEFINE n == Len(cards)
           m == cards[h][1]
           S == {k \in Nat : k < n /\ cards[n - k][1] = m}
           IsLast(i) == cards[i][1] = m /\ \A j \in (i + 1)..n : cards[j][1] # m
<1>1. n \in Nat /\ DOMAIN cards = 1..n /\ h \in 1..n
  BY LenProperties
<1>2. S \subseteq Nat /\ S # {}
  <2>1. n - h \in Nat /\ n - h < n /\ n - (n - h) = h
    BY <1>1
  <2>2. n - h \in S
    BY <2>1
  <2> QED BY <2>2
<1>3. PICK k \in S : \A x \in S : k <= x
  <2> HIDE DEF S
  <2> QED BY <1>2, Least
<1>4. n - k \in 1..n /\ cards[n - k][1] = m
  BY <1>1, <1>3
<1>5. ASSUME NEW j \in (n - k + 1)..n PROVE cards[j][1] # m
  <2>1. n - j \in Nat /\ n - j < n /\ n - j < k /\ n - (n - j) = j
    BY <1>1, <1>3, <1>4
  <2>2. n - j \notin S
    BY <1>3, <2>1
  <2> QED BY <2>1, <2>2
<1>6. \E i \in 1..n : IsLast(i)
  BY <1>4, <1>5
<1>7. KeyOf(cards, m) = cards[CHOOSE i \in 1..n : IsLast(i)][2]
  BY <1>1 DEF KeyOf
<1> HIDE DEF IsLast
<1>8. PICK i \in 1..n : IsLast(i) /\ KeyOf(cards, m) = cards[i][2]
  BY <1>6, <1>7
<1> QED BY <1>8 DEF IsLast

LEMMA NoCardsServed == NoCards \in Dicts
BY DEF NoCards, Dicts

LEMMA CardsServed ==
  ASSUME NEW cards \in Seq(Card)
  PROVE  /\ CardsOf(cards) \in Dicts
         /\ DOMAIN CardsOf(cards) = {cards[i][1] : i \in 1..Len(cards)}
         /\ \A i \in 1..Len(cards) :
              \/ \E j \in (i + 1)..Len(cards) : cards[j][1] = cards[i][1]
              \/ CardsOf(cards)[cards[i][1]] = cards[i][2]
<1> DEFINE n == Len(cards)
           ms == {cards[i][1] : i \in 1..n}
<1>1. n \in Nat /\ DOMAIN cards = 1..n /\ \A i \in 1..n : cards[i] \in Card
  BY LenProperties, ElementOfSeq
<1>2. CardsOf(cards) = [m \in ms |-> KeyOf(cards, m)]
  BY <1>1 DEF CardsOf
<1>3. ms \in SUBSET Macs
  BY <1>1 DEF Card
<1>4. \A m \in ms : KeyOf(cards, m) \in Keys
  BY <1>1, KeyIsOfLast DEF Card
<1>5. ASSUME NEW h \in 1..n
      PROVE  \/ \E j \in (h + 1)..n : cards[j][1] = cards[h][1]
             \/ KeyOf(cards, cards[h][1]) = cards[h][2]
  <2>1. PICK i \in 1..n :
          /\ cards[i][1] = cards[h][1] /\ KeyOf(cards, cards[h][1]) = cards[i][2]
          /\ \A j \in (i + 1)..n : cards[j][1] # cards[h][1]
    BY KeyIsOfLast
  <2>2. CASE i < h
    BY <1>1, <2>1, <2>2
  <2>3. CASE i = h
    BY <2>1, <2>3
  <2>4. CASE h < i
    BY <1>1, <2>1, <2>4
  <2> QED BY <1>1, <2>2, <2>3, <2>4
<1>6. \A h \in 1..n : cards[h][1] \in ms
  OBVIOUS
<1> HIDE DEF ms
<1>7. CardsOf(cards) \in [ms -> Keys]
  BY <1>2, <1>4
<1> QED BY <1>2, <1>3, <1>5, <1>6, <1>7 DEF Dicts, ms

------------------------------------------------------------------------------
(* Type correctness.                                                        *)

EntriesType ==
  /\ state \in [Entries -> States] /\ port \in [Entries -> Ports]
  /\ saved \in [Entries -> Seq(Card)] /\ \A e \in Entries : Len(saved[e]) <= MaxCards

ServersType ==
  /\ read \in [Entries -> Seq(Card)] /\ \A e \in Entries : Len(read[e]) <= MaxCards
  /\ built \in [Entries -> Dicts] /\ known \in [Entries -> 0..MaxCards]
  /\ listener \in [Ports -> Entries \cup {None}] /\ service \in BOOLEAN

CallsType ==
  /\ call \in [Calls -> CallStates]
  /\ throughout \in [Calls -> SUBSET Entries] /\ rebuilt \in [Calls -> BOOLEAN]

Typed == EntriesType /\ ServersType /\ CallsType

LEMMA TypeParts == TypeOK <=> Typed /\ place \in [Entries -> Nat] /\ filled \in Nat /\ room \in Nat
BY DEF TypeOK, Typed, EntriesType, ServersType, CallsType

LEMMA TableParts == EntryInv => TableOK /\ Typed
BY TypeParts DEF EntryInv, TableOK

\* A set-up or an unload waits, goes on or fails: Home Assistant's state only.
Marks(e) ==
  \/ BeginSetup(e) \/ StartFails(e) \/ Forwarded(e) \/ ForwardRaises(e)
  \/ BeginUnload(e) \/ UnloadRefused(e)

LEMMA NextEntryType ==
  ASSUME place \in [Entries -> Nat], call \in [Calls -> CallStates],
         NEW c \in Calls, NEW used \in Nat, NEW pos \in Nat,
         NEW visited \in Seq(Entries), NextEntry(c, used, pos, visited)
  PROVE  call' \in [Calls -> CallStates]
<1>1. /\ \A p, u \in Nat, v \in Seq(Entries), pc \in {"visiting", "returned", "raised"} :
            At(pc, u, p, v) \in CallStates
      /\ \A k \in CallStates : Moves(c, k) => call' \in [Calls -> CallStates]
  BY DEF At, CallStates, Moves
<1>2. << >> \in Seq(Entries) /\ 0 \in Nat
  BY EmptySeq
<1>3. CASE Returns(c, visited) \/ Raises(c, visited)
  BY <1>1, <1>2, <1>3 DEF Returns, Raises
<1>4. CASE \E e \in Entries : Moves(c, At("visiting", used, place[e], Append(visited, e)))
  <2>1. PICK e \in Entries : Moves(c, At("visiting", used, place[e], Append(visited, e)))
    BY <1>4
  <2>2. place[e] \in Nat /\ Append(visited, e) \in Seq(Entries)
    BY AppendProperties
  <2> QED BY <1>1, <2>1, <2>2
<1> QED BY <1>3, <1>4 DEF NextEntry

LEMMA TypeStep == ASSUME EntryInv, Next PROVE Typed'
<1> USE DEF Typed, table, calls, Goes, States
<1>0. Typed /\ TableOK
  BY TableParts
<1>1. ASSUME NEW e \in Entries, NEW card \in Card, CreateEntry(e, card) PROVE Typed'
  <2>1. <<card>> \in Seq(Card) /\ Len(<<card>>) = 1 /\ 1 <= MaxCards
    BY EyeFiEntryAssumption
  <2> QED BY <1>0, <1>1, <2>1 DEF CreateEntry, EntriesType, ServersType, CallsType
<1>2. ASSUME NEW e \in Entries, NEW card \in Card, AddCard(e, card) PROVE Typed'
  <2>1. /\ Append(saved[e], card) \in Seq(Card) /\ Len(Append(saved[e], card)) = Len(saved[e]) + 1
        /\ Len(saved[e]) \in Nat
    BY <1>0, AppendProperties, LenProperties DEF EntriesType
  <2>2. EntriesType'
    BY <1>0, <1>2, <2>1, EyeFiEntryAssumption DEF AddCard, EntriesType
  <2> QED BY <1>0, <1>2, <2>2 DEF AddCard, ServersType, CallsType
<1>3. ASSUME NEW e \in Entries, Marks(e) PROVE Typed'
  <2>1. << >> \in Seq(Card) /\ Len(<< >>) = 0 /\ 0 <= MaxCards
    BY EyeFiEntryAssumption
  <2>2. EntriesType' /\ CallsType'
    BY <1>0, <1>3
      DEF Marks, BeginSetup, StartFails, Forwarded, ForwardRaises, BeginUnload, UnloadRefused,
          EntriesType, CallsType
  <2>3. ServersType'
    BY <1>0, <1>3, <2>1
      DEF Marks, BeginSetup, StartFails, Forwarded, ForwardRaises, BeginUnload, UnloadRefused,
          EntriesType, ServersType
  <2> QED BY <2>2, <2>3
<1>4. ASSUME NEW e \in Entries, Started(e) PROVE Typed'
  <2>1. /\ CardsOf(read[e]) \in Dicts /\ Len(read[e]) \in 0..MaxCards
        /\ << >> \in Seq(Card) /\ Len(<< >>) = 0 /\ 0 <= MaxCards
    <3>1. read[e] \in Seq(Card) /\ Len(read[e]) <= MaxCards /\ Len(read[e]) \in Nat
      BY <1>0, LenProperties DEF ServersType
    <3>2. Len(read[e]) \in 0..MaxCards
      BY <3>1, EyeFiEntryAssumption
    <3>3. << >> \in Seq(Card) /\ Len(<< >>) = 0 /\ 0 <= MaxCards
      BY EyeFiEntryAssumption
    <3> QED BY <3>1, <3>2, <3>3, CardsServed
  <2>2. EntriesType' /\ ServersType'
    BY <1>0, <1>4, <2>1 DEF Started, EntriesType, ServersType
  <2>3. CallsType'
    BY <1>0, <1>4 DEF Started, File, CallsType
  <2> QED BY <2>2, <2>3
<1>5. ASSUME NEW e \in Entries, Popped(e) PROVE Typed'
  <2>1. NoCards \in Dicts
    BY NoCardsServed
  <2>2. EntriesType' /\ ServersType'
    BY <1>0, <1>5, <2>1, EyeFiEntryAssumption DEF Popped, EntriesType, ServersType
  <2>3. CallsType'
    BY <1>0, <1>5 DEF Popped, Pop, CallsType
  <2> QED BY <2>2, <2>3
<1>6. ASSUME NEW e \in Entries, Stopped(e) PROVE Typed'
  BY <1>0, <1>6 DEF Stopped, EntriesType, ServersType, CallsType
<1>7. ASSUME NEW e \in Entries, RemoveEntry(e) PROVE Typed'
  <2>1. << >> \in Seq(Card) /\ Len(<< >>) = 0
    OBVIOUS
  <2> QED BY <1>0, <1>7, <2>1, EyeFiEntryAssumption
      DEF RemoveEntry, EntriesType, ServersType, CallsType
<1>8. ASSUME NEW c \in Calls, CallStep(c) PROVE Typed'
  <2>1. call' \in [Calls -> CallStates]
    <3>1. << >> \in Seq(Entries) /\ 0 \in Nat /\ Cardinality(Filed) \in Nat
      BY EmptySeq, FiledIsFinite
    <3>2. call[c].used \in Nat /\ call[c].pos \in Nat /\ call[c].visited \in Seq(Entries)
      BY <1>0 DEF CallsType, CallStates
    <3> QED BY <1>0, <1>8, <3>1, <3>2, NextEntryType
        DEF CallStep, BeginCall, EntryDone, CallsType, TableOK
  <2>2. CallsType'
    <3>1. /\ throughout' = throughout \/ throughout' = [throughout EXCEPT ![c] = Filed]
          /\ rebuilt' = rebuilt \/ rebuilt' = [rebuilt EXCEPT ![c] = FALSE]
      BY <1>8 DEF CallStep, BeginCall, EntryDone
    <3>2. throughout' \in [Calls -> SUBSET Entries] /\ rebuilt' \in [Calls -> BOOLEAN]
      BY <1>0, <3>1, FiledIsFinite DEF CallsType
    <3> QED BY <2>1, <3>2 DEF CallsType
  <2>3. UNCHANGED <<state, port, saved, read, built, known, listener, service>>
    BY <1>8 DEF CallStep, BeginCall, EntryDone
  <2> QED BY <1>0, <2>2, <2>3 DEF EntriesType, ServersType
<1>9. CASE Restart
  <2>1. NoCards \in Dicts
    BY NoCardsServed
  <2>2. Idle \in CallStates
    BY EmptySeq DEF Idle, At, CallStates
  <2>3. EntriesType'
    BY <1>0, <1>9 DEF Restart, EntriesType
  <2>4. ServersType'
    <3>1. 0 \in 0..MaxCards /\ << >> \in Seq(Card) /\ Len(<< >>) = 0 /\ 0 <= MaxCards
      BY EyeFiEntryAssumption
    <3> QED BY <1>9, <2>1, <3>1 DEF Restart, ServersType
  <2>5. CallsType'
    BY <1>9, <2>2 DEF Restart, CallsType
  <2> QED BY <2>3, <2>4, <2>5
<1> QED BY <1>1, <1>2, <1>3, <1>4, <1>5, <1>6, <1>7, <1>8, <1>9
    DEF Next, FlowStep, EntryStep, Marks

------------------------------------------------------------------------------
(* Servers, hass.data and the service.                                      *)

LEMMA ServersStep == ASSUME EntryInv, Next PROVE (TableOK /\ ServersFiled /\ ServiceThere)'
<1> USE DEF table, calls
<1>0. TableOK /\ Typed /\ ServersFiled /\ ServiceThere
  BY TableParts DEF EntryInv
<1>1. ASSUME UNCHANGED <<port, listener, table, service>>, Filed' = Filed,
             \A e \in Entries :
               \/ state'[e] = state[e]
               \/ state[e] # "stopping" /\ state'[e] \in {"none", "starting", "setup_error"}
               \/ /\ state[e] # "stopping" /\ state'[e] = "not_loaded" /\ e \notin Filed
               \/ /\ e \in Filed /\ state[e] # "stopping"
                  /\ state'[e] \in {"loaded", "unloading", "failed_unload"}
      PROVE  (TableOK /\ ServersFiled /\ ServiceThere)'
  BY <1>0, <1>1 DEF TableOK, PlacesDiffer, ServersFiled, ServiceThere
<1>2. ASSUME UNCHANGED place PROVE Filed' = Filed
  BY <1>2 DEF Filed
<1>3. ASSUME NEW e \in Entries, NEW card \in Card, CreateEntry(e, card) \/ AddCard(e, card)
      PROVE  (TableOK /\ ServersFiled /\ ServiceThere)'
  <2>1. /\ UNCHANGED <<port, listener, table, service>>
        /\ \A f \in Entries :
             \/ state'[f] = state[f]
             \/ state[f] # "stopping" /\ state'[f] = "not_loaded" /\ f \notin Filed
    <3>1. CASE CreateEntry(e, card)
      <4>1. \A f \in Entries : state'[f] = IF f = e THEN "not_loaded" ELSE state[f]
        BY <1>0, <3>1 DEF CreateEntry, Goes, Typed, EntriesType
      <4> QED BY <3>1, <4>1 DEF CreateEntry
    <3>2. CASE AddCard(e, card)
      BY <3>2 DEF AddCard
    <3> QED BY <1>3, <3>1, <3>2
  <2> QED BY <1>1, <1>2, <2>1
<1>4. ASSUME NEW e \in Entries, Marks(e) \/ RemoveEntry(e)
      PROVE  (TableOK /\ ServersFiled /\ ServiceThere)'
  <2>1. /\ UNCHANGED <<port, listener, table, service>>
        /\ \A f \in Entries :
             \/ state'[f] = state[f]
             \/ state[f] # "stopping" /\ state'[f] \in {"none", "starting", "setup_error"}
             \/ /\ state[f] \in {"forwarding", "loaded", "unloading"}
                /\ state'[f] \in {"loaded", "unloading", "failed_unload"}
    BY <1>0, <1>4 DEF Marks, BeginSetup, StartFails, Forwarded, ForwardRaises, BeginUnload,
       UnloadRefused, RemoveEntry, Goes, Typed, EntriesType
  <2>2. \A f \in Entries : state[f] \in {"forwarding", "loaded", "unloading"} => f \in Filed
    BY <1>0 DEF ServersFiled
  <2> QED BY <1>1, <1>2, <2>1, <2>2
<1>5. ASSUME NEW e \in Entries, Started(e)
      PROVE  (TableOK /\ ServersFiled /\ ServiceThere)'
  <2>1. e \notin Filed
    BY <1>0, <1>5, EyeFiEntryAssumption DEF Started, ServersFiled
  <2>2. TableOK' /\ Filed' = Filed \cup {e}
    BY <1>0, <1>5, <2>1, FileEffect DEF Started
  <2>3. /\ \A f \in Entries : state'[f] = IF f = e THEN "forwarding" ELSE state[f]
        /\ \A t \in Ports : listener'[t] = IF t = port[e] THEN e ELSE listener[t]
        /\ port' = port /\ service' = TRUE
    BY <1>0, <1>5 DEF Started, Goes, Typed, EntriesType, ServersType
  <2>4. ServersFiled'
    BY <1>0, <1>5, <2>2, <2>3, EyeFiEntryAssumption
    DEF Started, ServersFiled, Typed, EntriesType, ServersType
  <2> QED BY <2>2, <2>3, <2>4 DEF ServiceThere
<1>6. ASSUME NEW e \in Entries, Popped(e)
      PROVE  (TableOK /\ ServersFiled /\ ServiceThere)'
  <2>1. TableOK' /\ Filed' = Filed \ {e}
    BY <1>0, <1>6, PopEffect DEF Popped
  <2>2. /\ \A f \in Entries : state'[f] = IF f = e THEN "stopping" ELSE state[f]
        /\ \A t \in Ports : listener'[t] = IF t = port[e] THEN None ELSE listener[t]
        /\ port' = port /\ service' = service
    BY <1>0, <1>6 DEF Popped, Goes, Typed, EntriesType, ServersType
  <2>3. listener[port[e]] = e
    BY <1>0, <1>6 DEF Popped, ServersFiled
  <2>4. ServersFiled'
    BY <1>0, <2>1, <2>2, <2>3, EyeFiEntryAssumption
    DEF ServersFiled, Typed, EntriesType, ServersType
  <2>5. ServiceThere'
    BY <1>0, <2>1, <2>2 DEF ServiceThere
  <2> QED BY <2>1, <2>4, <2>5
<1>7. ASSUME NEW e \in Entries, Stopped(e)
      PROVE  (TableOK /\ ServersFiled /\ ServiceThere)'
  <2>1. UNCHANGED <<port, listener, table>> /\ Filed' = Filed
    BY <1>2, <1>7 DEF Stopped
  <2>2. /\ \A f \in Entries : state'[f] = IF f = e THEN "not_loaded" ELSE state[f]
        /\ state[e] = "stopping" /\ service' = (service /\ Filed # {})
    BY <1>0, <1>7 DEF Stopped, Goes, Typed, EntriesType
  <2>3. TableOK'
    BY <1>0, <2>1 DEF TableOK, PlacesDiffer
  <2>4. ServersFiled'
    BY <1>0, <2>1, <2>2 DEF ServersFiled
  <2>5. ServiceThere'
    BY <1>0, <2>1, <2>2 DEF ServiceThere
  <2> QED BY <2>3, <2>4, <2>5
<1>8. ASSUME NEW c \in Calls, CallStep(c)
      PROVE  (TableOK /\ ServersFiled /\ ServiceThere)'
  <2>1. UNCHANGED <<state, port, listener, table, service>>
    BY <1>8 DEF CallStep, BeginCall, EntryDone
  <2> QED BY <1>1, <1>2, <2>1
<1>9. CASE Restart
  <2>1. RoomFor[0] \in Nat
    BY EyeFiEntryAssumption, FS_CardinalityType
  <2>2. Filed' = {} /\ TableOK'
    BY <1>9, <2>1 DEF Restart, Filed, TableOK, PlacesDiffer
  <2>3. ServersFiled'
    BY <1>0, <1>9, <2>2, EyeFiEntryAssumption DEF Restart, ServersFiled, Typed, EntriesType
  <2>4. ServiceThere'
    BY <1>9, <2>2 DEF Restart, ServiceThere
  <2> QED BY <2>2, <2>3, <2>4
<1> QED BY <1>3, <1>4, <1>5, <1>6, <1>7, <1>8, <1>9 DEF Next, FlowStep, EntryStep, Marks

------------------------------------------------------------------------------
(* Saved cards and those of the running servers.                            *)

HasCards == \A e \in Entries : state[e] # "none" => Len(saved[e]) > 0

Serves(e) ==
  /\ known[e] \in DOMAIN saved[e]
  /\ DOMAIN built[e] = {saved[e][i][1] : i \in 1..known[e]}
  /\ \A i \in 1..known[e] :
       \/ \E j \in (i + 1)..known[e] : saved[e][j][1] = saved[e][i][1]
       \/ built[e][saved[e][i][1]] = saved[e][i][2]

LEMMA ServesAll == ServedWasSaved <=> \A e \in Filed : state[e] # "none" => Serves(e)
BY DEF ServedWasSaved, Serves

\* What becomes of the cards saved in an entry.
LEMMA SavedStep ==
  ASSUME EntryInv, Next, NEW e \in Entries
  PROVE  \/ UNCHANGED saved[e] /\ (state[e] = "none" => state'[e] = "none")
         \/ \E card \in Card : saved'[e] = Append(saved[e], card) /\ UNCHANGED <<state, read>>
         \/ state[e] = "none" /\ Len(saved'[e]) > 0 /\ e \notin Filed
         \/ state'[e] = "none"
<1> USE DEF table, calls, Goes
<1>0. Typed
  BY TableParts
<1>1. ASSUME NEW f \in Entries, NEW card \in Card, CreateEntry(f, card), f = e
      PROVE  state[e] = "none" /\ Len(saved'[e]) > 0 /\ e \notin Filed
  <2>1. saved'[e] = <<card>>
    BY <1>0, <1>1 DEF CreateEntry, Typed, EntriesType
  <2> QED BY <1>1, <2>1 DEF CreateEntry
<1>2. ASSUME NEW f \in Entries, NEW card \in Card, CreateEntry(f, card), f # e
      PROVE  UNCHANGED saved[e] /\ state'[e] = state[e]
  BY <1>0, <1>2 DEF CreateEntry, Typed, EntriesType
<1>3. ASSUME NEW f \in Entries, NEW card \in Card, AddCard(f, card)
      PROVE  /\ UNCHANGED <<state, read>>
             /\ IF f = e THEN saved'[e] = Append(saved[e], card) ELSE UNCHANGED saved[e]
  BY <1>0, <1>3 DEF AddCard, Typed, EntriesType
<1>4. ASSUME NEW f \in Entries, Marks(f) \/ Started(f) \/ Popped(f) \/ Stopped(f)
      PROVE  UNCHANGED saved[e] /\ (state[e] = "none" => state'[e] = "none")
  BY <1>0, <1>4 DEF Marks, BeginSetup, StartFails, Started, Forwarded, ForwardRaises, BeginUnload,
     UnloadRefused, Popped, Stopped, Typed, EntriesType
<1>5. ASSUME NEW f \in Entries, RemoveEntry(f)
      PROVE  \/ UNCHANGED saved[e] /\ state'[e] = state[e]
             \/ state'[e] = "none"
  BY <1>0, <1>5 DEF RemoveEntry, Typed, EntriesType
<1>6. ASSUME NEW c \in Calls, CallStep(c) PROVE UNCHANGED <<saved, state>>
  BY <1>6 DEF CallStep, BeginCall, EntryDone
<1>7. CASE Restart
  BY <1>7 DEF Restart
<1> QED BY <1>1, <1>2, <1>3, <1>4, <1>5, <1>6, <1>7 DEF Next, FlowStep, EntryStep, Marks

LEMMA HasCardsStep == ASSUME EntryInv, HasCards, Next PROVE HasCards'
<1> SUFFICES ASSUME NEW e \in Entries, state'[e] # "none" PROVE Len(saved'[e]) > 0
  BY DEF HasCards
<1>1. saved[e] \in Seq(Card) /\ Len(saved[e]) \in Nat
  BY TableParts, LenProperties DEF Typed, EntriesType
<1>2. CASE UNCHANGED saved[e] /\ (state[e] = "none" => state'[e] = "none")
  BY <1>2 DEF HasCards
<1>3. ASSUME NEW card \in Card, saved'[e] = Append(saved[e], card) PROVE Len(saved'[e]) > 0
  <2>1. Len(saved'[e]) = Len(saved[e]) + 1
    BY <1>1, <1>3, AppendProperties
  <2> QED BY <1>1, <2>1
<1> QED BY <1>2, <1>3, SavedStep

\* While server.start() is awaited, the set-up holds the first cards of its entry.
ReadOK(e) ==
  state[e] = "starting" =>
    /\ Len(read[e]) \in 1..Len(saved[e])
    /\ \A i \in 1..Len(read[e]) : read[e][i] = saved[e][i]

\* An entry is in a set-up after a step if it was before, or the step begins it.
LEMMA StartingStep ==
  ASSUME EntryInv, Next, NEW e \in Entries, state'[e] = "starting"
  PROVE  BeginSetup(e) \/ (state[e] = "starting" /\ UNCHANGED read[e])
<1> USE DEF calls, Goes
<1>0. Typed
  BY TableParts
<1>1. ASSUME NEW f \in Entries, f # e, EntryStep(f)
      PROVE  state'[e] = state[e] /\ UNCHANGED read[e]
  <2>1. \A s : Goes(f, s) => state'[e] = state[e]
    BY <1>0, <1>1 DEF Typed, EntriesType
  <2>2. state'[e] = state[e]
    BY <1>1, <2>1 DEF EntryStep, BeginSetup, StartFails, Started, Forwarded, ForwardRaises,
       BeginUnload, UnloadRefused, Popped, Stopped, RemoveEntry
  <2>3. read'[e] = read[e]
    BY <1>0, <1>1 DEF EntryStep, BeginSetup, StartFails, Started, Forwarded, ForwardRaises,
       BeginUnload, UnloadRefused, Popped, Stopped, RemoveEntry, Typed, ServersType
  <2> QED BY <2>2, <2>3
<1>2. CASE EntryStep(e)
  <2>1. \A s : Goes(e, s) => state'[e] = s
    BY <1>0 DEF Typed, EntriesType
  <2> QED BY <1>2, <2>1 DEF EntryStep, BeginSetup, StartFails, Started, Forwarded, ForwardRaises,
          BeginUnload, UnloadRefused, Popped, Stopped, RemoveEntry
<1>3. CASE FlowStep
  <2>1. ASSUME NEW f \in Entries, NEW card \in Card, CreateEntry(f, card)
        PROVE  state'[e] = state[e] /\ read' = read
    BY <1>0, <2>1 DEF CreateEntry, Typed, EntriesType
  <2> QED BY <1>3, <2>1 DEF FlowStep, AddCard
<1>4. ASSUME NEW c \in Calls, CallStep(c) PROVE UNCHANGED <<state, read>>
  BY <1>4 DEF CallStep, BeginCall, EntryDone
<1>5. ~Restart
  BY DEF Restart
<1> QED BY <1>1, <1>2, <1>3, <1>4, <1>5 DEF Next

LEMMA ReadStep ==
  ASSUME EntryInv, HasCards, NEW e \in Entries, ReadOK(e), Next
  PROVE  ReadOK(e)'
<1> SUFFICES ASSUME state'[e] = "starting"
             PROVE  /\ Len(read'[e]) \in 1..Len(saved'[e])
                    /\ \A i \in 1..Len(read'[e]) : read'[e][i] = saved'[e][i]
  BY DEF ReadOK
<1>1. /\ saved[e] \in Seq(Card) /\ Len(saved[e]) \in Nat
      /\ read[e] \in Seq(Card) /\ Len(read[e]) \in Nat
  BY TableParts, LenProperties DEF Typed, EntriesType, ServersType
<1>2. CASE BeginSetup(e)
  <2>1. read'[e] = saved[e] /\ saved' = saved /\ Len(saved[e]) > 0
    BY <1>2, TableParts DEF BeginSetup, HasCards, Typed, ServersType
  <2> QED BY <1>1, <2>1
<1>3. CASE state[e] = "starting" /\ UNCHANGED read[e]
  <2>1. Len(read[e]) \in 1..Len(saved[e]) /\ \A i \in 1..Len(read[e]) : read[e][i] = saved[e][i]
    BY <1>3 DEF ReadOK
  <2>2. CASE UNCHANGED saved[e]
    BY <1>3, <2>1, <2>2
  <2>3. ASSUME NEW card \in Card, saved'[e] = Append(saved[e], card)
        PROVE  /\ Len(saved'[e]) = Len(saved[e]) + 1
               /\ \A i \in 1..Len(saved[e]) : saved'[e][i] = saved[e][i]
    BY <1>1, <2>3, AppendProperties
  <2>4. ASSUME NEW card \in Card, saved'[e] = Append(saved[e], card)
        PROVE  /\ Len(read'[e]) \in 1..Len(saved'[e])
               /\ \A i \in 1..Len(read'[e]) : read'[e][i] = saved'[e][i]
    BY <1>1, <1>3, <2>1, <2>3, <2>4
  <2> QED BY <1>3, <2>2, <2>4, SavedStep
<1> QED BY <1>2, <1>3, StartingStep

\* A server that is filed after a step was filed before and is as it was, or the
\* step is its set-up.
LEMMA FiledStep ==
  ASSUME EntryInv, Next, NEW e \in Entries, e \in Filed'
  PROVE  Started(e) \/ (e \in Filed /\ UNCHANGED <<built[e], known[e]>>)
<1> USE DEF table, calls
<1>0. Typed /\ TableOK
  BY TableParts
<1>1. ASSUME UNCHANGED <<place, built, known>> PROVE e \in Filed /\ UNCHANGED <<built[e], known[e]>>
  BY <1>1 DEF Filed
<1>2. ASSUME FlowStep PROVE UNCHANGED <<place, built, known>>
  BY <1>2 DEF FlowStep, CreateEntry, AddCard
<1>3. ASSUME NEW f \in Entries, Marks(f) \/ Stopped(f) \/ RemoveEntry(f)
      PROVE  UNCHANGED <<place, built, known>>
  BY <1>3 DEF Marks, BeginSetup, StartFails, Forwarded, ForwardRaises, BeginUnload,
     UnloadRefused, Stopped, RemoveEntry
<1>4. ASSUME NEW f \in Entries, Started(f), f # e
      PROVE  e \in Filed /\ UNCHANGED <<built[e], known[e]>>
  <2>1. f \notin Filed
    BY <1>4, EyeFiEntryAssumption DEF Started, EntryInv, ServersFiled
  <2>2. Filed' = Filed \cup {f}
    BY <1>0, <1>4, <2>1, FileEffect DEF Started
  <2> QED BY <1>0, <1>4, <2>2 DEF Started, Typed, ServersType
<1>5. ASSUME NEW f \in Entries, Popped(f)
      PROVE  e \in Filed /\ UNCHANGED <<built[e], known[e]>>
  <2>1. Filed' = Filed \ {f}
    BY <1>0, <1>5, PopEffect DEF Popped
  <2> QED BY <1>0, <1>5, <2>1 DEF Popped, Typed, ServersType
<1>6. ASSUME NEW c \in Calls, CallStep(c) PROVE UNCHANGED <<place, built, known>>
  BY <1>6 DEF CallStep, BeginCall, EntryDone
<1>7. ~Restart
  BY DEF Restart, Filed
<1> QED BY <1>1, <1>2, <1>3, <1>4, <1>5, <1>6, <1>7 DEF Next, EntryStep, Marks

LEMMA ServedStep ==
  ASSUME EntryInv, \A e \in Entries : ReadOK(e), ServedWasSaved, Next
  PROVE  ServedWasSaved'
<1> SUFFICES ASSUME NEW e \in Entries, e \in Filed', state'[e] # "none" PROVE Serves(e)'
  BY DEF ServedWasSaved, Serves, Filed
<1>1. saved[e] \in Seq(Card) /\ Len(saved[e]) \in Nat /\ DOMAIN saved[e] = 1..Len(saved[e])
  BY TableParts, LenProperties DEF Typed, EntriesType
<1>2. CASE Started(e)
  <2> DEFINE n == Len(read[e])
  <2>1. /\ n \in 1..Len(saved[e]) /\ saved' = saved
        /\ \A i \in 1..n : read[e][i] = saved[e][i]
    BY <1>2 DEF Started, ReadOK
  <2>2. built'[e] = CardsOf(read[e]) /\ known'[e] = n /\ read[e] \in Seq(Card)
    BY <1>2, TableParts DEF Started, Typed, ServersType
  <2>3. /\ DOMAIN CardsOf(read[e]) = {read[e][i][1] : i \in 1..n}
        /\ \A i \in 1..n :
             \/ \E j \in (i + 1)..n : read[e][j][1] = read[e][i][1]
             \/ CardsOf(read[e])[read[e][i][1]] = read[e][i][2]
    BY <2>2, CardsServed
  <2> HIDE DEF n
  <2>4. known'[e] \in DOMAIN saved'[e]
    BY <1>1, <2>1, <2>2
  <2>5. DOMAIN built'[e] = {saved'[e][i][1] : i \in 1..known'[e]}
    BY <2>1, <2>2, <2>3
  <2>6. \A i \in 1..n : \A j \in (i + 1)..n : j \in 1..n
    BY <1>1, <2>1
  <2>7. \A i \in 1..known'[e] :
          \/ \E j \in (i + 1)..known'[e] : saved'[e][j][1] = saved'[e][i][1]
          \/ built'[e][saved'[e][i][1]] = saved'[e][i][2]
    BY <2>1, <2>2, <2>3, <2>6
  <2> QED BY <2>4, <2>5, <2>7 DEF Serves
<1>3. CASE e \in Filed /\ UNCHANGED <<built[e], known[e]>>
  <2>1. state[e] # "none" /\ (UNCHANGED saved[e] \/ \E card \in Card : saved'[e] = Append(saved[e], card))
    BY <1>3, SavedStep
  <2>2. Serves(e)
    BY <1>3, <2>1, ServesAll
  <2>3. ASSUME NEW card \in Card, saved'[e] = Append(saved[e], card) PROVE Serves(e)'
    <3>1. /\ DOMAIN saved'[e] = 1..(Len(saved[e]) + 1)
          /\ \A i \in 1..Len(saved[e]) : saved'[e][i] = saved[e][i]
      BY <1>1, <2>3, AppendProperties, LenProperties
    <3>2. known[e] \in 1..Len(saved[e]) /\ known'[e] = known[e] /\ built'[e] = built[e]
      BY <1>1, <1>3, <2>2 DEF Serves
    <3>3. /\ known'[e] \in DOMAIN saved'[e]
          /\ \A i \in 1..known[e] : saved'[e][i] = saved[e][i]
      BY <1>1, <3>1, <3>2
    <3>4. DOMAIN built'[e] = {saved'[e][i][1] : i \in 1..known'[e]}
      BY <2>2, <3>2, <3>3 DEF Serves
    <3>5. ASSUME NEW i \in 1..known[e]
          PROVE  \/ \E j \in (i + 1)..known[e] : saved'[e][j][1] = saved'[e][i][1]
                 \/ built[e][saved'[e][i][1]] = saved'[e][i][2]
      <4>1. \A j \in (i + 1)..known[e] : saved'[e][j] = saved[e][j]
        BY <3>2, <3>3
      <4> QED BY <2>2, <3>3, <4>1 DEF Serves
    <3> QED BY <3>2, <3>3, <3>4, <3>5 DEF Serves
  <2>4. CASE UNCHANGED saved[e]
    BY <1>3, <2>2, <2>4 DEF Serves
  <2> QED BY <2>1, <2>3, <2>4
<1> QED BY <1>2, <1>3, FiledStep

------------------------------------------------------------------------------
(* The backfill service goes through the entries.                           *)

\* The iterator of a call has met all that is behind it, and no more entries than
\* there were at its start.
CallOK(c) ==
  Visiting(c) =>
    /\ Len(call[c].visited) <= call[c].used /\ throughout[c] \subseteq Filed
    /\ ~rebuilt[c] =>
         /\ call[c].pos <= filled
         /\ \A e \in Filed : place[e] <= call[c].pos => e \in Range(call[c].visited)

Visits(c) ==
  call[c].pc = "returned" /\ ~rebuilt[c] =>
    throughout[c] \subseteq Range(call[c].visited) /\ Once(call[c].visited)

\* As many visits as entries, and every entry visited: none was visited twice.
LEMMA AllOnce ==
  ASSUME NEW visited \in Seq(Entries), Filed \subseteq Range(visited),
         Len(visited) <= Cardinality(Filed)
  PROVE  Once(visited)
<1> DEFINE S == 1..Len(visited)
           T == Range(visited)
<1>1. Len(visited) \in Nat /\ DOMAIN visited = S /\ visited \in [S -> Entries]
  BY LenProperties
<1>2. IsFiniteSet(S) /\ Cardinality(S) = Len(visited)
  BY <1>1, FS_Interval
<1>3. visited \in Surjection(S, T)
  BY <1>1, Fun_RangeProperties
<1> HIDE DEF S, T
<1>4. /\ IsFiniteSet(T) /\ Cardinality(T) <= Cardinality(S)
      /\ Cardinality(T) = Cardinality(S) <=> visited \in Injection(S, T)
  BY <1>2, <1>3, FS_Surjection
<1>5. Cardinality(Filed) <= Cardinality(T) /\ Cardinality(T) \in Nat
  <2>1. Filed \in SUBSET T
    BY DEF T
  <2> QED BY <1>4, <2>1, FS_Subset, FS_CardinalityType
<1>6. Cardinality(T) = Cardinality(S)
  BY <1>1, <1>2, <1>4, <1>5, FiledIsFinite
<1>7. \A i, j \in S : visited[i] = visited[j] => i = j
  BY <1>4, <1>6, Fun_InjectionProperties
<1> QED BY <1>1, <1>7 DEF Once

LEMMA NextEntryStep ==
  ASSUME EntryInv, UNCHANGED table, NEW c \in Calls,
         NEW used \in Nat, NEW pos \in Nat, NEW visited \in Seq(Entries),
         NextEntry(c, used, pos, visited),
         Len(visited) <= used, throughout'[c] \subseteq Filed,
         ~rebuilt'[c] =>
           pos <= filled /\ \A e \in Filed : place[e] <= pos => e \in Range(visited)
  PROVE  CallOK(c)' /\ Visits(c)'
<1>0. TableOK /\ Typed
  BY TableParts
<1>1. Filed' = Filed /\ place' = place /\ filled' = filled
  BY DEF Filed, table
<1>2. \A k : Moves(c, k) => call'[c] = k
  BY <1>0 DEF Moves, Typed, CallsType
<1>3. CASE Raises(c, visited)
  BY <1>2, <1>3 DEF Raises, At, CallOK, Visits, Visiting
<1>4. CASE used = Cardinality(Filed) /\ {e \in Entries : place[e] > pos} = {} /\ Returns(c, visited)
  <2>1. call'[c].pc = "returned" /\ call'[c].visited = visited
    BY <1>2, <1>4 DEF Returns, At
  <2>2. ~rebuilt'[c] => Filed \subseteq Range(visited)
    BY <1>0, <1>4 DEF TableOK, Filed
  <2>3. ~rebuilt'[c] => Once(visited)
    BY <1>4, <2>2, AllOnce
  <2> QED BY <2>1, <2>2, <2>3 DEF CallOK, Visits, Visiting
<1>5. ASSUME NEW e \in Entries, place[e] > pos, Len(visited) < used,
             \A f \in Entries : place[f] > pos => place[e] <= place[f],
             Moves(c, At("visiting", used, place[e], Append(visited, e)))
      PROVE  CallOK(c)' /\ Visits(c)'
  <2>1. /\ call'[c].pc = "visiting" /\ call'[c].used = used /\ call'[c].pos = place[e]
        /\ call'[c].visited = Append(visited, e)
    BY <1>2, <1>5 DEF At
  <2>2. Len(visited) \in Nat /\ Len(Append(visited, e)) = Len(visited) + 1
    BY AppendProperties, LenProperties
  <2>3. Range(visited) \subseteq Range(Append(visited, e)) /\ e \in Range(Append(visited, e))
    <3>1. /\ DOMAIN visited = 1..Len(visited)
          /\ DOMAIN Append(visited, e) = 1..(Len(visited) + 1)
          /\ \A i \in 1..Len(visited) : Append(visited, e)[i] = visited[i]
          /\ Append(visited, e)[Len(visited) + 1] = e
      BY <2>2, AppendProperties, LenProperties
    <3> QED BY <2>2, <3>1 DEF Range
  <2>4. place[e] \in Nat /\ place[e] <= filled /\ e \in Filed
    BY <1>0, <1>5 DEF TableOK, PlacesDiffer, Filed
  <2>5. ASSUME NEW f \in Filed, place[f] <= place[e], ~rebuilt'[c]
        PROVE  f \in Range(Append(visited, e))
    <3>1. f \in Entries /\ place[f] \in Nat
      BY <1>0, FiledIsFinite DEF TableOK
    <3>2. CASE place[f] <= pos
      BY <2>3, <2>5, <3>2
    <3>3. CASE place[f] > pos
      <4>1. place[f] = place[e]
        BY <1>5, <2>4, <2>5, <3>1, <3>3
      <4>2. f = e
        BY <1>0, <2>4, <4>1 DEF TableOK, PlacesDiffer
      <4> QED BY <2>3, <4>2
    <3> QED BY <3>1, <3>2, <3>3
  <2> QED BY <1>1, <1>5, <2>1, <2>2, <2>4, <2>5 DEF CallOK, Visits, Visiting
<1> QED BY <1>3, <1>4, <1>5 DEF NextEntry

LEMMA CallsStep ==
  ASSUME EntryInv, \A c \in Calls : CallOK(c) /\ Visits(c), Next, NEW c \in Calls
  PROVE  CallOK(c)' /\ Visits(c)'
<1> USE DEF table, calls
<1>0. TableOK /\ Typed /\ CallOK(c) /\ Visits(c)
  BY TableParts
<1>1. ASSUME UNCHANGED <<place, filled>>, UNCHANGED <<call[c], throughout[c], rebuilt[c]>>
      PROVE  CallOK(c)' /\ Visits(c)'
  BY <1>0, <1>1 DEF CallOK, Visits, Visiting, Filed
<1>2. ASSUME FlowStep PROVE UNCHANGED <<place, filled, call, throughout, rebuilt>>
  BY <1>2 DEF FlowStep, CreateEntry, AddCard
<1>3. ASSUME NEW e \in Entries, Marks(e) \/ Stopped(e) \/ RemoveEntry(e)
      PROVE  UNCHANGED <<place, filled, call, throughout, rebuilt>>
  BY <1>3 DEF Marks, BeginSetup, StartFails, Forwarded, ForwardRaises, BeginUnload,
     UnloadRefused, Stopped, RemoveEntry
<1>4. ASSUME NEW e \in Entries, Started(e) PROVE CallOK(c)' /\ Visits(c)'
  <2>1. e \notin Filed
    BY <1>4, EyeFiEntryAssumption DEF Started, EntryInv, ServersFiled
  <2>2. /\ Filed' = Filed \cup {e}
        /\ \/ /\ filled' > filled /\ place'[e] > filled /\ UNCHANGED rebuilt
              /\ \A f \in Filed : place'[f] = place[f]
           \/ rebuilt' = [d \in Calls |-> rebuilt[d] \/ Visiting(d)]
    BY <1>0, <1>4, <2>1, FileEffect DEF Started
  <2>3. TableOK'
    BY <1>0, <1>4, <2>1, FileEffect DEF Started
  <2>4. call' = call /\ throughout' = throughout
    BY <1>4 DEF Started
  <2>5. call[c].pos \in Nat /\ rebuilt[c] \in BOOLEAN
    BY <1>0 DEF Typed, CallsType, CallStates
  <2>6. CASE rebuilt' = [d \in Calls |-> rebuilt[d] \/ Visiting(d)]
    BY <1>0, <2>2, <2>4, <2>5, <2>6 DEF CallOK, Visits, Visiting
  <2>7. CASE /\ filled' > filled /\ place'[e] > filled /\ UNCHANGED rebuilt
             /\ \A f \in Filed : place'[f] = place[f]
    <3>1. filled \in Nat /\ filled' \in Nat /\ place'[e] \in Nat
      BY <1>0, <2>3 DEF TableOK
    <3> QED BY <1>0, <2>2, <2>4, <2>5, <2>7, <3>1 DEF CallOK, Visits, Visiting
  <2> QED BY <2>2, <2>6, <2>7
<1>5. ASSUME NEW e \in Entries, Popped(e) PROVE CallOK(c)' /\ Visits(c)'
  <2>1. Filed' = Filed \ {e} /\ \A f \in Filed' : place'[f] = place[f]
    BY <1>0, <1>5, PopEffect DEF Popped
  <2>2. /\ call' = call /\ rebuilt' = rebuilt /\ filled' = filled
        /\ throughout'[c] = throughout[c] \ {e}
    BY <1>5 DEF Popped, Pop
  <2> QED BY <1>0, <2>1, <2>2 DEF CallOK, Visits, Visiting
<1>6. ASSUME NEW d \in Calls, CallStep(d), d # c PROVE CallOK(c)' /\ Visits(c)'
  <2>1. \A k : Moves(d, k) => call'[c] = call[c]
    BY <1>0, <1>6 DEF Moves, Typed, CallsType
  <2>2. UNCHANGED <<place, filled>> /\ call'[c] = call[c]
    BY <1>6, <2>1 DEF CallStep, BeginCall, EntryDone, NextEntry, Returns, Raises
  <2>3. throughout'[c] = throughout[c] /\ rebuilt'[c] = rebuilt[c]
    BY <1>0, <1>6 DEF CallStep, BeginCall, EntryDone, Typed, CallsType
  <2> QED BY <1>1, <2>2, <2>3
<1>7. CASE BeginCall(c)
  <2>1. UNCHANGED table /\ NextEntry(c, Cardinality(Filed), 0, << >>)
    BY <1>7 DEF BeginCall
  <2>2. throughout'[c] = Filed
    BY <1>0, <1>7 DEF BeginCall, Typed, CallsType
  <2>3. << >> \in Seq(Entries) /\ Len(<< >>) = 0 /\ Cardinality(Filed) \in Nat
    BY EmptySeq, FiledIsFinite
  <2>4. 0 <= filled /\ \A e \in Filed : place[e] <= 0 => e \in Range(<< >>)
    BY <1>0 DEF TableOK, Filed
  <2>5. 0 \in Nat /\ Len(<< >>) <= Cardinality(Filed) /\ throughout'[c] \subseteq Filed
    BY <2>2, <2>3
  <2> HIDE DEF table
  <2> QED BY <2>1, <2>3, <2>4, <2>5, NextEntryStep
<1>8. CASE EntryDone(c)
  <2>1. /\ UNCHANGED table /\ Visiting(c) /\ throughout' = throughout /\ rebuilt' = rebuilt
        /\ NextEntry(c, call[c].used, call[c].pos, call[c].visited)
    BY <1>8 DEF EntryDone
  <2>2. call[c].used \in Nat /\ call[c].pos \in Nat /\ call[c].visited \in Seq(Entries)
    BY <1>0 DEF Typed, CallsType, CallStates
  <2> QED BY <1>0, <2>1, <2>2, NextEntryStep DEF CallOK
<1>9. CASE Restart
  <2>1. call'[c].pc = "idle"
    BY <1>9 DEF Restart, Idle, At
  <2> QED BY <2>1 DEF CallOK, Visits, Visiting
<1> QED BY <1>1, <1>2, <1>3, <1>4, <1>5, <1>6, <1>7, <1>8, <1>9
    DEF Next, EntryStep, Marks, CallStep

------------------------------------------------------------------------------
(* The theorems.                                                            *)

Inv ==
  /\ EntryInv /\ HasCards /\ ServedWasSaved /\ \A e \in Entries : ReadOK(e)
  /\ \A c \in Calls : CallOK(c) /\ Visits(c)

LEMMA InitInv == ASSUME Init PROVE Inv
<1> USE DEF Init
<1>1. Filed = {}
  BY DEF Filed
<1>2. EntriesType
  <2>1. << >> \in Seq(Card) /\ Len(<< >>) = 0
    OBVIOUS
  <2> QED BY <2>1, EyeFiEntryAssumption DEF EntriesType, States
<1>3. ServersType
  <2>1. NoCards \in Dicts
    BY NoCardsServed
  <2>2. 0 \in 0..MaxCards /\ << >> \in Seq(Card) /\ Len(<< >>) = 0 /\ 0 <= MaxCards
    BY EyeFiEntryAssumption
  <2> QED BY <2>1, <2>2 DEF ServersType
<1>4. CallsType
  <2>1. Idle \in CallStates
    BY EmptySeq DEF Idle, At, CallStates
  <2> QED BY <2>1 DEF CallsType
<1>5. RoomFor[0] \in Nat
  BY EyeFiEntryAssumption, FS_CardinalityType
<1>6. TypeOK
  BY <1>2, <1>3, <1>4, <1>5, TypeParts DEF Typed
<1>7. PlacesDiffer /\ ServersFiled /\ ServiceThere
  BY <1>1, <1>2, <1>5, EyeFiEntryAssumption
  DEF PlacesDiffer, ServersFiled, ServiceThere, EntriesType
<1>8. HasCards /\ ServedWasSaved /\ \A e \in Entries : ReadOK(e)
  BY <1>1 DEF HasCards, ServedWasSaved, ReadOK
<1>9. \A c \in Calls : CallOK(c) /\ Visits(c)
  BY DEF CallOK, Visits, Visiting, Idle, At
<1> QED BY <1>6, <1>7, <1>8, <1>9 DEF Inv, EntryInv

LEMMA NextInv == ASSUME Inv, [Next]_vars PROVE Inv'
<1>1. CASE Next
  <2>1. TypeOK' /\ PlacesDiffer' /\ ServersFiled' /\ ServiceThere'
    <3>1. Typed' /\ (TableOK /\ ServersFiled /\ ServiceThere)'
      BY <1>1, TypeStep, ServersStep DEF Inv
    <3>2. TypeOK'
      BY <3>1 DEF TypeOK, Typed, EntriesType, ServersType, CallsType, TableOK
    <3> QED BY <3>1, <3>2 DEF TableOK
  <2>2. HasCards' /\ ServedWasSaved' /\ \A e \in Entries : ReadOK(e)'
    BY <1>1, HasCardsStep, ReadStep, ServedStep DEF Inv
  <2>3. \A c \in Calls : CallOK(c)' /\ Visits(c)'
    BY <1>1, CallsStep DEF Inv
  <2> QED BY <2>1, <2>2, <2>3 DEF Inv, EntryInv
<1>2. CASE UNCHANGED vars
  BY <1>2 DEF vars, table, calls, Inv, EntryInv, TypeOK, PlacesDiffer, ServersFiled,
     ServiceThere, HasCards, ReadOK, ServedWasSaved, CallOK, Visits, Visiting, Filed
<1> QED BY <1>1, <1>2

LEMMA Invariance == Spec => []Inv
<1>1. Init => Inv
  BY InitInv
<1>2. Inv /\ [Next]_vars => Inv'
  BY NextInv
<1> QED BY <1>1, <1>2, PTL DEF Spec

\* Set-ups, listeners, hass.data and the service fit together, whatever set-ups
\* fail half-way, whatever is reloaded, removed or restarted.
THEOREM EntryInvariant == Spec => []EntryInv
<1>1. Inv => EntryInv
  BY DEF Inv
<1> QED BY <1>1, Invariance, PTL

\* A running server knows the first cards of its entry, all there were when its
\* set-up began, each with the key saved last for its mac, whatever is added while
\* server.start() is awaited.
THEOREM ServesWhatWasSaved == Spec => []ServedWasSaved
<1>1. Inv => ServedWasSaved
  BY DEF Inv
<1> QED BY <1>1, Invariance, PTL

\* A call of the backfill service that returns has visited every entry that was
\* there throughout, and none twice, unless the table was rebuilt meanwhile.
THEOREM VisitsEachOnce == Spec => []VisitsEach
<1>1. Inv => VisitsEach
  BY DEF Inv, Visits, VisitsEach
<1> QED BY <1>1, Invariance, PTL
=============================================================================
