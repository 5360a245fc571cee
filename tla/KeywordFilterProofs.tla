------------------------- MODULE KeywordFilterProofs -------------------------
(* Proofs about KeywordFilter, for any keywords, symbols and bounds.       *)
EXTENDS KeywordFilter, TLAPS

(* Everything received, the entry that is being searched included.         *)
Stream == received \o entry

(* Positions, and the types that TypeOK leaves loose.                      *)
Typing ==
  /\ TypeOK
  /\ \A i \in 1..Len(keywords) :
       since[i] <= Len(received) /\ reach[i] <= Base
  /\ at <= Len(keywords) \/ Searching

(* The carry is the tail of what was received, and it is long enough for   *)
(* every keyword, or reaches back to where that keyword's search began.    *)
CarryIsTail ==
  /\ Len(carry) <= Len(received)
  /\ \A j \in 1..Len(carry) : carry[j] = received[Base + j]
  /\ \A i \in 1..Len(keywords) :
       Base = reach[i] \/ Len(keywords[i]) - 1 <= Len(carry)

(* The occurrence of the i-th keyword that ends at e has been passed by    *)
(* the search.                                                             *)
Passed(i, e) ==
  \/ e <= Len(received)
  \/ Searching /\ i < at
  \/ Searching /\ i = at /\ e < Base + from + Len(keywords[i])

OwedInStream(i, e) ==
  /\ e > since[i] /\ e >= reach[i] + Len(keywords[i])
  /\ EndsAt(Stream, keywords[i], e)

IsHit(i, e) == \E n \in 1..Len(hits) : hits[n] = <<i, e>>

HitsSoFar ==
  /\ \A i \in 1..Len(keywords), e \in Nat :
       IsHit(i, e) <=> OwedInStream(i, e) /\ Passed(i, e)
  /\ \A m, n \in 1..Len(hits) : hits[m] = hits[n] => m = n

IInv == Typing /\ CarryIsTail /\ HitsSoFar

-----------------------------------------------------------------------------
(* Lemmas about sequences and about the search.                            *)

(* Keywords are sequences of at least one symbol.                          *)
LEMMA KeywordIsSeq ==
  ASSUME Typing, NEW i \in 1..Len(keywords)
  PROVE  /\ keywords[i] \in Seq(Symbols)
         /\ Len(keywords[i]) \in Nat \ {0}
<1>1. keywords[i] \in Keywords
  BY DEF Typing, TypeOK
<1> QED
  BY <1>1, FilterAssumption

(* The types of the variables, one by one.                                 *)
LEMMA Types ==
  ASSUME Typing
  PROVE  /\ carry \in Seq(Symbols) /\ entry \in Seq(Symbols)
         /\ received \in Seq(Symbols)
         /\ Len(carry) \in Nat /\ Len(entry) \in Nat /\ Len(received) \in Nat
         /\ \A i \in 1..Len(keywords) : since[i] \in Nat /\ reach[i] \in Nat
<1>1. /\ carry \in Seq(Symbols) /\ entry \in Seq(Symbols)
      /\ received \in Seq(Symbols)
  BY DEF Typing, TypeOK
<1>2. /\ since \in Seq(Nat) /\ Len(since) = Len(keywords)
      /\ reach \in Seq(Nat) /\ Len(reach) = Len(keywords)
  BY DEF Typing, TypeOK
<1>3. ASSUME NEW i \in 1..Len(keywords)
      PROVE  since[i] \in Nat /\ reach[i] \in Nat
  BY <1>2
<1> QED
  BY <1>1, <1>3

(* An occurrence within a prefix is one in the whole.                      *)
LEMMA EndsInPrefix ==
  ASSUME NEW S, NEW s \in Seq(S), NEW t \in Seq(S), NEW k \in Seq(S),
         NEW e \in Nat, e <= Len(s)
  PROVE  EndsAt(s \o t, k, e) <=> EndsAt(s, k, e)
<1>1. CASE Len(k) <= e
  <2>1. \A j \in 1..Len(k) : (s \o t)[(e - Len(k)) + j] = s[(e - Len(k)) + j]
    BY <1>1
  <2>2. /\ Len(s \o t) = Len(s) + Len(t)
        /\ Len(s) \in Nat /\ Len(t) \in Nat /\ Len(k) \in Nat
    OBVIOUS
  <2>3. (e - Len(k)) + Len(k) <= Len(s) /\ (e - Len(k)) + Len(k) <= Len(s \o t)
    BY <1>1, <2>2
  <2> QED
    BY <1>1, <2>1, <2>3 DEF EndsAt, OccursAt
<1>2. CASE ~(Len(k) <= e)
  BY <1>2 DEF EndsAt
<1> QED
  BY <1>1, <1>2

(* Hay is the tail of the stream that begins at Base.                      *)
LEMMA HayIsTail ==
  ASSUME Typing, CarryIsTail
  PROVE  /\ Base \in Nat
         /\ Hay \in Seq(Symbols) /\ Stream \in Seq(Symbols)
         /\ Len(Hay) = Len(carry) + Len(entry)
         /\ Len(Stream) = Len(received) + Len(entry)
         /\ Len(Stream) = Base + Len(Hay)
         /\ \A j \in 1..Len(Hay) : Hay[j] = Stream[Base + j]
<1>1. /\ carry \in Seq(Symbols) /\ entry \in Seq(Symbols)
      /\ received \in Seq(Symbols)
  BY DEF Typing, TypeOK
<1>2. Base \in Nat
  BY <1>1 DEF CarryIsTail, Base
<1>3. /\ Len(Hay) = Len(carry) + Len(entry)
      /\ Len(Stream) = Len(received) + Len(entry)
  BY <1>1 DEF Hay, Stream
<1>4. ASSUME NEW j \in 1..Len(Hay)
      PROVE  Hay[j] = Stream[Base + j]
  <2>1. CASE j <= Len(carry)
    <3>1. Hay[j] = carry[j]
      BY <1>1, <1>3, <2>1 DEF Hay
    <3>2. Stream[Base + j] = received[Base + j]
      BY <1>1, <1>2, <2>1 DEF Stream, Base
    <3> QED
      BY <3>1, <3>2, <2>1, <1>1 DEF CarryIsTail
  <2>2. CASE j > Len(carry)
    <3>1. Hay[j] = entry[j - Len(carry)]
      BY <1>1, <1>3, <2>2 DEF Hay
    <3>2. Stream[Base + j] = entry[(Base + j) - Len(received)]
      BY <1>1, <1>2, <1>3, <2>2 DEF Stream, Base
    <3> QED
      BY <3>1, <3>2, <1>1, <1>3 DEF Base
  <2> QED
    BY <2>1, <2>2, <1>1, <1>3
<1> QED
  BY <1>1, <1>2, <1>3, <1>4 DEF Hay, Stream, Base

(* What find_subslice finds are the occurrences in the stream.             *)
LEMMA FoundInStream ==
  ASSUME Typing, CarryIsTail, NEW i \in 1..Len(keywords), NEW p \in Nat
  PROVE  OccursAt(Hay, keywords[i], p)
           <=> EndsAt(Stream, keywords[i], Base + p + Len(keywords[i]))
<1> DEFINE k == keywords[i]
<1>1. k \in Seq(Symbols) /\ Len(k) \in Nat
  BY KeywordIsSeq
<1>2. /\ Base \in Nat /\ Len(Hay) \in Nat /\ Len(Stream) = Base + Len(Hay)
      /\ \A j \in 1..Len(Hay) : Hay[j] = Stream[Base + j]
  BY HayIsTail
<1> HIDE DEF k
<1>3. ASSUME p + Len(k) <= Len(Hay), NEW j \in 1..Len(k)
      PROVE  Hay[p + j] = Stream[(Base + p) + j]
  BY <1>1, <1>2, <1>3
<1>4. (Base + p + Len(k)) - Len(k) = Base + p
  BY <1>1, <1>2
<1>5. p + Len(k) <= Len(Hay) <=> (Base + p) + Len(k) <= Len(Stream)
  BY <1>1, <1>2
<1>6. OccursAt(Hay, k, p) <=> OccursAt(Stream, k, Base + p)
  BY <1>1, <1>3, <1>5 DEF OccursAt
<1>7. Len(k) <= Base + p + Len(k)
  BY <1>1, <1>2
<1> QED
  BY <1>4, <1>6, <1>7 DEF EndsAt, k

(* No occurrence that is owed and ends in the entry begins before Hay.     *)
LEMMA OwedBeginsInHay ==
  ASSUME Typing, CarryIsTail, NEW i \in 1..Len(keywords), NEW e \in Nat,
         e > Len(received), e >= reach[i] + Len(keywords[i])
  PROVE  /\ e - Len(keywords[i]) - Base \in Nat
         /\ e = Base + (e - Len(keywords[i]) - Base) + Len(keywords[i])
<1>1. Len(keywords[i]) \in Nat
  BY KeywordIsSeq
<1>2. /\ Base \in Nat /\ Base = Len(received) - Len(carry)
      /\ Len(carry) \in Nat /\ Len(received) \in Nat
  BY HayIsTail, Types DEF Base
<1>3. reach[i] \in Nat
  BY Types
<1> QED
  BY <1>1, <1>2, <1>3 DEF CarryIsTail

(* max_carry is a length, and enough for every keyword.                    *)
LEMMA MaxCarryEnough ==
  ASSUME Typing
  PROVE  /\ MaxCarry \in Nat
         /\ \A i \in 1..Len(keywords) : Len(keywords[i]) - 1 <= MaxCarry
<1> DEFINE K == {keywords[i] : i \in 1..Len(keywords)}
           L == {Len(keywords[i]) : i \in 1..Len(keywords)}
<1>1. K \in (SUBSET Keywords) \ {{}}
  <2>1. keywords \in Seq(Keywords) /\ Len(keywords) >= 1
    BY DEF Typing, TypeOK
  <2>2. K # {}
    BY <2>1
  <2>3. K \subseteq Keywords
    <3>1. \A i \in 1..Len(keywords) : keywords[i] \in Keywords
      BY <2>1
    <3> QED
      BY <3>1
  <2> QED
    BY <2>2, <2>3
<1>2. PICK k \in K : \A m \in K : Len(m) <= Len(k)
  BY <1>1, FilterAssumption
<1>3. L \subseteq Nat \ {0}
  BY KeywordIsSeq
<1>4. Len(k) \in L /\ \A y \in L : Len(k) >= y
  BY <1>2, <1>3
<1>5. Max(L) \in L /\ \A y \in L : Max(L) >= y
  BY <1>4 DEF Max
<1>6. MaxCarry = Max(L) - 1
  BY DEF MaxCarry
<1>7. \A i \in 1..Len(keywords) : Len(keywords[i]) \in L
  OBVIOUS
<1>8. Max(L) \in Nat \ {0}
  BY <1>3, <1>5
<1>9. ASSUME NEW i \in 1..Len(keywords)
      PROVE  Len(keywords[i]) - 1 <= MaxCarry
  <2>1. Len(keywords[i]) \in L
    BY <1>7
  <2>2. Max(L) >= Len(keywords[i]) /\ Len(keywords[i]) \in Nat
    BY <1>3, <1>5, <2>1
  <2> HIDE DEF L
  <2> QED
    BY <1>6, <1>8, <2>2
<1>10. MaxCarry \in Nat
  <2> HIDE DEF L
  <2> QED
    BY <1>6, <1>8
<1> QED
  BY <1>9, <1>10

-----------------------------------------------------------------------------
(* Type correctness of the steps, positions included.                      *)

(* The filter begins with nothing received, carried or reported.           *)
LEMMA InitIInv == Init => IInv
<1> SUFFICES ASSUME Init PROVE IInv
  OBVIOUS
<1>1. keywords \in Seq(Keywords) /\ Len(keywords) \in Nat \ {0}
  <2>1. PICK n \in 1..MaxListed : keywords \in [1..n -> Keywords]
    BY DEF Init, Lists
  <2>2. n \in Nat \ {0}
    BY FilterAssumption
  <2> QED
    BY <2>1, <2>2
<1>2. Typing
  BY <1>1 DEF Init, Typing, TypeOK, Base, Hay
<1>3. CarryIsTail
  BY <1>1 DEF Init, CarryIsTail, Base
<1>4. HitsSoFar
  <2>1. ASSUME NEW i \in 1..Len(keywords), NEW e \in Nat
        PROVE  ~IsHit(i, e) /\ ~(OwedInStream(i, e) /\ Passed(i, e))
    BY DEF Init, IsHit, OwedInStream, Passed, Searching
  <2> QED
    BY <2>1 DEF Init, HitsSoFar
<1> QED
  BY <1>2, <1>3, <1>4 DEF IInv

(* A keyword is added between two entries.                                 *)
LEMMA AddKeywordIInv == IInv /\ AddKeyword => IInv'
<1> SUFFICES ASSUME IInv, AddKeyword PROVE IInv'
  OBVIOUS
<1>0. PICK N \in Nat : N = Len(keywords)
  BY DEF IInv, Typing, TypeOK
<1>1. /\ Typing /\ CarryIsTail /\ HitsSoFar /\ entry = <<>>
      /\ UNCHANGED <<carry, entry, at, from, received, hits>>
      /\ since' = Append(since, Len(received)) /\ reach' = Append(reach, Base)
  BY DEF IInv, AddKeyword, searchVars, Searching
<1>2. PICK k \in Keywords : keywords' = Append(keywords, k)
  BY DEF AddKeyword
<1>3. /\ keywords' \in Seq(Keywords) \ {<<>>} /\ Len(keywords') = N + 1
      /\ N \in Nat \ {0}
      /\ \A i \in 1..N : keywords'[i] = keywords[i]
  <2>1. keywords \in Seq(Keywords) /\ keywords # <<>>
    BY <1>1 DEF Typing, TypeOK
  <2>2. Len(keywords') = N + 1 /\ N # 0
    BY <2>1, <1>0, <1>2
  <2> QED
    BY <2>1, <2>2, <1>0, <1>2
<1>4. /\ Base \in Nat /\ Base' = Base /\ Hay' = Hay /\ Stream' = Stream
      /\ Stream = received
  BY <1>1, HayIsTail DEF Base, Hay, Stream, Typing, TypeOK
<1>5. /\ since' \in Seq(Nat) /\ Len(since') = N + 1
      /\ reach' \in Seq(Nat) /\ Len(reach') = N + 1
      /\ \A i \in 1..N : since'[i] = since[i] /\ reach'[i] = reach[i]
      /\ since'[N + 1] = Len(received) /\ reach'[N + 1] = Base
  <2>1. /\ since \in Seq(Nat) /\ reach \in Seq(Nat)
        /\ Len(since) = N /\ Len(reach) = N /\ Len(received) \in Nat
    BY <1>0, <1>1 DEF Typing, TypeOK
  <2> QED
    BY <2>1, <1>1, <1>4
<1>6. Typing'
  <2>1. at' \in 1..Len(keywords') + 1 /\ at' <= Len(keywords')
    BY <1>0, <1>1, <1>3 DEF Typing, TypeOK, Searching
  <2>2. from' \in 0..Len(Hay')
    BY <1>0, <1>1, <1>4 DEF Typing, TypeOK
  <2>3. hits' \in Seq((1..Len(keywords')) \X Nat)
    BY SMTT(30), <1>0, <1>1, <1>3 DEF Typing, TypeOK
  <2>4. TypeOK'
    BY <2>1, <2>2, <2>3, <1>1, <1>3, <1>5 DEF Typing, TypeOK
  <2>5. ASSUME NEW i \in 1..Len(keywords')
        PROVE  since'[i] <= Len(received') /\ reach'[i] <= Base'
    <3>1. CASE i \in 1..N
      BY <3>1, <1>0, <1>1, <1>4, <1>5 DEF Typing
    <3>2. CASE i = N + 1
      BY <3>2, <1>0, <1>1, <1>4, <1>5 DEF Typing, TypeOK
    <3> QED
      BY <3>1, <3>2, <1>3
  <2> QED
    BY <2>1, <2>4, <2>5 DEF Typing
<1>7. CarryIsTail'
  BY <1>0, <1>1, <1>3, <1>4, <1>5 DEF CarryIsTail
<1>8. HitsSoFar'
  <2>1. ASSUME NEW i \in 1..N, NEW e \in Nat
        PROVE  IsHit(i, e)' <=> (OwedInStream(i, e) /\ Passed(i, e))'
    <3>1. IsHit(i, e)' <=> IsHit(i, e)
      BY <1>1 DEF IsHit
    <3>2. IsHit(i, e) <=> OwedInStream(i, e) /\ Passed(i, e)
      BY <1>0, <1>1 DEF HitsSoFar
    <3>3. OwedInStream(i, e)' <=> OwedInStream(i, e)
      BY <1>3, <1>4, <1>5 DEF OwedInStream
    <3>4. Passed(i, e)' <=> Passed(i, e)
      BY <1>1 DEF Passed, Searching
    <3> QED
      BY <3>1, <3>2, <3>3, <3>4
  <2>2. ASSUME NEW e \in Nat
        PROVE  ~IsHit(N + 1, e)' /\ ~OwedInStream(N + 1, e)'
    <3>1. ~IsHit(N + 1, e)'
      <4>0. hits \in Seq((1..N) \X Nat)
        BY <1>0, <1>1 DEF Typing, TypeOK
      <4>1. \A n \in 1..Len(hits) : hits[n] \in (1..N) \X Nat
        BY <4>0
      <4> QED
        BY <1>0, <1>1, <1>3, <4>1 DEF IsHit
    <3>2. ASSUME e > Len(received) PROVE ~EndsAt(received, k, e)
      <4>1. Len(k) \in Nat /\ Len(received) \in Nat
        BY <1>1, Types, FilterAssumption
      <4> QED
        BY <4>1, <3>2 DEF EndsAt, OccursAt
    <3>3. keywords'[N + 1] = k
      BY <1>0, <1>1, <1>2, <1>3 DEF Typing, TypeOK
    <3> QED
      BY <3>1, <3>2, <3>3, <1>1, <1>4, <1>5 DEF OwedInStream
  <2>3. ASSUME NEW i \in 1..Len(keywords'), NEW e \in Nat
        PROVE  IsHit(i, e)' <=> (OwedInStream(i, e) /\ Passed(i, e))'
    <3>1. CASE i \in 1..N
      BY <2>1, <3>1
    <3>2. CASE i = N + 1
      BY <2>2, <3>2
    <3> QED
      BY <3>1, <3>2, <1>3
  <2> QED
    BY <2>3, <1>1 DEF HitsSoFar
<1> QED
  BY <1>6, <1>7, <1>8 DEF IInv

(* The search of a keyword begins: what it owes is not passed yet, what    *)
(* ends before the entry is.                                               *)
LEMMA NotPassedYet ==
  ASSUME Typing, CarryIsTail, NEW i \in 1..Len(keywords), NEW e \in Nat,
         e > Len(received), e >= reach[i] + Len(keywords[i])
  PROVE  e >= Base + Len(keywords[i])
<1>1. /\ Len(keywords[i]) \in Nat \ {0} /\ reach[i] \in Nat /\ Base \in Nat
      /\ Len(carry) \in Nat /\ Len(received) \in Nat
  BY KeywordIsSeq, HayIsTail, Types
<1>2. CASE Base = reach[i]
  BY <1>1, <1>2
<1>3. CASE Len(keywords[i]) - 1 <= Len(carry)
  <2>1. Base = Len(received) - Len(carry)
    BY DEF Base
  <2> QED
    BY <2>1, <1>1, <1>3
<1> QED
  BY <1>2, <1>3 DEF CarryIsTail

(* An entry arrives: nothing that ends in it is reported.                  *)
LEMMA TakeEntryIInv == IInv /\ TakeEntry => IInv'
<1> SUFFICES ASSUME IInv, TakeEntry PROVE IInv'
  OBVIOUS
<1>1. /\ Typing /\ CarryIsTail /\ HitsSoFar /\ entry = <<>>
      /\ UNCHANGED <<keywords, carry, received, since, reach, hits>>
      /\ at' = 1 /\ from' = 0 /\ Base' = Base
  BY DEF IInv, TakeEntry, Searching, Base
<1>2. entry' \in Seq(Symbols) /\ entry' # <<>>
  <2>1. PICK n \in 1..MaxEntry : entry' \in [1..n -> Symbols]
    BY DEF TakeEntry, Entries
  <2>2. n \in Nat \ {0}
    BY FilterAssumption
  <2> QED
    BY <2>1, <2>2
<1>3. Typing'
  <2>1. Hay' \in Seq(Symbols)
    BY <1>1, <1>2, Types DEF Hay
  <2>2. keywords # <<>> /\ keywords \in Seq(Keywords)
    BY <1>1 DEF Typing, TypeOK
  <2>3. TypeOK'
    BY <2>1, <2>2, <1>1, <1>2 DEF Typing, TypeOK
  <2> QED
    BY <2>2, <2>3, <1>1, <1>2 DEF Typing, Searching
<1>4. CarryIsTail'
  BY <1>1 DEF CarryIsTail
<1>5. ASSUME NEW i \in 1..Len(keywords), NEW e \in Nat
      PROVE  IsHit(i, e)' <=> (OwedInStream(i, e) /\ Passed(i, e))'
  <2>1. IsHit(i, e)' <=> OwedInStream(i, e) /\ Passed(i, e)
    BY <1>1 DEF HitsSoFar, IsHit
  <2>2. Passed(i, e) <=> e <= Len(received)
    BY <1>1 DEF Passed, Searching
  <2>3. CASE e <= Len(received)
    <3>1. Passed(i, e)'
      BY <1>1, <2>3 DEF Passed
    <3>2. /\ Stream = received \o entry /\ Stream' = received \o entry'
          /\ keywords[i] \in Seq(Symbols)
      BY <1>1, KeywordIsSeq DEF Stream
    <3>3. /\ EndsAt(Stream, keywords[i], e) <=> EndsAt(received, keywords[i], e)
          /\ EndsAt(Stream', keywords[i], e) <=> EndsAt(received, keywords[i], e)
      BY <3>2, <2>3, <1>1, <1>2, Types, EndsInPrefix
    <3> QED
      BY <2>1, <2>2, <2>3, <3>1, <3>3, <1>1 DEF OwedInStream
  <2>4. CASE e > Len(received)
    <3>1. ~IsHit(i, e)'
      BY <2>1, <2>2, <2>4, <1>1, Types
    <3>2. ASSUME OwedInStream(i, e)' PROVE ~Passed(i, e)'
      <4>1. e >= reach[i] + Len(keywords[i])
        BY <3>2, <1>1 DEF OwedInStream
      <4>3. e >= Base + Len(keywords[i])
        BY <4>1, <2>4, <1>1, NotPassedYet
      <4>2. i >= 1 /\ Base \in Nat /\ Len(keywords[i]) \in Nat /\ Len(received) \in Nat
        BY <1>1, HayIsTail, KeywordIsSeq, Types
      <4> QED
        BY <4>2, <4>3, <2>4, <1>1 DEF Passed
    <3> QED
      BY <3>1, <3>2
  <2> QED
    BY <2>3, <2>4, <1>1, Types
<1> QED
  BY <1>1, <1>3, <1>4, <1>5 DEF IInv, HitsSoFar

(* The next match of a keyword is the next of its occurrences, and it is   *)
(* reported if it is new.                                                  *)
LEMMA FindNextIInv == IInv /\ FindNext => IInv'
<1> SUFFICES ASSUME IInv, FindNext PROVE IInv'
  OBVIOUS
<1>1. /\ Typing /\ CarryIsTail /\ HitsSoFar /\ Searching
      /\ at \in 1..Len(keywords)
      /\ UNCHANGED <<keywords, carry, entry, at, received, since, reach>>
      /\ Base' = Base /\ Hay' = Hay /\ Stream' = Stream /\ Searching'
  BY DEF IInv, FindNext, Typing, TypeOK, Searching, Base, Hay, Stream
<1>2. PICK p \in Nat :
        /\ p \in Found /\ \A q \in Found : p <= q
        /\ from' = p + 1
        /\ IF p + Len(keywords[at]) > Len(carry)
             THEN hits' = Append(hits, <<at, Base + p + Len(keywords[at])>>)
             ELSE UNCHANGED hits
  <2>1. Found \subseteq Nat
    BY <1>1 DEF Found, Typing, TypeOK
  <2> QED
    BY <2>1 DEF FindNext, NextFrom, ReachesEntry
(* The numbers of the step.                                                *)
<1>3. PICK b \in Nat, c \in Nat, r \in Nat, h \in Nat, l \in Nat, s \in Nat :
        /\ b = Base /\ c = Len(carry) /\ r = Len(received) /\ h = Len(Hay)
        /\ l = Len(keywords[at]) /\ s = from
        /\ l >= 1 /\ r = b + c /\ c <= h /\ Len(Stream) = b + h
  <2>1. /\ Base \in Nat /\ Len(carry) \in Nat /\ Len(received) \in Nat
        /\ Len(entry) \in Nat /\ Len(Hay) = Len(carry) + Len(entry)
        /\ Len(Stream) = Base + Len(Hay)
    BY <1>1, HayIsTail, Types
  <2>2. Len(keywords[at]) \in Nat \ {0} /\ from \in Nat
    BY <1>1, KeywordIsSeq DEF Typing, TypeOK
  <2>3. Len(Hay) \in Nat /\ Len(carry) <= Len(Hay)
    BY <2>1
  <2>4. Len(received) = Base + Len(carry)
    BY <2>1 DEF Base
  <2> USE <2>1, <2>2, <2>3, <2>4
  <2> WITNESS Base \in Nat, Len(carry) \in Nat, Len(received) \in Nat,
              Len(Hay) \in Nat, Len(keywords[at]) \in Nat, from \in Nat
  <2> QED
    OBVIOUS
<1>4. PICK end \in Nat : end = b + p + l
  OBVIOUS
<1>5. /\ s <= p /\ p + l <= h
      /\ OccursAt(Hay, keywords[at], p) /\ EndsAt(Stream, keywords[at], end)
  <2>1. s <= p /\ OccursAt(Hay, keywords[at], p)
    BY <1>2, <1>3 DEF Found
  <2>2. p + l <= h
    BY <2>1, <1>3 DEF OccursAt
  <2>3. EndsAt(Stream, keywords[at], Base + p + Len(keywords[at]))
    BY <1>1, <2>1, FoundInStream
  <2> QED
    BY <2>1, <2>2, <2>3, <1>3, <1>4
<1>6. IF end > r THEN hits' = Append(hits, <<at, end>>) ELSE hits' = hits
  <2>1. p + l > c <=> end > r
    <3>1. r = b + c
      BY <1>3
    <3> QED
      BY <3>1, <1>4
  <2>2. Base + p + Len(keywords[at]) = end
    <3>1. Base + p + Len(keywords[at]) = b + p + l
      BY <1>3
    <3> QED
      BY <3>1, <1>4
  <2> QED
    BY <2>1, <2>2, <1>2, <1>3
<1>7. hits \in Seq((1..Len(keywords)) \X Nat)
  BY <1>1 DEF Typing, TypeOK
<1>8. ASSUME NEW i \in 1..Len(keywords), NEW e \in Nat
      PROVE  /\ Passed(i, e)  <=> e <= r \/ i < at \/ (i = at /\ e < b + s + l)
             /\ Passed(i, e)' <=> e <= r \/ i < at \/ (i = at /\ e < end + 1)
  <2>1. (b + (p + 1)) + l = end + 1
    BY <1>4
  <2>2. Base + from' + Len(keywords[at]) = end + 1
    BY <2>1, <1>2, <1>3
  <2> QED
    BY <2>2, <1>1, <1>3 DEF Passed
<1>9. Typing'
  <2>1. hits' \in Seq((1..Len(keywords)) \X Nat)
    <3>1. <<at, end>> \in (1..Len(keywords)) \X Nat
      BY <1>1
    <3>2. CASE hits' = Append(hits, <<at, end>>)
      BY <3>1, <3>2, <1>7
    <3>3. CASE hits' = hits
      BY <3>3, <1>7
    <3> QED
      BY <3>2, <3>3, <1>6
  <2>2. from' \in 0..Len(Hay)
    BY <1>2, <1>3, <1>5
  <2> QED
    BY <2>1, <2>2, <1>1 DEF Typing, TypeOK
<1>10. CarryIsTail'
  BY <1>1 DEF CarryIsTail
(* The step passes the occurrence at p and no other one.                   *)
<1>11. ASSUME NEW i \in 1..Len(keywords), NEW e \in Nat, OwedInStream(i, e)
       PROVE  Passed(i, e)' <=> Passed(i, e) \/ (i = at /\ e = end)
  <2>1. CASE e <= r \/ i # at
    BY <2>1, <1>3, <1>4, <1>5, <1>8
  <2>2. CASE e > r /\ i = at
    <3>1. e - Len(keywords[i]) - Base \in Nat
      <4>1. e > Len(received) /\ e >= reach[i] + Len(keywords[i])
        BY <2>2, <1>3, <1>11 DEF OwedInStream
      <4> QED
        BY <4>1, <1>1, OwedBeginsInHay
    <3>2. PICK q \in Nat : e = b + q + l
      <4>1. PICK q \in Nat : q = e - l - b
        BY <3>1, <2>2, <1>3
      <4> QED
        BY <4>1
    <3>3. EndsAt(Stream, keywords[at], Base + q + Len(keywords[at]))
      BY <3>2, <2>2, <1>3, <1>11 DEF OwedInStream
    <3>4. OccursAt(Hay, keywords[at], q)
      BY <3>3, <1>1, FoundInStream
    <3>5. q + l <= h
      BY <3>4, <1>3 DEF OccursAt
    <3>6. q >= s => p <= q
      <4>1. q >= s => q \in Found
        BY <3>4, <3>5, <1>3 DEF Found
      <4> QED
        BY <4>1, <1>2
    <3>7. /\ Passed(i, e) <=> q < s
          /\ Passed(i, e)' <=> q < p + 1
          /\ e = end <=> q = p
      BY <3>2, <2>2, <1>4, <1>8
    <3> QED
      BY <3>6, <3>7, <2>2, <1>5
  <2> QED
    BY <2>1, <2>2
<1>12. CASE end > r
  <2>1. hits' = Append(hits, <<at, end>>)
    BY <1>12, <1>6
  <2>2. ~Passed(at, end)
    <3>1. ~(end < b + s + l) /\ ~(end <= r) /\ at \in Nat
      BY <1>12, <1>1, <1>4, <1>5
    <3> QED
      BY <3>1, <1>1, <1>8
  <2>3. OwedInStream(at, end)
    <3>1. since[at] <= r /\ reach[at] <= b
      BY <1>1, <1>3 DEF Typing
    <3>2. since[at] \in Nat /\ reach[at] \in Nat
      BY <1>1, Types
    <3>3. end > since[at] /\ end >= reach[at] + l
      BY <3>1, <3>2, <1>12, <1>4
    <3> QED
      BY <3>3, <1>3, <1>5 DEF OwedInStream
  <2>4. ~IsHit(at, end)
    BY <2>2, <1>1 DEF HitsSoFar
  <2>5. \A i \in 1..Len(keywords), e \in Nat :
          IsHit(i, e)' <=> IsHit(i, e) \/ (i = at /\ e = end)
    <3>1. /\ Len(hits') = Len(hits) + 1 /\ Len(hits) \in Nat
          /\ hits'[Len(hits) + 1] = <<at, end>>
          /\ \A n \in 1..Len(hits) : hits'[n] = hits[n]
      BY <2>1, <1>7
    <3> QED
      BY <3>1, <1>1 DEF IsHit
  <2>6. ASSUME NEW i \in 1..Len(keywords), NEW e \in Nat
        PROVE  IsHit(i, e)' <=> (OwedInStream(i, e) /\ Passed(i, e))'
    <3>1. OwedInStream(i, e)' <=> OwedInStream(i, e)
      BY <1>1 DEF OwedInStream
    <3>2. IsHit(i, e) <=> OwedInStream(i, e) /\ Passed(i, e)
      BY <1>1 DEF HitsSoFar
    <3> QED
      BY <3>1, <3>2, <2>3, <2>5, <1>11
  <2>7. \A m, n \in 1..Len(hits') : hits'[m] = hits'[n] => m = n
    <3>1. \A n \in 1..Len(hits) : hits[n] # <<at, end>>
      BY <2>4 DEF IsHit
    <3>2. \A m, n \in 1..Len(hits) : hits[m] = hits[n] => m = n
      BY <1>1 DEF HitsSoFar
    <3>3. /\ Len(hits') = Len(hits) + 1 /\ Len(hits) \in Nat
          /\ hits'[Len(hits) + 1] = <<at, end>>
          /\ \A n \in 1..Len(hits) : hits'[n] = hits[n]
      BY <2>1, <1>7
    <3> QED
      BY <3>1, <3>2, <3>3
  <2> QED
    BY <2>6, <2>7, <1>1, <1>9, <1>10 DEF IInv, HitsSoFar
<1>13. CASE ~(end > r)
  <2>1. hits' = hits
    BY <1>13, <1>6
  <2>2. Passed(at, end)
    BY <1>13, <1>1, <1>8
  <2>3. ASSUME NEW i \in 1..Len(keywords), NEW e \in Nat
        PROVE  IsHit(i, e)' <=> (OwedInStream(i, e) /\ Passed(i, e))'
    <3>1. OwedInStream(i, e)' <=> OwedInStream(i, e)
      BY <1>1 DEF OwedInStream
    <3>2. IsHit(i, e)' <=> OwedInStream(i, e) /\ Passed(i, e)
      BY <2>1, <1>1 DEF HitsSoFar, IsHit
    <3> QED
      BY <3>1, <3>2, <2>2, <1>11
  <2> QED
    BY <2>1, <2>3, <1>1, <1>9, <1>10 DEF IInv, HitsSoFar
<1> QED
  BY <1>12, <1>13

(* A keyword has no further match: whatever it owes is passed, and nothing *)
(* of the next one is.                                                     *)
LEMMA NextKeywordIInv == IInv /\ NextKeyword => IInv'
<1> SUFFICES ASSUME IInv, NextKeyword PROVE IInv'
  OBVIOUS
<1>1. /\ Typing /\ CarryIsTail /\ HitsSoFar /\ Searching
      /\ at \in 1..Len(keywords) /\ at' = at + 1 /\ from' = 0
      /\ UNCHANGED <<keywords, carry, entry, received, since, reach, hits>>
      /\ Base' = Base /\ Hay' = Hay /\ Stream' = Stream /\ Searching'
  BY DEF IInv, NextKeyword, Typing, TypeOK, Searching, Base, Hay, Stream
<1>2. \A p \in from..Len(Hay) : ~OccursAt(Hay, keywords[at], p)
  BY DEF NextKeyword, Found
<1>3. /\ Base \in Nat /\ Len(Hay) \in Nat /\ Len(received) \in Nat
      /\ from \in Nat /\ Len(keywords) \in Nat
  BY SMTT(30), <1>1, HayIsTail, Types DEF Typing, TypeOK
<1>4. Typing'
  <2>1. at' \in 1..Len(keywords') + 1 /\ from' \in 0..Len(Hay')
    BY <1>1, <1>3
  <2> QED
    BY <2>1, <1>1 DEF Typing, TypeOK
<1>5. CarryIsTail'
  BY <1>1 DEF CarryIsTail
<1>6. ASSUME NEW i \in 1..Len(keywords), NEW e \in Nat, OwedInStream(i, e),
             e > Len(received)
      PROVE  Passed(i, e)' <=> Passed(i, e)
  <2>1. PICK l \in Nat, b \in Nat, s \in Nat :
          l = Len(keywords[i]) /\ b = Base /\ s = from
    BY <1>1, <1>3, KeywordIsSeq
  <2>2. e >= reach[i] + Len(keywords[i])
    BY <1>6 DEF OwedInStream
  <2>3. e >= b + l
    BY <2>1, <2>2, <1>1, <1>6, NotPassedYet
  <2>4. ~(e < b + 0 + l)
    BY <2>3
  <2>5. Passed(i, e)' <=> i < at + 1
    BY <2>1, <2>4, <1>1, <1>3, <1>6 DEF Passed
  <2>6. CASE i = at
    <3>1. e - Len(keywords[i]) - Base \in Nat
      BY <2>2, <1>1, <1>6, OwedBeginsInHay
    <3>2. PICK q \in Nat : e = b + q + l
      <4>1. PICK q \in Nat : q = e - l - b
        BY <3>1, <2>1
      <4> QED
        BY <4>1
    <3>3. EndsAt(Stream, keywords[at], Base + q + Len(keywords[at]))
      BY <3>2, <2>1, <2>6, <1>6 DEF OwedInStream
    <3>4. OccursAt(Hay, keywords[at], q)
      BY <3>3, <1>1, FoundInStream
    <3>5. q <= Len(Hay)
      <4>1. q + l <= Len(Hay)
        BY <3>4, <2>1, <2>6 DEF OccursAt
      <4> QED
        BY <4>1, <1>3
    <3>6. q < s
      BY <3>4, <3>5, <2>1, <1>2, <1>3
    <3>7. e < b + s + l
      BY <3>2, <3>6
    <3>8. Passed(i, e)
      BY <3>7, <2>1, <2>6, <1>1 DEF Passed
    <3> QED
      BY <3>8, <2>5, <2>6, <1>1
  <2>7. CASE i # at
    <3>1. Passed(i, e) <=> i < at
      <4>1. ~(e <= Len(received))
        BY <1>3, <1>6
      <4> QED
        BY <4>1, <2>7, <1>1 DEF Passed
    <3> QED
      BY <3>1, <2>5, <2>7, <1>1
  <2> QED
    BY <2>6, <2>7
<1>7. ASSUME NEW i \in 1..Len(keywords), NEW e \in Nat
      PROVE  IsHit(i, e)' <=> (OwedInStream(i, e) /\ Passed(i, e))'
  <2>1. OwedInStream(i, e)' <=> OwedInStream(i, e)
    BY <1>1 DEF OwedInStream
  <2>2. IsHit(i, e)' <=> OwedInStream(i, e) /\ Passed(i, e)
    BY <1>1 DEF HitsSoFar, IsHit
  <2>3. e <= Len(received) => Passed(i, e) /\ Passed(i, e)'
    BY <1>1 DEF Passed
  <2> QED
    BY <2>1, <2>2, <2>3, <1>3, <1>6
<1> QED
  BY <1>1, <1>4, <1>5, <1>7 DEF IInv, HitsSoFar

(* The search ends: all that is owed has been passed, and the new carry is *)
(* the tail of what has been received now.                                 *)
LEMMA KeepCarryIInv == IInv /\ KeepCarry => IInv'
<1> SUFFICES ASSUME IInv, KeepCarry PROVE IInv'
  OBVIOUS
<1>1. /\ Typing /\ CarryIsTail /\ HitsSoFar /\ Searching /\ at > Len(keywords)
      /\ UNCHANGED <<keywords, since, reach, hits>>
      /\ received' = Stream /\ entry' = <<>> /\ at' = 1 /\ from' = 0
      /\ ~Searching'
  BY DEF IInv, KeepCarry, Searching, Stream
<1>2. PICK b \in Nat, h \in Nat, r \in Nat :
        /\ b = Base /\ h = Len(Hay) /\ r = Len(received)
        /\ Len(Stream) = b + h /\ r <= b + h /\ Len(carry) <= h
  <2>1. /\ Base \in Nat /\ Len(Hay) \in Nat /\ Len(received) \in Nat
        /\ Len(carry) \in Nat /\ Len(entry) \in Nat
        /\ Len(Hay) = Len(carry) + Len(entry)
        /\ Len(Stream) = Base + Len(Hay)
        /\ Len(Stream) = Len(received) + Len(entry)
    BY <1>1, HayIsTail, Types
  <2>2. Len(received) <= Base + Len(Hay) /\ Len(carry) <= Len(Hay)
    BY <2>1
  <2> USE <2>1, <2>2
  <2> WITNESS Base \in Nat, Len(Hay) \in Nat, Len(received) \in Nat
  <2> QED
    OBVIOUS
<1>3. /\ Hay \in Seq(Symbols) /\ Stream \in Seq(Symbols)
      /\ \A j \in 1..h : Hay[j] = Stream[b + j]
  BY <1>1, <1>2, HayIsTail
<1>4. PICK k \in Nat :
        /\ k <= h /\ (k = MaxCarry \/ k = h)
        /\ carry' = SubSeq(Hay, h - k + 1, h)
  <2>1. MaxCarry \in Nat
    BY <1>1, MaxCarryEnough
  <2>2. carry' = LET keep == IF MaxCarry < h THEN MaxCarry ELSE h
                 IN  SubSeq(Hay, h - keep + 1, h)
    BY <1>2 DEF KeepCarry
  <2>3. CASE MaxCarry < h
    <3> WITNESS MaxCarry \in Nat
    <3> QED
      BY <2>1, <2>2, <2>3
  <2>4. CASE ~(MaxCarry < h)
    BY <2>2, <2>4
  <2> QED
    BY <2>3, <2>4
<1>5. PICK d \in Nat : d = h - k
  BY <1>4
<1>6. /\ carry' \in Seq(Symbols) /\ Len(carry') = k
      /\ \A j \in 1..k : carry'[j] = Hay[d + j]
  BY SMTT(30), <1>2, <1>3, <1>4, <1>5
<1>7. PICK n \in Nat : n = b + d
  OBVIOUS
<1>8. Base' = n /\ Len(received') = b + h
  <2>1. Len(received') = b + h
    BY <1>1, <1>2
  <2>2. (b + h) - k = n
    BY <1>4, <1>5, <1>7
  <2> QED
    BY <2>1, <2>2, <1>6 DEF Base
<1>9. Stream' = Stream
  BY <1>1, <1>3 DEF Stream
<1>10. CarryIsTail'
  <2>1. Len(carry') <= Len(received')
    BY <1>4, <1>6, <1>8
  <2>2. ASSUME NEW j \in 1..k PROVE carry'[j] = received'[Base' + j]
    <3>1. carry'[j] = Hay[d + j] /\ d + j \in 1..h
      BY <1>4, <1>5, <1>6
    <3>2. Hay[d + j] = Stream[b + (d + j)]
      BY <3>1, <1>3
    <3>3. b + (d + j) = n + j
      BY <1>7
    <3> QED
      BY <3>1, <3>2, <3>3, <1>1, <1>8
  <2>3. ASSUME NEW i \in 1..Len(keywords)
        PROVE  Base' = reach[i] \/ Len(keywords[i]) - 1 <= Len(carry')
    <3>1. CASE k = MaxCarry
      BY <3>1, <1>1, <1>6, MaxCarryEnough
    <3>2. CASE k = h
      <4>1. Base' = b
        BY <3>2, <1>5, <1>7, <1>8
      <4>2. Base = reach[i] \/ Len(keywords[i]) - 1 <= Len(carry)
        BY <1>1 DEF CarryIsTail
      <4>3. Len(keywords[i]) \in Nat /\ Len(carry) \in Nat
        BY <1>1, KeywordIsSeq, Types
      <4> QED
        BY <4>1, <4>2, <4>3, <3>2, <1>2, <1>6
    <3> QED
      BY <3>1, <3>2, <1>4
  <2> QED
    BY <2>1, <2>2, <2>3, <1>1, <1>6 DEF CarryIsTail
<1>11. Typing'
  <2>1. keywords # <<>> /\ keywords \in Seq(Keywords)
    BY <1>1 DEF Typing, TypeOK
  <2>2. at' \in 1..Len(keywords') + 1 /\ at' <= Len(keywords')
    BY <2>1, <1>1
  <2>3. Hay' \in Seq(Symbols)
    BY <1>1, <1>6 DEF Hay
  <2>4. TypeOK'
    BY <2>1, <2>2, <2>3, <1>1, <1>3, <1>6 DEF Typing, TypeOK
  <2>5. ASSUME NEW i \in 1..Len(keywords)
        PROVE  since[i] <= Len(received') /\ reach[i] <= Base'
    <3>1. since[i] <= r /\ reach[i] <= b /\ since[i] \in Nat /\ reach[i] \in Nat
      BY <1>1, <1>2, Types DEF Typing
    <3> QED
      BY <3>1, <1>2, <1>7, <1>8
  <2> QED
    BY <2>2, <2>4, <2>5, <1>1 DEF Typing
<1>12. ASSUME NEW i \in 1..Len(keywords), NEW e \in Nat
       PROVE  IsHit(i, e)' <=> (OwedInStream(i, e) /\ Passed(i, e))'
  <2>1. OwedInStream(i, e)' <=> OwedInStream(i, e)
    BY <1>1, <1>9 DEF OwedInStream
  <2>2. IsHit(i, e)' <=> OwedInStream(i, e) /\ Passed(i, e)
    BY <1>1 DEF HitsSoFar, IsHit
  <2>3. Passed(i, e)
    BY <1>1 DEF Passed, Typing, TypeOK
  <2>4. OwedInStream(i, e) => e <= Len(received')
    <3>1. Len(keywords[i]) \in Nat
      BY <1>1, KeywordIsSeq
    <3>2. OwedInStream(i, e) =>
            (e - Len(keywords[i])) + Len(keywords[i]) <= Len(Stream)
      BY DEF OwedInStream, EndsAt, OccursAt
    <3> QED
      BY <3>1, <3>2, <1>1, <1>2
  <2>5. OwedInStream(i, e) => Passed(i, e)'
    BY <2>4 DEF Passed
  <2> QED
    BY <2>1, <2>2, <2>3, <2>5
<1> QED
  BY <1>1, <1>10, <1>11, <1>12 DEF IInv, HitsSoFar

LEMMA IInvStep == IInv /\ [Next]_vars => IInv'
<1> SUFFICES ASSUME IInv, [Next]_vars PROVE IInv'
  OBVIOUS
<1>1. CASE AddKeyword
  BY <1>1, AddKeywordIInv
<1>2. CASE TakeEntry
  BY <1>2, TakeEntryIInv
<1>3. CASE FindNext
  BY <1>3, FindNextIInv
<1>4. CASE NextKeyword
  BY <1>4, NextKeywordIInv
<1>5. CASE KeepCarry
  BY <1>5, KeepCarryIInv
<1>6. CASE UNCHANGED vars
  BY <1>6 DEF vars, searchVars, IInv, Typing, TypeOK, CarryIsTail, HitsSoFar,
              IsHit, OwedInStream, Passed, Stream, Base, Hay, Searching
<1> QED
  BY <1>1, <1>2, <1>3, <1>4, <1>5, <1>6 DEF Next, Search

LEMMA IInvIsInvariant == Spec => []IInv
<1> QED
  BY InitIInv, IInvStep, PTL DEF Spec

-----------------------------------------------------------------------------
(* Theorems.                                                               *)

(* Every variable keeps its type; in particular the search of the stream   *)
(* task (daemon.rs:322-359) never starts behind the end of the hay.        *)
THEOREM TypeCorrect == Spec => []TypeOK
<1>1. IInv => TypeOK
  BY DEF IInv, Typing
<1> QED
  BY <1>1, IInvIsInvariant, PTL

(* Whatever keywords are registered when, and however the stream is cut    *)
(* into entries, the filter (daemon.rs:311-372) reports every occurrence   *)
(* that it owes, once, and nothing else.                                   *)
THEOREM FilterIsExact == Spec => []HitsExact
<1>1. ASSUME IInv PROVE HitsExact
  <2> SUFFICES ASSUME ~Searching PROVE HitsExact
    BY DEF HitsExact
  <2>1. Typing /\ CarryIsTail /\ HitsSoFar
    BY <1>1 DEF IInv
  <2>2. Stream = received
    BY <2>1, Types DEF Stream, Searching
  <2>3. Len(received) \in Nat
    BY <2>1, Types
  <2>4. ASSUME NEW i \in 1..Len(keywords), NEW e \in 1..Len(received)
        PROVE  Owed(i, e) <=> \E n \in 1..Len(hits) : hits[n] = <<i, e>>
    <3>1. e \in Nat /\ Passed(i, e)
      BY <2>3 DEF Passed
    <3> QED
      BY <3>1, <2>1, <2>2 DEF HitsSoFar, IsHit, OwedInStream, Owed
  <2>5. ASSUME NEW n \in 1..Len(hits) PROVE hits[n][2] <= Len(received)
    <3>1. hits[n] \in (1..Len(keywords)) \X Nat
      BY SMTT(30), <2>1 DEF Typing, TypeOK
    <3>2. PICK i \in 1..Len(keywords), e \in Nat : hits[n] = <<i, e>>
      BY <3>1
    <3>3. Passed(i, e)
      BY <3>2, <2>1 DEF HitsSoFar, IsHit
    <3> QED
      BY <3>2, <3>3 DEF Passed
  <2>6. \A m, n \in 1..Len(hits) : hits[m] = hits[n] => m = n
    BY <2>1 DEF HitsSoFar
  <2> QED
    BY <2>4, <2>5, <2>6 DEF HitsExact
<1> QED
  BY <1>1, IInvIsInvariant, PTL
==============================================================================
