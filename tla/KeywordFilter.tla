---------------------------- MODULE KeywordFilter ----------------------------
(***************************************************************************)
(* The search of a keyword filter (FilterState and the filter part of the  *)
(* stream task, daemon.rs).  The entries of a port arrive one after the    *)
(* other; keywords may lie across their boundaries, so the tail of what    *)
(* was searched is kept as carry and searched again in front of the next   *)
(* entry.  The keywords of a list are searched one by one, and a hit is    *)
(* pushed (and awaited) where it is found, so a step is one turn of the    *)
(* innermost loop.  Positions are those of the code: hay starts at 0.      *)
(*                                                                         *)
(* received, since, reach and hits are history: what was searched, and     *)
(* what the client was told.                                               *)
(***************************************************************************)
EXTENDS Naturals, Sequences, FiniteSetsExt

CONSTANTS
  Symbols,        \* the bytes that keywords and entries are made of
  Keywords,       \* the keywords that clients register
  MaxListed,      \* bound: keywords in a list
  MaxEntry,       \* bound: bytes per entry
  MaxStream       \* bound: bytes received

(* Empty keywords are filtered out by filter_rx and add_filter_rx.  Among  *)
(* any of the keywords there is a longest one.                             *)
ASSUME FilterAssumption ==
  /\ Keywords \subseteq Seq(Symbols) \ {<<>>}
  /\ \A K \in (SUBSET Keywords) \ {{}} : \E k \in K : \A m \in K : Len(m) <= Len(k)
  /\ MaxListed \in Nat /\ MaxEntry \in Nat /\ MaxStream \in Nat

VARIABLES
  keywords,       \* the Vec of keywords
  carry,          \* the tail of received that is searched again
  entry,          \* the entry that is being searched, or <<>>
  at,             \* index of the keyword that is being searched
  from,           \* search_from
  received,       \* history: all bytes of the entries searched before
  since,          \* history: since[i] bytes had been received when i was listed
  reach,          \* history: and of those all but reach[i] were in the carry
  hits            \* history: the hits, <<keyword's index, end in the stream>>

searchVars == <<carry, entry, at, from>>
vars == <<keywords, searchVars, received, since, reach, hits>>

Lists == UNION {[1..n -> Keywords] : n \in 1..MaxListed}
Entries == UNION {[1..n -> Symbols] : n \in 1..MaxEntry}

Hay == carry \o entry
Base == Len(received) - Len(carry)      \* position of hay in the stream
Searching == entry # <<>>

TypeOK ==
  /\ keywords \in Seq(Keywords) \ {<<>>}
  /\ carry \in Seq(Symbols) /\ entry \in Seq(Symbols) /\ received \in Seq(Symbols)
  /\ at \in 1..Len(keywords) + 1
  /\ from \in 0..Len(Hay)
  /\ since \in Seq(Nat) /\ Len(since) = Len(keywords)
  /\ reach \in Seq(Nat) /\ Len(reach) = Len(keywords)
  /\ hits \in Seq((1..Len(keywords)) \X Nat)

(* The stream task applies AddFilter.                                      *)
Init ==
  /\ keywords \in Lists
  /\ carry = <<>> /\ entry = <<>> /\ at = 1 /\ from = 0
  /\ received = <<>>
  /\ since = [i \in 1..Len(keywords) |-> 0] /\ reach = since
  /\ hits = <<>>

(* find_subslice.                                                          *)
OccursAt(s, k, p) == /\ p + Len(k) <= Len(s)
                     /\ \A j \in 1..Len(k) : s[p + j] = k[j]

Found == {p \in from..Len(Hay) : OccursAt(Hay, keywords[at], p)}

(* max_carry.                                                              *)
MaxCarry == Max({Len(keywords[i]) : i \in 1..Len(keywords)}) - 1

(* SetFilterKeywords, as add_filter_rx sends it: a new keyword behind the  *)
(* others.  Commands are applied between two polls only.                   *)
AddKeyword ==
  /\ ~Searching
  /\ Len(keywords) < MaxListed
  /\ \E k \in Keywords : /\ \A i \in 1..Len(keywords) : keywords[i] # k
                         /\ keywords' = Append(keywords, k)
  /\ since' = Append(since, Len(received))
  /\ reach' = Append(reach, Base)
  /\ UNCHANGED <<searchVars, received, hits>>

TakeEntry ==
  /\ ~Searching
  /\ \E e \in Entries : Len(received) + Len(e) <= MaxStream /\ entry' = e
  /\ at' = 1 /\ from' = 0
  /\ UNCHANGED <<keywords, carry, received, since, reach, hits>>

(* A match is reported unless it lies in the carry, where the search of    *)
(* the entries before has met it.                                          *)
AnyMatch(p) == TRUE
ReachesEntry(p) == p + Len(keywords[at]) > Len(carry)

PastMatch(p) == p + Len(keywords[at]) + 1
AtMatch(p) == p
NextFrom(p) == p + 1

FindNext ==
  /\ Searching /\ at <= Len(keywords)
  /\ \E p \in Found :
       /\ \A q \in Found : p <= q
       /\ from' = NextFrom(p)
       /\ IF ReachesEntry(p)
            THEN hits' = Append(hits, <<at, Base + p + Len(keywords[at])>>)
            ELSE UNCHANGED hits
  /\ UNCHANGED <<keywords, carry, entry, at, received, since, reach>>

NextKeyword ==
  /\ Searching /\ at <= Len(keywords)
  /\ Found = {}
  /\ at' = at + 1 /\ from' = 0
  /\ UNCHANGED <<keywords, carry, entry, received, since, reach, hits>>

KeepCarry ==
  /\ Searching /\ at > Len(keywords)
  /\ LET keep == IF MaxCarry < Len(Hay) THEN MaxCarry ELSE Len(Hay)
     IN  carry' = SubSeq(Hay, Len(Hay) - keep + 1, Len(Hay))
  /\ received' = received \o entry
  /\ entry' = <<>> /\ at' = 1 /\ from' = 0
  /\ UNCHANGED <<keywords, since, reach, hits>>

Search == FindNext \/ NextKeyword \/ KeepCarry

Next == AddKeyword \/ TakeEntry \/ Search

Spec == Init /\ [][Next]_vars

(* The stream task goes on, provided that the client reads what is pushed. *)
FairSpec == Spec /\ WF_vars(Search)

-----------------------------------------------------------------------------
(* Properties.                                                             *)

(* Keyword k ends with the e-th byte of s.                                 *)
EndsAt(s, k, e) == Len(k) <= e /\ OccursAt(s, k, e - Len(k))

(* The occurrences of the i-th keyword that the filter owes its client:    *)
(* those that end after the keyword was listed, and begin no earlier than  *)
(* the carry of that moment.                                               *)
Owed(i, e) ==
  /\ e > since[i] /\ e >= reach[i] + Len(keywords[i])
  /\ EndsAt(received, keywords[i], e)

(* Between two entries the hits are exactly the occurrences in the bytes   *)
(* received, each reported once (daemon.rs:28 and 329), however the stream *)
(* is cut into entries, overlapping ones and those that lie across several *)
(* entries included, and whenever keywords are added.                      *)
HitsExact ==
  ~Searching =>
    /\ \A i \in 1..Len(keywords), e \in 1..Len(received) :
         Owed(i, e) <=> \E n \in 1..Len(hits) : hits[n] = <<i, e>>
    /\ \A n \in 1..Len(hits) : hits[n][2] <= Len(received)
    /\ \A m, n \in 1..Len(hits) : hits[m] = hits[n] => m = n

(* The loops over matches and keywords come to an end for every entry.     *)
SearchEnds == Searching ~> ~Searching
==============================================================================
