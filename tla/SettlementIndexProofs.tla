------------------------- MODULE SettlementIndexProofs -------------------------
(***************************************************************************)
(* The history index, for any keys, sellers, page size and clock: it always *)
(* matches the records, and a traversal misses no record that stayed and    *)
(* repeats none.                                                            *)
(*                                                                         *)
(* The argument for the pages: a record that stayed is seen or still ahead  *)
(* of the cursor, and a key that was seen is never ahead of it again, not   *)
(* even when its record is removed and made anew, because a new record is   *)
(* not older than the one it follows.                                       *)
(***************************************************************************)
EXTENDS SettlementIndex, TLAPS

RecordsTyped ==
  /\ records \in [Key -> Nat \cup {NoRecord}]
  /\ seconds \in Nat
  /\ \A k \in Key : Recorded(k) => records[k] <= seconds

LEMMA EntryFacts ==
  ASSUME NEW k \in Key, NEW l \in Key, NEW m, NEW n, EntryOf(k, m) = EntryOf(l, n)
  PROVE  k = l /\ m = n
BY DEF EntryOf

LEMMA CreatedFacts ==
  ASSUME RecordsTyped, NEW k \in Key
  PROVE  /\ CreatedAt(k) \in Nat /\ CreatedAt(k) <= seconds /\ k \in Nat
         /\ Recorded(k) => CreatedAt(k) = records[k] /\ records[k] \in Nat
BY IndexAssumption DEF RecordsTyped, CreatedAt, Recorded

LEMMA TypedStays ==
  ASSUME RecordsTyped, [IndexNext]_IndexVars
  PROVE  RecordsTyped'
<1>1. CASE \E k \in Key : Insert(k)
  <2>. PICK k \in Key : Insert(k) BY <1>1
  <2>1. records' = [records EXCEPT ![k] = CreatedAt(k)] /\ seconds' = seconds
    BY DEF Insert
  <2>. QED BY <2>1, CreatedFacts DEF RecordsTyped, Recorded
<1>2. CASE \E k \in Key : RemoveRecord(k)
  BY <1>2 DEF RemoveRecord, RecordsTyped, Recorded
<1>3. CASE Tock BY <1>3 DEF Tock, RecordsTyped, Recorded
<1>4. CASE records' = records /\ seconds' = seconds
  BY <1>4 DEF RecordsTyped, Recorded
<1>. QED BY <1>1, <1>2, <1>3, <1>4
     DEF IndexNext, Upgrade, NextPage, Begin, IndexVars

(* Moving one entry keeps the index equal to the entries of the records.    *)
LEMMA MatchesStays ==
  ASSUME RecordsTyped, IndexMatches, [IndexNext]_IndexVars
  PROVE  IndexMatches'
<1>1. CASE \E k \in Key : Insert(k)
  <2>. PICK k \in Key : Insert(k) BY <1>1
  <2>1. /\ records' = [records EXCEPT ![k] = CreatedAt(k)]
        /\ index' = WithoutEntry(k) \cup {EntryOf(k, CreatedAt(k))}
    BY DEF Insert
  <2>2. CreatedAt(k) # NoRecord BY CreatedFacts, IndexAssumption
  <2>3. /\ \A l \in Key \ {k} : records'[l] = records[l]
        /\ records'[k] = CreatedAt(k)
    BY <2>1 DEF RecordsTyped
  <2>4. WithoutEntry(k) = {EntryOf(l, records[l]) : l \in {l \in Key : Recorded(l) /\ l # k}}
    BY EntryFacts DEF WithoutEntry, IndexMatches, Entries
  <2>5. {l \in Key : Recorded(l)'} = {l \in Key : Recorded(l) /\ l # k} \cup {k}
    BY <2>2, <2>3 DEF Recorded
  <2>6. Entries' = {EntryOf(l, records'[l]) : l \in {l \in Key : Recorded(l)'}}
    BY DEF Entries, EntryOf
  <2>. QED BY <2>1, <2>3, <2>4, <2>5, <2>6 DEF IndexMatches
<1>2. CASE \E k \in Key : RemoveRecord(k)
  <2>. PICK k \in Key : RemoveRecord(k) BY <1>2
  <2>1. /\ \A l \in Key \ {k} : records'[l] = records[l]
        /\ records'[k] = NoRecord
    BY DEF RemoveRecord, RecordsTyped
  <2>2. index' = {EntryOf(l, records[l]) : l \in {l \in Key : Recorded(l) /\ l # k}}
    BY EntryFacts DEF RemoveRecord, WithoutEntry, IndexMatches, Entries
  <2>3. {l \in Key : Recorded(l)'} = {l \in Key : Recorded(l) /\ l # k}
    BY <2>1 DEF Recorded
  <2>4. Entries' = {EntryOf(l, records'[l]) : l \in {l \in Key : Recorded(l)'}}
    BY DEF Entries, EntryOf
  <2>. QED BY <2>1, <2>2, <2>3, <2>4 DEF IndexMatches
<1>3. CASE Upgrade
  BY <1>3 DEF Upgrade, IndexMatches, Entries, EntryOf, Recorded
<1>4. CASE records' = records /\ index' = index
  BY <1>4 DEF IndexMatches, Entries, EntryOf, Recorded
<1>. QED BY <1>1, <1>2, <1>3, <1>4
     DEF IndexNext, Tock, NextPage, Begin, IndexVars

-----------------------------------------------------------------------------
(* Pages.                                                                   *)

AheadOf(k) ==
  \/ traversal.cursor = NoCursor
  \/ Below(EntryOf(k, CreatedAt(k)), traversal.cursor)

PagesInv ==
  /\ traversal \in [seller : Payees, cursor : Entry \cup {NoCursor},
                    open : BOOLEAN, seen : SUBSET Key, stayed : SUBSET Key,
                    twice : BOOLEAN]
  /\ \A k \in traversal.stayed : Recorded(k) /\ Payee[k] = traversal.seller
  /\ \A k \in traversal.stayed \ traversal.seen : traversal.open /\ AheadOf(k)
  /\ traversal.open => \A k \in traversal.seen : ~AheadOf(k)
  /\ ~traversal.twice

LEMMA BelowFacts ==
  ASSUME NEW e \in Entry, NEW f \in Entry, NEW g \in Entry
  PROVE  /\ ~Below(e, e)
         /\ Below(e, f) /\ Below(f, g) => Below(e, g)
         /\ Below(e, f) /\ ~Below(g, f) => ~Below(g, e)
<1>1. /\ e.created \in Nat /\ f.created \in Nat /\ g.created \in Nat
      /\ e.key \in Nat /\ f.key \in Nat /\ g.key \in Nat
  BY IndexAssumption DEF Entry
<1>. QED BY <1>1 DEF Below

LEMMA EntryType ==
  ASSUME NEW k \in Key, NEW n \in Nat
  PROVE  EntryOf(k, n) \in Entry
BY DEF EntryOf, Entry, Payees

(* A record is written: its entry keeps its place, or it is newer than      *)
(* everything the traversal has passed.                                     *)
LEMMA InsertKeepsPages ==
  ASSUME RecordsTyped, PagesInv, NEW k \in Key, Insert(k)
  PROVE  PagesInv'
<1>1. /\ traversal' = traversal /\ seconds' = seconds
      /\ records' = [records EXCEPT ![k] = CreatedAt(k)]
  BY DEF Insert
<1>2. CreatedAt(k) # NoRecord BY CreatedFacts, IndexAssumption
<1>3. \A l \in Key : Recorded(l) => Recorded(l)'
  BY <1>1, <1>2 DEF Recorded, RecordsTyped
<1>4. \A l \in Key : CreatedAt(l)' = CreatedAt(l)
  BY <1>1, <1>2 DEF CreatedAt, Recorded, RecordsTyped
<1>5. \A l \in Key : AheadOf(l)' = AheadOf(l)
  BY <1>1, <1>4 DEF AheadOf, EntryOf
<1>. QED BY <1>1, <1>3, <1>5 DEF PagesInv

LEMMA LaterNotAhead ==
  ASSUME RecordsTyped, PagesInv, RecordsTyped', traversal'.cursor = traversal.cursor,
         NEW k \in Key, ~AheadOf(k), CreatedAt(k)' >= CreatedAt(k)
  PROVE  ~AheadOf(k)'
<1>1. traversal.cursor \in Entry BY DEF PagesInv, AheadOf
<1>2. CreatedAt(k) \in Nat /\ CreatedAt(k)' \in Nat /\ k \in Nat
  BY CreatedFacts, IndexAssumption DEF RecordsTyped, CreatedAt, Recorded
<1>3. traversal.cursor # NoCursor BY DEF AheadOf
<1>4. ~Below(EntryOf(k, CreatedAt(k)), traversal.cursor) BY DEF AheadOf
<1>5. traversal.cursor.created \in Nat /\ traversal.cursor.key \in Nat
  BY <1>1, IndexAssumption DEF Entry
<1>6. PICK n \in Nat : n = CreatedAt(k)' BY <1>2
<1>7. ~Below(EntryOf(k, n), traversal.cursor)
  BY <1>2, <1>4, <1>5, <1>6 DEF Below, EntryOf
<1>. QED BY <1>3, <1>6, <1>7 DEF AheadOf

LEMMA RemoveKeepsPages ==
  ASSUME RecordsTyped, RecordsTyped', PagesInv, NEW k \in Key, RemoveRecord(k)
  PROVE  PagesInv'
<1>1. /\ traversal' = [traversal EXCEPT !.stayed = @ \ {k}]
      /\ records' = [records EXCEPT ![k] = NoRecord] /\ seconds' = seconds
      /\ Recorded(k)
  BY DEF RemoveRecord
<1>2. /\ traversal'.cursor = traversal.cursor /\ traversal'.open = traversal.open
      /\ traversal'.seen = traversal.seen /\ traversal'.twice = traversal.twice
      /\ traversal'.seller = traversal.seller
      /\ traversal'.stayed = traversal.stayed \ {k}
  BY <1>1 DEF PagesInv
<1>3. \A l \in Key \ {k} : /\ Recorded(l)' = Recorded(l)
                          /\ CreatedAt(l)' = CreatedAt(l)
  BY <1>1 DEF Recorded, RecordsTyped, CreatedAt
<1>4. CreatedAt(k)' = seconds
  BY <1>1 DEF Recorded, RecordsTyped, CreatedAt
<1>5. \A l \in Key : CreatedAt(l)' >= CreatedAt(l) BY <1>3, <1>4, CreatedFacts
<1>6. \A l \in Key : ~AheadOf(l) => ~AheadOf(l)'
  BY <1>2, <1>5, LaterNotAhead
<1>7. \A l \in Key \ {k} : AheadOf(l) => AheadOf(l)'
  BY <1>2, <1>3 DEF AheadOf, EntryOf
<1>8. traversal' \in [seller : Payees, cursor : Entry \cup {NoCursor},
                      open : BOOLEAN, seen : SUBSET Key, stayed : SUBSET Key,
                      twice : BOOLEAN]
  BY <1>1 DEF PagesInv
<1>. QED BY <1>2, <1>3, <1>6, <1>7, <1>8 DEF PagesInv

LEMMA TockKeepsPages ==
  ASSUME RecordsTyped, RecordsTyped', PagesInv, Tock
  PROVE  PagesInv'
<1>1. /\ traversal' = traversal /\ records' = records
      /\ seconds' = seconds + 1
  BY DEF Tock
<1>2. /\ \A l \in Key : Recorded(l)' = Recorded(l)
      /\ \A l \in Key : CreatedAt(l)' >= CreatedAt(l)
      /\ \A l \in Key : Recorded(l) => CreatedAt(l)' = CreatedAt(l)
  BY <1>1, CreatedFacts DEF Recorded, RecordsTyped, CreatedAt
<1>3. \A l \in Key : ~AheadOf(l) => ~AheadOf(l)'
  BY <1>1, <1>2, LaterNotAhead
<1>4. \A l \in Key : Recorded(l) /\ AheadOf(l) => AheadOf(l)'
  BY <1>1, <1>2 DEF AheadOf, EntryOf
<1>. QED BY <1>1, <1>2, <1>3, <1>4 DEF PagesInv

(* A first page of nothing yet.                                             *)
LEMMA BeginKeepsPages ==
  ASSUME NEW s \in Payees, Begin(s)
  PROVE  PagesInv'
<1>1. traversal' = Begun(s) /\ records' = records BY DEF Begin
<1>2. \A k \in Key : Recorded(k)' = Recorded(k) BY <1>1 DEF Recorded
<1>3. \A k \in Key : AheadOf(k)' BY <1>1 DEF AheadOf, Begun
<1>. QED BY <1>1, <1>2, <1>3 DEF PagesInv, Begun

(* The next page: what it holds was ahead, and what it leaves is below it.  *)
LEMMA PageKeepsPages ==
  ASSUME RecordsTyped, IndexMatches, PagesInv, NextPage
  PROVE  PagesInv'
<1>. DEFINE items(page) == {e \in page : Recorded(e.key)}
            again(page) == \/ \E e \in items(page) : e.key \in traversal.seen
                           \/ \E e, f \in items(page) : e # f /\ e.key = f.key
<1>1. PICK page \in SUBSET Ahead, cursor \in Entry \cup {NoCursor} :
        /\ IsPage(page, Ahead)
        /\ IF page # Ahead THEN IsCursor(cursor, page, Ahead) ELSE cursor = NoCursor
        /\ traversal' = [traversal EXCEPT
             !.cursor = cursor, !.open = page # Ahead,
             !.seen = @ \cup {e.key : e \in items(page)},
             !.twice = @ \/ again(page)]
  <2>1. Ahead \subseteq Entry
    BY CreatedFacts, EntryType DEF Ahead, IndexMatches, Entries
  <2>. QED BY <2>1 DEF NextPage
<1>2. traversal.open /\ records' = records /\ seconds' = seconds /\ index' = index
  BY DEF NextPage
<1>3. \A e \in Ahead : /\ e.key \in Key /\ Recorded(e.key)
                      /\ e = EntryOf(e.key, CreatedAt(e.key)) /\ AheadOf(e.key)
                      /\ e \in Entry
  <2>. SUFFICES ASSUME NEW e \in Ahead
                PROVE  /\ e.key \in Key /\ Recorded(e.key)
                       /\ e = EntryOf(e.key, CreatedAt(e.key)) /\ AheadOf(e.key)
                       /\ e \in Entry
    OBVIOUS
  <2>1. PICK k \in Key : Recorded(k) /\ e = EntryOf(k, records[k])
    BY DEF Ahead, IndexMatches, Entries
  <2>2. e.key = k /\ e = EntryOf(k, CreatedAt(k))
    BY <2>1, CreatedFacts DEF EntryOf
  <2>3. e \in Entry BY <2>2, EntryType, CreatedFacts
  <2>. QED BY <2>1, <2>2, <2>3 DEF Ahead, AheadOf
<1>4. items(page) = page BY <1>1, <1>3
<1>5. ~again(page) BY <1>2, <1>3, <1>4 DEF PagesInv
<1>6. /\ traversal'.cursor = cursor /\ traversal'.open = (page # Ahead)
      /\ traversal'.seen = traversal.seen \cup {e.key : e \in page}
      /\ ~traversal'.twice /\ traversal'.seller = traversal.seller
      /\ traversal'.stayed = traversal.stayed
  BY <1>1, <1>4, <1>5 DEF PagesInv
<1>. HIDE DEF items, again
<1>7. /\ \A k \in Key : Recorded(k)' = Recorded(k)
      /\ \A k \in Key :
           AheadOf(k)' <=> (cursor = NoCursor
                            \/ Below(EntryOf(k, CreatedAt(k)), cursor))
  BY <1>2, <1>6 DEF Recorded, CreatedAt, AheadOf, EntryOf
<1>8. \A k \in traversal.stayed \ traversal.seen :
        EntryOf(k, CreatedAt(k)) \in Ahead
  BY CreatedFacts DEF PagesInv, AheadOf, Ahead, IndexMatches, Entries, EntryOf
<1>9. traversal' \in [seller : Payees, cursor : Entry \cup {NoCursor},
                      open : BOOLEAN, seen : SUBSET Key, stayed : SUBSET Key,
                      twice : BOOLEAN]
  <2>1. {e.key : e \in page} \subseteq Key BY <1>3
  <2>. QED BY <1>1, <1>4, <1>5, <2>1 DEF PagesInv
<1>10. ASSUME NEW k \in traversal'.stayed \ traversal'.seen
       PROVE  traversal'.open /\ AheadOf(k)'
  <2>1. k \in traversal.stayed \ traversal.seen /\ k \in Key BY <1>6 DEF PagesInv
  <2>2. PICK e \in Ahead : e = EntryOf(k, CreatedAt(k)) BY <1>8, <2>1
  <2>3. e.key = k BY <2>2 DEF EntryOf
  <2>4. e \notin page BY <1>6, <2>3
  <2>5. page # Ahead /\ IsCursor(cursor, page, Ahead) BY <1>1, <2>4
  <2>6. Below(e, cursor) BY <1>1, <2>4, <2>5 DEF IsPage, IsCursor
  <2>. QED BY <1>6, <1>7, <2>1, <2>2, <2>5, <2>6
<1>11. ASSUME traversal'.open, NEW k \in traversal'.seen
       PROVE  ~AheadOf(k)'
  <2>1. page # Ahead /\ IsCursor(cursor, page, Ahead) BY <1>1, <1>6, <1>11
  <2>2. cursor \in page /\ cursor \in Entry BY <1>3, <2>1 DEF IsCursor
  <2>3. cursor # NoCursor
    <3>1. traversal.cursor = NoCursor \/ Below(cursor, traversal.cursor)
      BY <2>2 DEF Ahead
    <3>. QED BY <2>2, NoCursorAssumption
  <2>4. CASE k \in traversal.seen
    <3>1. k \in Key /\ ~AheadOf(k) BY <1>2, <2>4 DEF PagesInv
    <3>2. /\ traversal.cursor \in Entry /\ Below(cursor, traversal.cursor)
          /\ ~Below(EntryOf(k, CreatedAt(k)), traversal.cursor)
      BY <2>2, <3>1 DEF AheadOf, Ahead, PagesInv
    <3>3. EntryOf(k, CreatedAt(k)) \in Entry BY <3>1, CreatedFacts, EntryType
    <3>4. ~Below(EntryOf(k, CreatedAt(k)), cursor)
      BY <2>2, <3>2, <3>3, BelowFacts
    <3>. QED BY <1>7, <2>3, <3>1, <3>4
  <2>5. CASE k \notin traversal.seen
    <3>1. PICK e \in page : e.key = k BY <1>6, <2>5
    <3>2. e = cursor \/ Below(cursor, e) BY <2>1 DEF IsCursor
    <3>3. ~Below(e, cursor) BY <1>3, <2>2, <3>2, BelowFacts
    <3>. QED BY <1>3, <1>7, <2>3, <3>1, <3>3
  <2>. QED BY <2>4, <2>5
<1>12. \A k \in traversal'.stayed : Recorded(k)' /\ Payee[k] = traversal'.seller
  BY <1>6, <1>7 DEF PagesInv
<1>. QED BY <1>6, <1>9, <1>10, <1>11, <1>12 DEF PagesInv

-----------------------------------------------------------------------------
LEMMA InitPages == IndexInit => RecordsTyped /\ IndexMatches /\ PagesInv
<1>. SUFFICES ASSUME IndexInit PROVE RecordsTyped /\ IndexMatches /\ PagesInv
  OBVIOUS
<1>1. \A k \in Key : ~Recorded(k) BY DEF IndexInit, Recorded
<1>2. RecordsTyped BY <1>1 DEF IndexInit, RecordsTyped
<1>3. IndexMatches BY <1>1 DEF IndexInit, IndexMatches, Entries
<1>4. PICK s \in Payees : traversal = [Begun(s) EXCEPT !.open = FALSE]
  BY DEF IndexInit
<1>5. PagesInv BY <1>1, <1>4 DEF PagesInv, Begun
<1>. QED BY <1>2, <1>3, <1>5

LEMMA PagesStay ==
  ASSUME RecordsTyped, IndexMatches, PagesInv, [IndexNext]_IndexVars
  PROVE  PagesInv'
<1>. RecordsTyped' BY TypedStays
<1>1. CASE \E k \in Key : Insert(k) BY <1>1, InsertKeepsPages
<1>2. CASE \E k \in Key : RemoveRecord(k) BY <1>2, RemoveKeepsPages
<1>3. CASE Tock BY <1>3, TockKeepsPages
<1>4. CASE \E s \in Payees : Begin(s) BY <1>4, BeginKeepsPages
<1>5. CASE NextPage BY <1>5, PageKeepsPages
<1>6. CASE Upgrade \/ UNCHANGED IndexVars
  <2>1. records' = records /\ seconds' = seconds /\ traversal' = traversal
    BY <1>6 DEF Upgrade, IndexVars
  <2>2. \A k \in Key : /\ Recorded(k)' = Recorded(k)
                      /\ AheadOf(k)' = AheadOf(k)
    BY <2>1 DEF Recorded, AheadOf, CreatedAt, EntryOf
  <2>. QED BY <2>1, <2>2 DEF PagesInv
<1>. QED BY <1>1, <1>2, <1>3, <1>4, <1>5, <1>6 DEF IndexNext

(* The index has one entry per record, where its creation time puts it      *)
(* (insert_settlement, remove_settlement, rebuild_seller_settlement_index). *)
THEOREM IndexFollows == IndexSpec => []IndexMatches
<1>1. IndexInit => RecordsTyped /\ IndexMatches BY InitPages
<1>2. RecordsTyped /\ IndexMatches /\ [IndexNext]_IndexVars
        => (RecordsTyped /\ IndexMatches)'
  BY TypedStays, MatchesStays
<1>. QED BY <1>1, <1>2, PTL DEF IndexSpec

(* A client that follows next_cursor misses no record that stayed and meets *)
(* none twice (seller_settlements_page).                                    *)
THEOREM TraversalComplete == IndexSpec => []PagesComplete
<1>1. IndexInit => RecordsTyped /\ IndexMatches /\ PagesInv BY InitPages
<1>2. RecordsTyped /\ IndexMatches /\ PagesInv /\ [IndexNext]_IndexVars
        => (RecordsTyped /\ IndexMatches /\ PagesInv)'
  BY TypedStays, MatchesStays, PagesStay
<1>3. PagesInv => PagesComplete BY DEF PagesInv, PagesComplete
<1>. QED BY <1>1, <1>2, <1>3, PTL DEF IndexSpec
=============================================================================
