---------------------------- MODULE SettlementIndex ----------------------------
(***************************************************************************)
(* The history a seller pages through: SELLER_SETTLEMENT_INDEX holds one    *)
(* entry per settlement record, ordered by seller, creation time and key,   *)
(* and moves with every write and removal of the record.                    *)
(*                                                                         *)
(* A traversal is a client that asks for page after page, newest entry      *)
(* first, while settlements go on; records are written, written over,       *)
(* removed and made anew between its pages.                                 *)
(***************************************************************************)
EXTENDS Integers, FiniteSets

CONSTANTS
  Key,        \* settlement keys; their order breaks ties of the same second
  Payee,      \* [Key -> seller]: the key of a request covers its payTo
  NoRecord,   \* no record under a key
  NoCursor,   \* the cursor of a first page
  Limit,      \* page size of the traversals
  LastSecond  \* bound: last second of the model

ASSUME IndexAssumption ==
  /\ Key \subseteq Nat
  /\ Limit \in Nat \ {0} /\ LastSecond \in Nat
  /\ NoRecord \notin Nat
  /\ DOMAIN Payee = Key

VARIABLES
  records,    \* SETTLEMENTS, of each record its created_at
  index,      \* SELLER_SETTLEMENT_INDEX
  seconds,    \* now_seconds
  traversal   \* a client that pages

IndexVars == <<records, index, seconds, traversal>>

Payees == {Payee[k] : k \in Key}
Entry == [seller : Payees, created : Nat, key : Key]

ASSUME NoCursorAssumption == NoCursor \notin Entry

EntryOf(k, created) == [seller |-> Payee[k], created |-> created, key |-> k]

(* The order of the index keys of one seller.                               *)
Below(e, f) ==
  e.created < f.created \/ (e.created = f.created /\ e.key < f.key)

Recorded(k) == records[k] # NoRecord

(* stayed: records that have been there since the first page.               *)
Traversal ==
  [seller : Payees, cursor : Entry \cup {NoCursor}, open : BOOLEAN,
   seen : SUBSET Key, stayed : SUBSET Key, twice : BOOLEAN]

Begun(s) ==
  [seller |-> s, cursor |-> NoCursor, open |-> TRUE, seen |-> {},
   stayed |-> {k \in Key : Recorded(k) /\ Payee[k] = s}, twice |-> FALSE]

IndexTypeOK ==
  /\ records \in [Key -> Nat \cup {NoRecord}]
  /\ index \subseteq Entry
  /\ seconds \in Nat
  /\ traversal \in Traversal

IndexInit ==
  /\ records = [k \in Key |-> NoRecord]
  /\ index = {}
  /\ seconds = 0
  /\ traversal \in {[Begun(s) EXCEPT !.open = FALSE] : s \in Payees}
-----------------------------------------------------------------------------
Tock ==
  /\ seconds < LastSecond
  /\ seconds' = seconds + 1
  /\ UNCHANGED <<records, index, traversal>>

(* inherit_metadata_from: a record keeps the creation time of the one it    *)
(* overwrites.                                                              *)
CreatedAt(k) == IF Recorded(k) THEN records[k] ELSE seconds

(* Mutant: a removed record leaves its entry behind.                        *)
EntryKept(k) == index

(* remove_settlement_index_entry                                            *)
WithoutEntry(k) ==
  IF Recorded(k) THEN index \ {EntryOf(k, records[k])} ELSE index

(* insert_settlement                                                        *)
Insert(k) ==
  /\ records' = [records EXCEPT ![k] = CreatedAt(k)]
  /\ index' = WithoutEntry(k) \cup {EntryOf(k, CreatedAt(k))}
  /\ UNCHANGED <<seconds, traversal>>

(* remove_settlement                                                        *)
RemoveRecord(k) ==
  /\ Recorded(k)
  /\ index' = WithoutEntry(k)
  /\ records' = [records EXCEPT ![k] = NoRecord]
  /\ traversal' = [traversal EXCEPT !.stayed = @ \ {k}]
  /\ UNCHANGED seconds

Entries == {EntryOf(k, records[k]) : k \in {l \in Key : Recorded(l)}}

(* post_upgrade: rebuild_seller_settlement_index                            *)
Upgrade ==
  /\ index' = Entries
  /\ UNCHANGED <<records, seconds, traversal>>

Begin(s) ==
  /\ traversal' = Begun(s)
  /\ UNCHANGED <<records, index, seconds>>

(* The entries of the seller the cursor has not passed.                     *)
Ahead ==
  {e \in index : /\ e.seller = traversal.seller
                 /\ \/ traversal.cursor = NoCursor
                    \/ Below(e, traversal.cursor)}

(* The newest Limit of them.                                                *)
IsPage(page, ahead) ==
  /\ \A e \in page, f \in ahead \ page : Below(f, e)
  /\ Cardinality(page) <= Limit
  /\ page = ahead \/ Cardinality(page) = Limit

(* Mutant: the cursor is the entry fetched to see whether there is more.    *)
CursorIsPeeked(e, page, ahead) ==
  e \in ahead \ page /\ \A f \in ahead \ page : f = e \/ Below(f, e)

(* next_cursor is the last entry of the page.                               *)
IsCursor(e, page, ahead) == e \in page /\ \A f \in page : f = e \/ Below(e, f)

(* seller_settlements_page, asked for with the cursor of the last answer.   *)
NextPage ==
  /\ traversal.open
  /\ \E page \in SUBSET Ahead :
       LET items == {e \in page : Recorded(e.key)}
           again == \/ \E e \in items : e.key \in traversal.seen
                    \/ \E e, f \in items : e # f /\ e.key = f.key
           more  == page # Ahead
       IN  /\ IsPage(page, Ahead)
           /\ \E cursor \in IF more THEN page \cup Ahead ELSE {NoCursor} :
                /\ more => IsCursor(cursor, page, Ahead)
                /\ traversal' = [traversal EXCEPT
                     !.cursor = cursor, !.open = more,
                     !.seen = @ \cup {e.key : e \in items},
                     !.twice = @ \/ again]
  /\ UNCHANGED <<records, index, seconds>>

IndexNext ==
  \/ Tock \/ Upgrade \/ NextPage
  \/ \E k \in Key : Insert(k) \/ RemoveRecord(k)
  \/ \E s \in Payees : Begin(s)

IndexSpec == IndexInit /\ [][IndexNext]_IndexVars
-----------------------------------------------------------------------------
(* The index holds one entry per record, where the record's creation time   *)
(* puts it, so that no page repeats a record and every removal finds its    *)
(* entry (lib.rs 5853-5937, 6066-6087).                                     *)
IndexMatches == index = Entries

(* A client that follows next_cursor to the end has seen every record that  *)
(* was there all the time, and none twice, whatever was written in between: *)
(* settlements that move on keep their place (lib.rs 5969-6000).            *)
PagesComplete ==
  /\ ~traversal.twice
  /\ ~traversal.open => traversal.stayed \subseteq traversal.seen
=============================================================================
