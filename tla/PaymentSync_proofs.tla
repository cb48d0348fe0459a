------------------------ MODULE PaymentSync_proofs -------------------------
(***************************************************************************)
(* Proofs about PaymentSync, for any users, any finite number of quotes    *)
(* and any number of connections, whose opening, authentication, timeout   *)
(* and close interleave with payments and page reads.                      *)
(***************************************************************************)
EXTENDS PaymentSync, FiniteSetTheorems, TLAPS

-----------------------------------------------------------------------------
(* The type invariant in the parts that different actions disturb.         *)
RowTypes ==
  /\ row \in [Quotes -> [state : {"UNPAID", "PAID", "ISSUED"}, paidAt : Times \cup {0}]]
  /\ unannounced \subseteq { q \in Quotes : row[q].state # "UNPAID" }

SocketTypes ==
  /\ sdk \in [Conns -> {"idle", "connecting", "answered", "closed"}]
  /\ server \in [Conns -> {"none", "challenged", "authorised", "gone"}]
  /\ pubkey \in [Conns -> Pubkeys \cup {None}]
  /\ keys \in [Conns -> SUBSET Pubkeys]
  /\ answers \subseteq { c \in Conns : sdk[c] # "idle" }
  /\ inbox \in [Conns -> SUBSET Quotes]
  /\ listeners \in [Pubkeys -> Conns \cup {None}]
  /\ alone \subseteq Conns

(* The state of one fetch.                                                 *)
Fetch ==
  [at : {"idle", "count", "select"}, offset : Nat, total : 0..Cardinality(Quotes),
   got : SUBSET Quotes, due : SUBSET Quotes, raced : BOOLEAN]

FetchTypes ==
  /\ stale \in BOOLEAN
  /\ fetch \in Fetch
  /\ known \subseteq Quotes

ExcuseTypes == excused \subseteq Quotes

(* These parts make up the type invariant.                                 *)
LEMMA TypeParts == TypeOK <=> RowTypes /\ SocketTypes /\ FetchTypes /\ ExcuseTypes
  BY DEF TypeOK, RowTypes, SocketTypes, FetchTypes, Fetch, ExcuseTypes

(* The pubkey of a connection is one it authenticated with, and only one   *)
(* that authenticated has any.                                             *)
KeysAreAuthenticated ==
  \A c \in Conns :
    /\ pubkey[c] # None => pubkey[c] \in keys[c]
    /\ server[c] = "authorised" => pubkey[c] \in Pubkeys
    /\ keys[c] # {} => server[c] \in {"authorised", "gone"}

(* A connection that is alone shares its pubkey with no authorised one.    *)
AloneIsSole ==
  \A c \in alone :
    /\ server[c] = "authorised"
    /\ \A d \in Conns : server[d] = "authorised" /\ pubkey[c] = pubkey[d] => c = d

SocketInv ==
  /\ SocketTypes
  /\ KeysAreAuthenticated
  /\ AloneIsSole
  /\ ListenersAreOpen
  /\ SoleSubscriberIsHeard
  /\ UpdatesGoToTheOwner

-----------------------------------------------------------------------------
(* The history. *)

(* A page holds quotes.                                                    *)
LEMMA PagesOfQuotes ==
  ASSUME NEW page \in Pages
  PROVE  page \subseteq Quotes
<1>1. PICK s \in SetToSeqs(Matching) :
        page = { s[i] : i \in DOMAIN s \cap (fetch.offset + 1)..(fetch.offset + PageSize) }
  BY DEF Pages
<1>2. s \in [1..Cardinality(Matching) -> Matching]
  BY <1>1 DEF SetToSeqs
<1>3. QED BY <1>1, <1>2 DEF Matching

(* A count of the history is at most the number of quotes.                 *)
LEMMA CountIsBounded == Cardinality(Matching) \in 0..Cardinality(Quotes)
<1>1. Matching \subseteq Quotes
  BY DEF Matching
<1>2. IsFiniteSet(Quotes)
  BY SyncAssumption
<1>3. Cardinality(Matching) \in Nat /\ Cardinality(Quotes) \in Nat
  BY <1>1, <1>2, FS_Subset, FS_CardinalityType
<1>4. Cardinality(Matching) <= Cardinality(Quotes)
  BY <1>1, <1>2, FS_Subset
<1>5. QED BY <1>3, <1>4

(* The rows that come before q in every order of the history.              *)
Before(q) == { r \in Matching : row[r].paidAt > row[q].paidAt }

(* Payments are ordered by natural numbers.                                *)
LEMMA TimesAreNumbers ==
  ASSUME RowTypes, NEW q \in Quotes
  PROVE  row[q].paidAt \in Nat
<1>1. row[q] \in [state : {"UNPAID", "PAID", "ISSUED"}, paidAt : Times \cup {0}]
  BY DEF RowTypes
<1>2. row[q].paidAt \in Times \cup {0}
  BY <1>1
<1>3. Times \subseteq Nat
  BY SyncAssumption
<1>4. CASE row[q].paidAt = 0
  BY <1>4
<1>5. QED BY <1>2, <1>3, <1>4

(* The history is finite, and so is what comes before a quote.             *)
LEMMA HistoryIsFinite ==
  /\ IsFiniteSet(Matching)
  /\ Cardinality(Matching) \in Nat
  /\ \A q : IsFiniteSet(Before(q)) /\ Cardinality(Before(q)) \in Nat
<1>1. IsFiniteSet(Matching) /\ Cardinality(Matching) \in Nat
  BY SyncAssumption, FS_Subset, FS_CardinalityType DEF Matching
<1>2. ASSUME NEW q PROVE IsFiniteSet(Before(q)) /\ Cardinality(Before(q)) \in Nat
  BY <1>1, FS_Subset, FS_CardinalityType DEF Before
<1>3. QED BY <1>1, <1>2

(* A quote of the history does not come before itself.                     *)
LEMMA BeforeIsLess ==
  ASSUME RowTypes, NEW q \in Matching
  PROVE  Cardinality(Before(q)) < Cardinality(Matching)
<1>1. Before(q) \subseteq Matching /\ q \notin Before(q)
  <2>1. row[q].paidAt \in Nat
    BY TimesAreNumbers DEF Matching
  <2>2. QED BY <2>1 DEF Before
<1>2. Cardinality(Before(q)) <= Cardinality(Matching) /\ Before(q) # Matching
  BY <1>1, HistoryIsFinite, FS_Subset
<1>3. Cardinality(Before(q)) # Cardinality(Matching)
  BY <1>1, <1>2, HistoryIsFinite, FS_Subset
<1>4. QED BY <1>2, <1>3, HistoryIsFinite

(* However ties are broken, a quote that shares its time with no other     *)
(* stands right after those that come before it.                           *)
LEMMA PlaceInHistory ==
  ASSUME RowTypes, NEW s \in SetToSeqs(Matching), Ordered(s),
         NEW q \in Matching, ~Tied(q)
  PROVE  /\ Cardinality(Before(q)) + 1 \in DOMAIN s
         /\ s[Cardinality(Before(q)) + 1] = q
<1> DEFINE n == Cardinality(Matching)
<1>1. n \in Nat /\ IsFiniteSet(Matching)
  BY HistoryIsFinite
<1>2. /\ s \in [1..n -> Matching]
      /\ \A i, j \in 1..n : i # j => s[i] # s[j]
  BY DEF SetToSeqs
<1>3. s \in Injection(1..n, Matching)
  BY <1>2 DEF Injection, IsInjective
<1>4. IsFiniteSet(1..n) /\ Cardinality(1..n) = n
  BY <1>1, FS_Interval
<1>5. s \in Surjection(1..n, Matching)
  BY <1>1, <1>3, <1>4, FS_Injection
<1>6. PICK p \in 1..n : s[p] = q
  BY <1>5 DEF Surjection
<1>7. \A r \in Matching : row[r].paidAt \in Nat
  BY TimesAreNumbers DEF Matching
<1>8. \A r \in Matching \ {q} : row[r].paidAt # row[q].paidAt
  BY DEF Tied
<1>9. ASSUME NEW i \in 1..n PROVE s[i] \in Before(q) <=> i < p
  <2>1. s[i] \in Matching /\ (i # p => s[i] # q)
    BY <1>2, <1>6
  <2>2. CASE i < p
    <3>1. row[s[i]].paidAt >= row[q].paidAt
      BY <1>2, <1>6, <2>2 DEF Ordered
    <3>2. row[s[i]].paidAt # row[q].paidAt
      BY <1>1, <1>8, <2>1, <2>2
    <3>3. QED BY <1>7, <2>1, <2>2, <3>1, <3>2 DEF Before
  <2>3. CASE i = p
    BY <1>6, <1>7, <2>3 DEF Before
  <2>4. CASE i > p
    <3>1. row[q].paidAt >= row[s[i]].paidAt
      BY <1>2, <1>6, <2>4 DEF Ordered
    <3>2. QED BY <1>7, <2>1, <2>4, <3>1 DEF Before
  <2>5. QED BY <1>1, <2>2, <2>3, <2>4
<1>10. Cardinality(Before(q)) = p - 1
  <2> DEFINE f == [i \in 1..(p - 1) |-> s[i]]
  <2>1. \A i \in 1..(p - 1) : i \in 1..n /\ i < p
    BY <1>1
  <2>2. f \in [1..(p - 1) -> Before(q)]
    BY <1>9, <2>1
  <2>3. IsInjective(f)
    BY <1>2, <2>1 DEF IsInjective
  <2>4. \A r \in Before(q) : \E i \in 1..(p - 1) : f[i] = r
    <3>1. TAKE r \in Before(q)
    <3>2. PICK i \in 1..n : s[i] = r
      BY <1>5 DEF Surjection, Before
    <3>3. i \in 1..(p - 1)
      BY <1>1, <1>9, <3>2
    <3>4. QED BY <3>2, <3>3
  <2>5. f \in Bijection(1..(p - 1), Before(q))
    BY <2>2, <2>3, <2>4 DEF Bijection, Injection, Surjection
  <2>6. ExistsBijection(1..(p - 1), Before(q))
    BY <2>5 DEF ExistsBijection
  <2>7. p - 1 \in Nat /\ 1 \in Int
    BY <1>1
  <2>8. IsFiniteSet(1..(p - 1)) /\ Cardinality(1..(p - 1)) = p - 1
    BY <2>7, FS_Interval
  <2>9. QED BY <2>6, <2>8, FS_Bijection
<1>11. QED BY <1>1, <1>2, <1>6, <1>10

(* A page holds each untied quote whose place it covers.                   *)
LEMMA PageCovers ==
  ASSUME RowTypes, FetchTypes, NEW page \in Pages, NEW q \in Matching, ~Tied(q),
         Cardinality(Before(q)) >= fetch.offset,
         Cardinality(Before(q)) < fetch.offset + PageSize
  PROVE  q \in page
<1>1. PICK s \in { t \in SetToSeqs(Matching) : Ordered(t) } :
        page = { s[i] : i \in DOMAIN s \cap (fetch.offset + 1)..(fetch.offset + PageSize) }
  BY DEF Pages
<1> DEFINE p == Cardinality(Before(q)) + 1
<1>2. p \in DOMAIN s /\ s[p] = q
  BY <1>1, PlaceInHistory
<1>3. p \in (fetch.offset + 1)..(fetch.offset + PageSize)
  BY HistoryIsFinite, SyncAssumption DEF FetchTypes, Fetch
<1>4. QED BY <1>1, <1>2, <1>3

(* The state between two fetches.                                          *)
LEMMA NoFetchType == NoFetch \in Fetch
<1>1. 0 \in 0..Cardinality(Quotes)
  BY SyncAssumption, FS_CardinalityType
<1>2. QED BY <1>1 DEF NoFetch, Fetch

(* Payments keep the rows typed.                                           *)
LEMMA RowStep ==
  ASSUME RowTypes, [Next]_vars
  PROVE  RowTypes'
<1>1. ASSUME NEW q \in Quotes, NEW to \in {"PAID", "ISSUED"}, NEW t \in Times, Settle(q, to, t)
      PROVE  RowTypes'
  BY <1>1 DEF Settle, RowTypes
<1>2. ASSUME NEW q \in Quotes, Announce(q) \/ LosePublication(q) PROVE RowTypes'
  BY <1>2 DEF Announce, LosePublication, RowTypes
<1>3. CASE UNCHANGED <<row, unannounced>>
  BY <1>3 DEF RowTypes
<1>4. QED
  BY <1>1, <1>2, <1>3
     DEF Next, vars, Subscribe, Upgrade, HandleChallenge, HandleMessage, AuthTimeout,
         OnClose, Drop, OnUpdate, StartFetch, Count, Select, RequestFails

(* The reading of the history stays typed.                                 *)
LEMMA FetchStep ==
  ASSUME FetchTypes, [Next]_vars
  PROVE  FetchTypes'
<1>1. ASSUME NEW q \in Quotes, NEW to \in {"PAID", "ISSUED"}, NEW t \in Times, Settle(q, to, t)
      PROVE  FetchTypes'
  BY <1>1 DEF Settle, FetchTypes, Fetch
<1>2. CASE StartFetch
  <2>1. Matching \subseteq Quotes
    BY DEF Matching
  <2>2. QED BY <1>2, <2>1, NoFetchType DEF StartFetch, FetchTypes, Fetch
<1>3. CASE Count
  BY <1>3, CountIsBounded DEF Count, FetchTypes, Fetch
<1>4. CASE Select
  <2>1. PICK page \in Pages :
          LET got == fetch.got \cup page
              next == fetch.offset + PageSize
          IN  IF IsLast(next, fetch.total)
                THEN fetch' = NoFetch /\ known' = known \cup got
                ELSE /\ fetch' = [fetch EXCEPT !.at = "count", !.offset = next, !.got = got]
                     /\ known' = known
    BY <1>4 DEF Select
  <2>2. page \subseteq Quotes
    BY PagesOfQuotes
  <2>3. fetch.offset + PageSize \in Nat
    BY SyncAssumption DEF FetchTypes, Fetch
  <2>4. fetch.got \cup page \subseteq Quotes
    BY <2>2 DEF FetchTypes, Fetch
  <2>5. fetch' \in Fetch
    BY <2>1, <2>3, <2>4, NoFetchType DEF FetchTypes, Fetch
  <2>6. known' \subseteq Quotes
    BY <2>1, <2>4 DEF FetchTypes
  <2>7. QED BY <1>4, <2>5, <2>6 DEF Select, FetchTypes
<1>5. CASE RequestFails
  BY <1>5, NoFetchType DEF RequestFails, FetchTypes
<1>6. ASSUME NEW c \in Conns, NEW q \in Quotes, OnUpdate(c, q) PROVE FetchTypes'
  BY <1>6 DEF OnUpdate, FetchTypes, fetchVars
<1>7. CASE UNCHANGED <<stale, fetchVars>>
  BY <1>7 DEF FetchTypes, fetchVars
<1>8. QED
  BY <1>1, <1>2, <1>3, <1>4, <1>5, <1>6, <1>7
     DEF Next, vars, Announce, LosePublication, Subscribe, Upgrade, HandleChallenge, HandleMessage,
         AuthTimeout, OnClose, Drop

-----------------------------------------------------------------------------
(* The pages of one fetch. *)

(* Payments only add to the history, and the time of one in it stands: what *)
(* came before a quote still does, and a tie stays one.                    *)
LEMMA HistoryGrows ==
  ASSUME RowTypes, NEW p \in Quotes, NEW to \in {"PAID", "ISSUED"}, NEW t \in Times,
         Settle(p, to, t)
  PROVE  /\ Matching \subseteq Matching'
         /\ \A q \in Matching : row'[q].paidAt = row[q].paidAt
         /\ OwnerOf[p] # Wallet => Matching' = Matching
<1>1. /\ row' \in [Quotes -> [state : {"UNPAID", "PAID", "ISSUED"}, paidAt : Times \cup {0}]]
      /\ row'[p] = [state |-> to, paidAt |-> IF row[p].paidAt = 0 THEN t ELSE row[p].paidAt]
      /\ \A q \in Quotes \ {p} : row'[q] = row[q]
  BY DEF Settle, RowTypes
<1>2. \A q \in Matching : q \in Quotes /\ row[q].paidAt # 0
  <2>1. \A q \in Matching : row[q].paidAt \in Nat /\ row[q].paidAt > Since
    BY TimesAreNumbers DEF Matching
  <2>2. QED BY <2>1, SyncAssumption DEF Matching
<1>3. \A q \in Matching : row'[q].paidAt = row[q].paidAt
  BY <1>1, <1>2
<1>4. ASSUME NEW q \in Matching PROVE q \in Matching'
  <2>1. row'[q].state \in {"PAID", "ISSUED"}
    BY <1>1, <1>2 DEF Matching, InHistory
  <2>2. QED BY <1>2, <1>3, <2>1 DEF Matching, InHistory
<1>5. ASSUME OwnerOf[p] # Wallet PROVE Matching' = Matching
  BY <1>1, <1>5 DEF Matching, InHistory
<1>6. QED BY <1>3, <1>4, <1>5

(* A payment that comes in leaves nothing unread behind.                   *)
LEMMA PlacesGrow ==
  ASSUME RowTypes, NEW p \in Quotes, NEW to \in {"PAID", "ISSUED"}, NEW t \in Times,
         Settle(p, to, t), NEW q \in Matching
  PROVE  /\ Tied(q) => Tied(q)'
         /\ Cardinality(Before(q)) <= Cardinality(Before(q)')
<1>1. /\ Matching \subseteq Matching'
      /\ \A r \in Matching : row'[r].paidAt = row[r].paidAt
  BY HistoryGrows
<1>2. Tied(q) => Tied(q)'
  BY <1>1 DEF Tied
<1>3. Before(q) \subseteq Before(q)'
  BY <1>1 DEF Before
<1>4. IsFiniteSet(Before(q)')
  <2>1. Before(q)' \subseteq Quotes
    BY DEF Before, Matching
  <2>2. QED BY <2>1, SyncAssumption, FS_Subset
<1>5. QED BY <1>2, <1>3, <1>4, FS_Subset

(* While no payment came in between a COUNT and its SELECT, each payment   *)
(* that the fetch has to deliver was delivered, shares its time, or stands *)
(* on a page still to be read; and what was counted is what is selected.   *)
CoverInv ==
  fetch.at # "idle" /\ ~fetch.raced =>
    /\ fetch.due \subseteq Matching
    /\ \A q \in fetch.due \ fetch.got : Tied(q) \/ Cardinality(Before(q)) >= fetch.offset
    /\ fetch.at = "select" => fetch.total = Cardinality(Matching)

(* After a page, what is still missing comes after it.                     *)
LEMMA PageAdvances ==
  ASSUME RowTypes, FetchTypes, CoverInv, fetch.at = "select", ~fetch.raced,
         NEW page \in Pages, NEW q \in fetch.due \ (fetch.got \cup page), ~Tied(q)
  PROVE  Cardinality(Before(q)) >= fetch.offset + PageSize
<1>1. q \in Matching /\ q \notin page /\ Cardinality(Before(q)) >= fetch.offset
  BY DEF CoverInv
<1>2. ~(Cardinality(Before(q)) < fetch.offset + PageSize)
  BY <1>1, PageCovers
<1>3. Cardinality(Before(q)) \in Nat /\ fetch.offset \in Nat /\ PageSize \in Nat
  BY HistoryIsFinite, SyncAssumption DEF FetchTypes, Fetch
<1>4. QED BY <1>2, <1>3

(* When the SDK stops, there is no page left for what is missing.          *)
LEMMA LastPageCovers ==
  ASSUME RowTypes, FetchTypes, CoverInv, fetch.at = "select", ~fetch.raced,
         IsLast(fetch.offset + PageSize, fetch.total),
         NEW page \in Pages, NEW q \in fetch.due \ (fetch.got \cup page)
  PROVE  Tied(q)
<1>1. SUFFICES ASSUME ~Tied(q) PROVE FALSE
  OBVIOUS
<1>2. Cardinality(Before(q)) >= fetch.offset + PageSize
  BY <1>1, PageAdvances
<1>3. q \in Matching /\ fetch.total = Cardinality(Matching)
  BY DEF CoverInv
<1>4. Cardinality(Before(q)) < Cardinality(Matching)
  BY <1>3, BeforeIsLess
<1>5. fetch.offset + PageSize >= Cardinality(Matching)
  BY <1>3 DEF IsLast
<1>6. /\ Cardinality(Before(q)) \in Nat /\ Cardinality(Matching) \in Nat
      /\ fetch.offset \in Nat /\ PageSize \in Nat
  BY HistoryIsFinite, SyncAssumption DEF FetchTypes, Fetch
<1>7. QED BY <1>2, <1>4, <1>5, <1>6

(* The coverage of a fetch survives every step.                            *)
LEMMA CoverStep ==
  ASSUME RowTypes, FetchTypes, CoverInv, [Next]_vars
  PROVE  CoverInv'
<1>1. ASSUME NEW p \in Quotes, NEW to \in {"PAID", "ISSUED"}, NEW t \in Times, Settle(p, to, t)
      PROVE  CoverInv'
  <2>1. /\ fetch'.at = fetch.at /\ fetch'.due = fetch.due /\ fetch'.got = fetch.got
        /\ fetch'.offset = fetch.offset /\ fetch'.total = fetch.total
        /\ fetch'.raced = (fetch.raced \/ (fetch.at = "select" /\ OwnerOf[p] = Wallet))
    BY <1>1 DEF Settle, FetchTypes, Fetch
  <2>2. SUFFICES ASSUME fetch.at # "idle", ~fetch'.raced
                 PROVE  /\ fetch.due \subseteq Matching'
                        /\ \A q \in fetch.due \ fetch.got :
                             Tied(q)' \/ Cardinality(Before(q)') >= fetch.offset
                        /\ fetch.at = "select" => fetch.total = Cardinality(Matching')
    BY <2>1 DEF CoverInv
  <2>3. /\ fetch.due \subseteq Matching
        /\ \A q \in fetch.due \ fetch.got : Tied(q) \/ Cardinality(Before(q)) >= fetch.offset
        /\ fetch.at = "select" => fetch.total = Cardinality(Matching) /\ OwnerOf[p] # Wallet
    BY <2>1, <2>2 DEF CoverInv
  <2>4. ASSUME NEW q \in fetch.due \ fetch.got
        PROVE  Tied(q)' \/ Cardinality(Before(q)') >= fetch.offset
    <3>1. CASE Tied(q)
      BY <1>1, <2>3, <3>1, PlacesGrow
    <3>2. CASE Cardinality(Before(q)) >= fetch.offset
      <4>1. Cardinality(Before(q)) <= Cardinality(Before(q)')
        BY <1>1, <2>3, PlacesGrow
      <4>2. IsFiniteSet(Before(q)')
        <5>1. Before(q)' \subseteq Quotes
          BY DEF Before, Matching
        <5>2. QED BY <5>1, SyncAssumption, FS_Subset
      <4>3. Cardinality(Before(q)) \in Nat /\ Cardinality(Before(q)') \in Nat /\ fetch.offset \in Nat
        BY <4>2, HistoryIsFinite, FS_CardinalityType DEF FetchTypes, Fetch
      <4>4. QED BY <3>2, <4>1, <4>3
    <3>3. QED BY <2>3, <3>1, <3>2
  <2>5. QED BY <1>1, <2>3, <2>4, HistoryGrows
<1>2. CASE StartFetch
  <2>1. /\ fetch' = [at |-> "count", offset |-> 0, total |-> 0, got |-> {}, due |-> Matching,
                     raced |-> FALSE]
        /\ row' = row
    BY <1>2 DEF StartFetch, NoFetch
  <2>2. Matching' = Matching
    BY <2>1 DEF Matching, InHistory
  <2>3. ASSUME NEW q PROVE Cardinality(Before(q)') >= 0
    <3>1. Before(q)' = Before(q)
      BY <2>1, <2>2 DEF Before
    <3>2. Cardinality(Before(q)) \in Nat
      BY HistoryIsFinite
    <3>3. QED BY <3>1, <3>2
  <2>4. QED BY <2>1, <2>2, <2>3 DEF CoverInv
<1>3. CASE row' = row /\ (fetch' = NoFetch \/ Count \/ Select \/ UNCHANGED fetch)
  <2>1. Matching' = Matching /\ \A q : Before(q)' = Before(q) /\ Tied(q)' = Tied(q)
    BY <1>3 DEF Matching, InHistory, Before, Tied
  <2>2. CASE fetch' = NoFetch
    BY <2>2 DEF NoFetch, CoverInv
  <2>3. CASE Count
    <3>1. /\ fetch.at = "count" /\ fetch'.at = "select" /\ fetch'.due = fetch.due
          /\ fetch'.got = fetch.got /\ fetch'.offset = fetch.offset
          /\ fetch'.total = Cardinality(Matching) /\ fetch'.raced = fetch.raced
      BY <2>3 DEF Count, FetchTypes, Fetch
    <3>2. QED BY <2>1, <3>1 DEF CoverInv
  <2>4. CASE Select /\ fetch' # NoFetch
    <3>1. PICK page \in Pages :
            fetch' = [fetch EXCEPT !.at = "count", !.offset = fetch.offset + PageSize,
                                   !.got = fetch.got \cup page]
      BY <2>4 DEF Select
    <3>2. /\ fetch.at = "select" /\ fetch'.at = "count" /\ fetch'.due = fetch.due
          /\ fetch'.got = fetch.got \cup page /\ fetch'.offset = fetch.offset + PageSize
          /\ fetch'.raced = fetch.raced
      BY <2>4, <3>1 DEF Select, FetchTypes, Fetch
    <3>3. SUFFICES ASSUME ~fetch.raced
                   PROVE  /\ fetch.due \subseteq Matching
                          /\ \A q \in fetch.due \ (fetch.got \cup page) :
                               Tied(q) \/ Cardinality(Before(q)) >= fetch.offset + PageSize
      BY <2>1, <3>2 DEF CoverInv
    <3>4. QED BY <3>2, <3>3, PageAdvances DEF CoverInv
  <2>5. CASE UNCHANGED fetch
    BY <2>1, <2>5 DEF CoverInv
  <2>6. QED BY <1>3, <2>2, <2>3, <2>4, <2>5
<1>4. QED
  BY <1>1, <1>2, <1>3
     DEF Next, vars, fetchVars, Announce, LosePublication, Subscribe, Upgrade, HandleChallenge,
         HandleMessage, AuthTimeout, OnClose, Drop, OnUpdate, Count, Select, RequestFails

-----------------------------------------------------------------------------
(* The connections. *)

(* Nobody is connected yet.                                                *)
LEMMA SocketInit == Init => SocketInv
  BY SyncAssumption
     DEF Init, SocketInv, SocketTypes, KeysAreAuthenticated, AloneIsSole, ListenersAreOpen,
         SoleSubscriberIsHeard, UpdatesGoToTheOwner

(* No step of a connection, a payment or the reader breaks the listeners.  *)
LEMMA SocketStep ==
  ASSUME SocketInv, [Next]_vars
  PROVE  SocketInv'
<1> USE DEF SocketInv, SocketTypes, KeysAreAuthenticated, AloneIsSole, ListenersAreOpen,
            SoleSubscriberIsHeard, UpdatesGoToTheOwner
<1>1. ASSUME NEW q \in Quotes, Announce(q) PROVE SocketInv'
  <2>1. OwnerOf[q] \in Pubkeys
    BY SyncAssumption
  <2>2. QED BY <1>1, <2>1 DEF Announce, Listener
<1>2. ASSUME NEW c \in Conns, Subscribe(c) PROVE SocketInv'
  BY <1>2, SyncAssumption DEF Subscribe
<1>3. ASSUME NEW c \in Conns, Upgrade(c) PROVE SocketInv'
  BY <1>3, SyncAssumption DEF Upgrade
<1>4. ASSUME NEW c \in Conns, Drop(c) PROVE SocketInv'
  BY <1>4 DEF Drop, Up, Lost
<1>5. ASSUME NEW c \in Conns, HandleChallenge(c) PROVE SocketInv'
  BY <1>5, SyncAssumption DEF HandleChallenge, Lost
<1>6. ASSUME NEW c \in Conns, NEW p \in Pubkeys, HandleMessage(c, p) PROVE SocketInv'
  <2>1. /\ server[c] \in {"challenged", "authorised"} /\ answers' \subseteq answers
        /\ UNCHANGED <<sdk, inbox>>
    BY <1>6 DEF HandleMessage
  <2>2. CASE UNCHANGED <<server, pubkey, keys, listeners, alone>>
    BY <2>1, <2>2
  <2>3. CASE LET others == Authorised(p) \ {c} IN
             /\ server' = [server EXCEPT ![c] = "authorised"]
             /\ pubkey' = [pubkey EXCEPT ![c] = p]
             /\ keys' = [keys EXCEPT ![c] = @ \cup {p}]
             /\ listeners' = [listeners EXCEPT ![p] = c]
             /\ alone' = IF others = {} THEN alone \cup {c} ELSE alone \ (others \cup {c})
    <3>1. SocketTypes' /\ KeysAreAuthenticated'
      BY <2>1, <2>3
    <3>2. ListenersAreOpen'
      <4> SUFFICES ASSUME NEW r \in Pubkeys, listeners'[r] # None
                   PROVE  /\ r \in keys'[listeners'[r]]
                          /\ pubkey'[listeners'[r]] = r => server'[listeners'[r]] = "authorised"
        OBVIOUS
      <4>1. CASE r = p
        BY <2>3, <4>1
      <4>2. CASE r # p /\ listeners[r] = c
        BY <2>3, <4>2
      <4>3. CASE r # p /\ listeners[r] # c
        BY <2>3, <4>3
      <4>4. QED BY <4>1, <4>2, <4>3
    <3>3. UpdatesGoToTheOwner'
      BY <2>1, <2>3
    <3>4. \A d \in alone' : d # c => d \in alone /\ d \notin Authorised(p)
      BY <2>3
    <3>5. c \in alone' => Authorised(p) \ {c} = {}
      BY <2>3
    <3>6. SoleSubscriberIsHeard'
      BY <2>1, <2>3, <3>4 DEF Authorised
    <3>7. AloneIsSole'
      BY <2>1, <2>3, <3>4, <3>5 DEF Authorised
    <3>8. QED BY <3>1, <3>2, <3>3, <3>6, <3>7
  <2>4. QED BY <1>6, <2>2, <2>3 DEF HandleMessage
<1>7. ASSUME NEW c \in Conns, AuthTimeout(c) PROVE SocketInv'
  BY <1>7, SyncAssumption DEF AuthTimeout, Lost
<1>8. ASSUME NEW c \in Conns, OnClose(c) PROVE SocketInv'
  BY <1>8, SyncAssumption DEF OnClose, Remaining
<1>9. ASSUME NEW c \in Conns, NEW q \in Quotes, OnUpdate(c, q) PROVE SocketInv'
  BY <1>9 DEF OnUpdate
<1>10. CASE UNCHANGED socketVars
  BY <1>10 DEF socketVars
<1>11. QED
  BY <1>1, <1>2, <1>3, <1>4, <1>5, <1>6, <1>7, <1>8, <1>9, <1>10
     DEF Next, vars, Settle, LosePublication, StartFetch, Count, Select, RequestFails

-----------------------------------------------------------------------------
(* The way of a payment to the wallet. *)

(* What has been paid carries a time.                                      *)
PaidInv == \A q \in Quotes : row[q].state # "UNPAID" => row[q].paidAt # 0

(* A payment records its time.                                             *)
LEMMA PaidStep ==
  ASSUME RowTypes, PaidInv, [Next]_vars
  PROVE  PaidInv'
<1>1. ASSUME NEW p \in Quotes, NEW to \in {"PAID", "ISSUED"}, NEW t \in Times, Settle(p, to, t)
      PROVE  PaidInv'
  <2>1. row' = [row EXCEPT ![p].state = to, ![p].paidAt = IF @ = 0 THEN t ELSE @]
    BY <1>1 DEF Settle
  <2>2. t # 0
    BY SyncAssumption
  <2>3. QED BY <2>1, <2>2 DEF RowTypes, PaidInv
<1>2. CASE row' = row
  BY <1>2 DEF PaidInv
<1>3. QED
  BY <1>1, <1>2
     DEF Next, vars, Announce, LosePublication, Subscribe, Upgrade, HandleChallenge, HandleMessage,
         AuthTimeout, OnClose, Drop, OnUpdate, StartFetch, Count, Select, RequestFails

(* Excuses are quotes.                                                     *)
LEMMA ExcuseStep ==
  ASSUME SocketTypes, FetchTypes, ExcuseTypes, [Next]_vars
  PROVE  ExcuseTypes'
<1>1. \A c \in Conns : inbox[c] \subseteq Quotes
  BY DEF SocketTypes
<1>2. fetch.due \subseteq Quotes
  BY DEF FetchTypes, Fetch
<1>3. ASSUME NEW c \in Conns, Lost(c) PROVE ExcuseTypes'
  BY <1>1, <1>3 DEF Lost, ExcuseTypes
<1>4. ASSUME NEW c \in Conns, HandleChallenge(c) \/ AuthTimeout(c) \/ Drop(c)
      PROVE  ExcuseTypes'
  BY <1>3, <1>4 DEF HandleChallenge, AuthTimeout, Drop, ExcuseTypes
<1>5. ASSUME NEW q \in Quotes, Announce(q) \/ LosePublication(q) PROVE ExcuseTypes'
  BY <1>5 DEF Announce, LosePublication, ExcuseTypes
<1>6. ASSUME NEW q \in Quotes, NEW to \in {"PAID", "ISSUED"}, NEW t \in Times, Settle(q, to, t)
      PROVE  ExcuseTypes'
  BY <1>6 DEF Settle, ExcuseTypes
<1>7. CASE Select
  BY <1>2, <1>7 DEF Select, ExcuseTypes
<1>8. CASE UNCHANGED excused
  BY <1>8 DEF ExcuseTypes
<1>9. QED
  BY <1>4, <1>5, <1>6, <1>7, <1>8
     DEF Next, vars, Subscribe, Upgrade, HandleMessage, OnClose, OnUpdate, StartFetch, Count,
         RequestFails

(* The event of a payment to a sole subscriber becomes an update to it;    *)
(* what other steps take off its way has become known, or is excused.      *)
LEMMA WayStep ==
  ASSUME RowTypes, FetchTypes, CoverInv, SocketInv, PaidInv, PaymentsAreOnTheirWay, [Next]_vars
  PROVE  PaymentsAreOnTheirWay'
<1> DEFINE Fine(q) == q \in known' \/ q \in excused' \/ OnItsWay(q)' \/ Tied(q)'
<1> SUFFICES ASSUME NEW q \in Matching' PROVE Fine(q)
  BY DEF PaymentsAreOnTheirWay
<1>0. inbox \in [Conns -> SUBSET Quotes]
  BY DEF SocketInv, SocketTypes
<1>1. ASSUME NEW p \in Quotes, NEW to \in {"PAID", "ISSUED"}, NEW t \in Times, Settle(p, to, t)
      PROVE  Fine(q)
  <2>1. /\ UNCHANGED <<keys, inbox, stale, known>> /\ excused \subseteq excused'
        /\ unannounced \subseteq unannounced'
    BY <1>1 DEF Settle, socketVars
  <2>2. fetch'.due = fetch.due
    BY <1>1 DEF Settle, FetchTypes, Fetch
  <2>3. CASE q \in Matching
    <3>1. q \in known \/ q \in excused \/ OnItsWay(q) \/ Tied(q)
      BY <2>3 DEF PaymentsAreOnTheirWay
    <3>2. Tied(q) => Tied(q)'
      BY <1>1, <2>3, PlacesGrow
    <3>3. QED BY <2>1, <2>2, <3>1, <3>2 DEF OnItsWay
  <2>4. CASE q \notin Matching
    <3>1. row' = [row EXCEPT ![p].state = to, ![p].paidAt = IF @ = 0 THEN t ELSE @]
      BY <1>1 DEF Settle
    <3>2. row[p].state = "UNPAID" \/ row[p].state = "PAID"
      BY <1>1 DEF Settle
    <3>3. q = p
      BY <2>4, <3>1 DEF Matching, InHistory, RowTypes
    <3>4. row[p].state = "PAID" => q \in Matching
      <4> SUFFICES ASSUME row[p].state = "PAID" PROVE q \in Matching
        OBVIOUS
      <4>1. row[p].paidAt # 0
        BY DEF PaidInv
      <4>2. row'[p].paidAt = row[p].paidAt
        BY <3>1, <4>1 DEF RowTypes
      <4>3. QED BY <3>3, <4>2 DEF Matching, InHistory
    <3>5. row[p].state = "UNPAID"
      BY <2>4, <3>2, <3>4
    <3>6. p \in unannounced' \/ p \in excused'
      BY <1>1, <3>5 DEF Settle
    <3>7. QED BY <3>3, <3>6 DEF OnItsWay
  <2>5. QED BY <2>3, <2>4
<1>2. CASE row' = row
  <2>1. Matching' = Matching /\ Tied(q)' = Tied(q)
    BY <1>2 DEF Matching, InHistory, Tied
  <2>2. q \in Quotes /\ OwnerOf[q] = Wallet
    BY <2>1 DEF Matching
  <2>3. q \in known \/ q \in excused \/ OnItsWay(q) \/ Tied(q)
    BY <2>1 DEF PaymentsAreOnTheirWay
  <2>4. ASSUME NEW p \in Quotes, Announce(p) PROVE Fine(q)
    <3>1. /\ unannounced' = unannounced \ {p} /\ excused \subseteq excused'
          /\ UNCHANGED <<keys, stale, fetch, known>>
          /\ \A c \in Conns : inbox[c] \subseteq inbox'[c]
      BY <1>0, <2>4 DEF Announce, fetchVars
    <3>2. CASE q # p
      BY <2>1, <2>3, <3>1, <3>2 DEF OnItsWay
    <3>3. CASE q = p
      <4>1. CASE \E c \in alone \cap Up : pubkey[c] = OwnerOf[p]
        <5>1. PICK c \in alone \cap Up : pubkey[c] = OwnerOf[p]
          BY <4>1
        <5>2. c \in Conns /\ server[c] = "authorised"
          BY <5>1 DEF SocketInv, SocketTypes, AloneIsSole
        <5>3. listeners[pubkey[c]] = c /\ pubkey[c] \in keys[c]
          BY <5>1, <5>2, SyncAssumption DEF SocketInv, SoleSubscriberIsHeard, KeysAreAuthenticated
        <5>4. c \in Listener(OwnerOf[p]) \cap Up
          BY <5>1, <5>2, <5>3, SyncAssumption DEF Listener
        <5>5. p \in inbox'[c]
          BY <2>4, <5>2, <5>4 DEF Announce
        <5>6. QED BY <2>2, <3>1, <3>3, <5>1, <5>2, <5>3, <5>5 DEF OnItsWay
      <4>2. CASE ~\E c \in alone \cap Up : pubkey[c] = OwnerOf[p]
        BY <2>4, <3>3, <4>2 DEF Announce
      <4>3. QED BY <4>1, <4>2
    <3>4. QED BY <3>2, <3>3
  <2>5. ASSUME NEW c \in Conns, Lost(c), UNCHANGED <<unannounced, keys, stale, fetch, known>>
        PROVE  Fine(q)
    <3>1. excused' = excused \cup inbox[c] /\ \A d \in Conns \ {c} : inbox'[d] = inbox[d]
      BY <1>0, <2>5 DEF Lost
    <3>2. QED BY <2>1, <2>3, <2>5, <3>1 DEF OnItsWay
  <2>6. ASSUME NEW c \in Conns, HandleChallenge(c) \/ AuthTimeout(c) \/ Drop(c)
        PROVE  Fine(q)
    <3>1. UNCHANGED <<unannounced, keys, stale, fetch, known>>
      BY <2>6 DEF HandleChallenge, AuthTimeout, Drop, fetchVars
    <3>2. Lost(c) \/ UNCHANGED <<inbox, excused>>
      BY <2>6 DEF HandleChallenge, AuthTimeout, Drop
    <3>3. CASE Lost(c)
      BY <2>5, <3>1, <3>3
    <3>4. CASE UNCHANGED <<inbox, excused>>
      BY <2>1, <2>3, <3>1, <3>4 DEF OnItsWay
    <3>5. QED BY <3>2, <3>3, <3>4
  <2>7. ASSUME NEW c \in Conns, NEW p \in Quotes, OnUpdate(c, p) PROVE Fine(q)
    <3>1. /\ UNCHANGED <<unannounced, keys, fetch, known, excused>>
          /\ \A d \in Conns \ {c} : inbox'[d] = inbox[d]
          /\ stale' = (stale \/ Wallet \in keys[c])
      BY <1>0, <2>7 DEF OnUpdate, fetchVars
    <3>2. CASE Wallet \in keys[c]
      BY <3>1, <3>2 DEF OnItsWay
    <3>3. CASE Wallet \notin keys[c]
      BY <2>1, <2>3, <3>1, <3>3 DEF OnItsWay
    <3>4. QED BY <3>2, <3>3
  <2>8. ASSUME NEW c \in Conns, NEW p \in Pubkeys, HandleMessage(c, p) PROVE Fine(q)
    <3>1. /\ UNCHANGED <<unannounced, inbox, stale, fetch, known, excused>>
          /\ \A d \in Conns : keys[d] \subseteq keys'[d]
      BY <2>8 DEF HandleMessage, fetchVars, SocketInv, SocketTypes
    <3>2. QED BY <2>1, <2>3, <3>1 DEF OnItsWay
  <2>9. CASE StartFetch
    <3>1. fetch'.due = Matching
      BY <2>9 DEF StartFetch, NoFetch
    <3>2. QED BY <2>1, <3>1 DEF OnItsWay
  <2>10. CASE Select
    <3>1. PICK page \in Pages :
            IF IsLast(fetch.offset + PageSize, fetch.total)
              THEN /\ known' = known \cup (fetch.got \cup page)
                   /\ excused' = IF fetch.raced THEN excused \cup fetch.due ELSE excused
              ELSE /\ fetch' = [fetch EXCEPT !.at = "count", !.offset = fetch.offset + PageSize,
                                             !.got = fetch.got \cup page]
                   /\ UNCHANGED <<known, excused>>
      BY <2>10 DEF Select
    <3>2. fetch.at = "select" /\ UNCHANGED <<unannounced, keys, inbox, stale>>
      BY <2>10 DEF Select, socketVars
    <3>3. CASE ~IsLast(fetch.offset + PageSize, fetch.total)
      <4>1. fetch'.due = fetch.due
        BY <3>1, <3>3 DEF FetchTypes, Fetch
      <4>2. QED BY <2>1, <2>3, <3>1, <3>2, <3>3, <4>1 DEF OnItsWay
    <3>4. CASE IsLast(fetch.offset + PageSize, fetch.total) /\ q \in fetch.due
      <4>1. CASE fetch.raced
        BY <3>1, <3>4, <4>1
      <4>2. CASE ~fetch.raced
        <5>1. q \in fetch.got \cup page \/ Tied(q)
          BY <3>2, <3>4, <4>2, LastPageCovers
        <5>2. QED BY <2>1, <3>1, <3>4, <5>1
      <4>3. QED BY <4>1, <4>2
    <3>5. CASE IsLast(fetch.offset + PageSize, fetch.total) /\ q \notin fetch.due
      <4>1. known \subseteq known' /\ excused \subseteq excused'
        BY <3>1, <3>5
      <4>2. QED BY <2>1, <2>3, <3>2, <3>5, <4>1 DEF OnItsWay
    <3>6. QED BY <3>3, <3>4, <3>5
  <2>11. CASE RequestFails
    BY <2>11 DEF RequestFails, OnItsWay
  <2>12. CASE UNCHANGED <<unannounced, keys, inbox, stale, known, excused>> /\ fetch'.due = fetch.due
    BY <2>1, <2>3, <2>12 DEF OnItsWay
  <2>13. CASE Count
    <3>1. fetch'.due = fetch.due
      BY <2>13 DEF Count, FetchTypes, Fetch
    <3>2. QED BY <2>12, <2>13, <3>1 DEF Count, socketVars
  <2>14. ASSUME NEW c \in Conns, Subscribe(c) \/ Upgrade(c) \/ OnClose(c) PROVE Fine(q)
    BY <2>12, <2>14 DEF Subscribe, Upgrade, OnClose, fetchVars
  <2>15. ASSUME NEW p \in Quotes, LosePublication(p) PROVE Fine(q)
    <3>1. /\ unannounced' = unannounced \ {p} /\ excused' = excused \cup {p}
          /\ UNCHANGED <<keys, inbox, stale, fetch, known>>
      BY <2>15 DEF LosePublication, socketVars, fetchVars
    <3>2. QED BY <2>1, <2>3, <3>1 DEF OnItsWay
  <2>16. CASE UNCHANGED vars
    BY <2>12, <2>16 DEF vars, socketVars, fetchVars
  <2>17. QED
    BY <1>1, <2>4, <2>6, <2>7, <2>8, <2>9, <2>10, <2>11, <2>13, <2>14, <2>15, <2>16 DEF Next
<1>3. QED
  BY <1>1, <1>2
     DEF Next, vars, Announce, LosePublication, Subscribe, Upgrade, HandleChallenge, HandleMessage,
         AuthTimeout, OnClose, Drop, OnUpdate, StartFetch, Count, Select, RequestFails

SyncInv ==
  /\ RowTypes /\ FetchTypes /\ ExcuseTypes
  /\ CoverInv
  /\ SocketInv
  /\ PaidInv
  /\ PaymentsAreOnTheirWay

(* The strengthening holds throughout.                                     *)
THEOREM SyncInvariant == Spec => []SyncInv
<1>1. Init => SyncInv
  <2>1. Init => RowTypes
    BY DEF Init, RowTypes
  <2>2. Init => FetchTypes
    <3>1. Init => stale \in BOOLEAN
      BY DEF Init
    <3>2. Init => fetch \in Fetch
      BY NoFetchType DEF Init
    <3>3. Init => known \subseteq Quotes
      BY DEF Init
    <3>4. QED BY <3>1, <3>2, <3>3 DEF FetchTypes
  <2>3. Init => CoverInv
    BY DEF Init, NoFetch, CoverInv
  <2>4. Init => ExcuseTypes /\ PaidInv /\ PaymentsAreOnTheirWay
    BY DEF Init, ExcuseTypes, PaidInv, PaymentsAreOnTheirWay, Matching, InHistory
  <2>5. QED BY <2>1, <2>2, <2>3, <2>4, SocketInit DEF SyncInv
<1>2. SyncInv /\ [Next]_vars => SyncInv'
  <2> SUFFICES ASSUME SyncInv, [Next]_vars PROVE SyncInv'
    OBVIOUS
  <2>1. RowTypes' /\ FetchTypes' /\ CoverInv' /\ SocketInv'
    BY RowStep, FetchStep, CoverStep, SocketStep DEF SyncInv
  <2>2. ExcuseTypes'
    BY ExcuseStep DEF SyncInv, SocketInv
  <2>3. PaidInv' /\ PaymentsAreOnTheirWay'
    BY PaidStep, WayStep DEF SyncInv
  <2>4. QED BY <2>1, <2>2, <2>3 DEF SyncInv
<1>3. QED BY <1>1, <1>2, PTL DEF Spec

(* However connections open, authenticate once or again with other keys,   *)
(* time out and close, the table of listeners holds connections that       *)
(* authenticated as the pubkey, closed ones only under keys they had given *)
(* up, and a connection without a rival for its pubkey keeps its place.    *)
THEOREM ListenersFollowConnections == Spec => []ListenerInv
<1>1. SyncInv => ListenerInv
  BY TypeParts DEF SyncInv, SocketInv, ListenerInv
<1>2. QED BY <1>1, SyncInvariant, PTL

(* No update about a payment is ever on its way to anybody but the owner   *)
(* of the quote.                                                           *)
THEOREM UpdatesStayPrivate == Spec => []UpdatesGoToTheOwner
<1>1. SyncInv => UpdatesGoToTheOwner
  BY DEF SyncInv, SocketInv
<1>2. QED BY <1>1, SyncInvariant, PTL

(* A fetch that returns has every payment that was in the history when it  *)
(* began, however many came in meanwhile, unless one came in between the   *)
(* COUNT and the SELECT of a page or the payment shares its time.          *)
THEOREM FetchIsComplete == Spec => FetchMissesOnlyByRace
<1> DEFINE Misses ==
      Select /\ fetch'.at = "idle" /\ ~fetch.raced =>
        \A q \in fetch.due \ known' : Tied(q)
<1>1. ASSUME SyncInv, [Next]_vars PROVE [Misses]_vars
  <2>1. SUFFICES ASSUME Select, fetch'.at = "idle", ~fetch.raced, NEW q \in fetch.due \ known'
                 PROVE  Tied(q)
    OBVIOUS
  <2>2. fetch.at = "select"
    BY <2>1 DEF Select
  <2>3. PICK page \in Pages :
          IF IsLast(fetch.offset + PageSize, fetch.total)
            THEN fetch' = NoFetch /\ known' = known \cup (fetch.got \cup page)
            ELSE fetch' = [fetch EXCEPT !.at = "count", !.offset = fetch.offset + PageSize,
                                        !.got = fetch.got \cup page]
    BY <2>1 DEF Select
  <2>4. /\ IsLast(fetch.offset + PageSize, fetch.total)
        /\ known' = known \cup (fetch.got \cup page)
    BY <1>1, <2>1, <2>3 DEF SyncInv, FetchTypes, Fetch
  <2>5. QED BY <1>1, <2>1, <2>2, <2>4, LastPageCovers DEF SyncInv
<1>2. QED BY <1>1, SyncInvariant, PTL DEF Spec, FetchMissesOnlyByRace

(* Whatever connections and requests fail, and whatever is paid while the  *)
(* history is read, a payment that the wallet does not know is on its way  *)
(* to it: nothing loses one but the listed excuses and equal times.        *)
THEOREM PaymentsArrive == Spec => []PaymentsAreOnTheirWay
<1>1. SyncInv => PaymentsAreOnTheirWay
  BY DEF SyncInv
<1>2. QED BY <1>1, SyncInvariant, PTL
=============================================================================
