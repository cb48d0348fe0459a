---------------------------- MODULE PaymentSync -----------------------------
(***************************************************************************)
(* How a wallet learns of the payments it received.  The server keeps one  *)
(* listener for each pubkey and sends an update for a quote that became    *)
(* PAID; the SDK's subscription answers the server's challenge and hands   *)
(* updates to the application, which then reads the history page by page.  *)
(* Each page is two statements, COUNT and SELECT, while quotes keep being  *)
(* settled.                                                                *)
(*                                                                         *)
(* Settling a quote is QuoteLedger's change towards PAID or ISSUED; only   *)
(* what the two readers see of it is kept.  The application is external:   *)
(* as the SDK's guide asks, it fetches the history after an update.        *)
(***************************************************************************)
EXTENDS Naturals, FiniteSets, SequencesExt

CONSTANTS
  Pubkeys,    \* the users
  Wallet,     \* the user whose application reads the history
  Quotes,     \* the Mint Quotes
  OwnerOf,    \* [Quotes -> Pubkeys]
  Conns,      \* WebSocket connections, each used once
  PageSize,   \* PAGINATION_LIMIT, and the server's cap on a page
  Times,      \* the times a payment may be recorded at
  Since,      \* what the application asks for, 0 for getAllQuotes
  None        \* no connection, no pubkey

ASSUME SyncAssumption ==
  /\ Wallet \in Pubkeys
  /\ OwnerOf \in [Quotes -> Pubkeys]
  /\ PageSize \in Nat \ {0}
  /\ Times \subseteq Nat \ {0}
  /\ Since \in Nat
  /\ IsFiniteSet(Quotes)
  /\ None \notin Conns \cup Pubkeys

VARIABLES
  row,         \* [Quotes -> [state, paidAt]], table mint_quotes
  unannounced, \* quotes that became PAID and whose event is not emitted yet
  sdk,         \* [Conns -> state of the client's SubscriptionManager]
  server,      \* [Conns -> state of the server's WebSocketConnection]
  pubkey,      \* [Conns -> its "pubkey", None before it authenticated]
  keys,        \* history: [Conns -> every pubkey it authenticated with]
  answers,     \* the connections with a first response under way
  inbox,       \* [Conns -> the updates under way]
  listeners,   \* [Pubkeys -> Conns or None], QuoteSubscriptionManager
  alone,       \* history: authorised, and no other of its pubkey was since
  stale,       \* the application has heard of something it did not fetch
  fetch,       \* _fetchPaginatedQuotes of the wallet
  known,       \* the quotes the wallet has fetched
  excused      \* history: payments that may never reach the wallet

socketVars == <<sdk, server, pubkey, keys, answers, inbox, listeners, alone>>
fetchVars == <<fetch, known>>
vars == <<row, unannounced, socketVars, stale, fetchVars, excused>>

-----------------------------------------------------------------------------
TypeOK ==
  /\ row \in [Quotes -> [state : {"UNPAID", "PAID", "ISSUED"}, paidAt : Times \cup {0}]]
  /\ unannounced \subseteq { q \in Quotes : row[q].state # "UNPAID" }
  /\ sdk \in [Conns -> {"idle", "connecting", "answered", "closed"}]
  /\ server \in [Conns -> {"none", "challenged", "authorised", "gone"}]
  /\ pubkey \in [Conns -> Pubkeys \cup {None}]
  /\ keys \in [Conns -> SUBSET Pubkeys]
  /\ answers \subseteq { c \in Conns : sdk[c] # "idle" }
  /\ inbox \in [Conns -> SUBSET Quotes]
  /\ listeners \in [Pubkeys -> Conns \cup {None}]
  /\ alone \subseteq Conns
  /\ stale \in BOOLEAN
  /\ fetch \in [at : {"idle", "count", "select"}, offset : Nat, total : 0..Cardinality(Quotes),
                got : SUBSET Quotes, due : SUBSET Quotes, raced : BOOLEAN]
  /\ known \subseteq Quotes
  /\ excused \subseteq Quotes

(* "due" and "raced" are history: the quotes that were in the history when  *)
(* the fetch began, and whether one came in between a COUNT and its SELECT. *)
(* "excused" has the payments with a known reason to be missed: ISSUED was  *)
(* observed without PAID; the event was never emitted; it found no          *)
(* connection that was its user's only one; the update was lost with its    *)
(* connection; or the fetch that should have it was raced.                  *)
NoFetch == [at |-> "idle", offset |-> 0, total |-> 0, got |-> {}, due |-> {}, raced |-> FALSE]

Init ==
  /\ row = [q \in Quotes |-> [state |-> "UNPAID", paidAt |-> 0]]
  /\ unannounced = {}
  /\ sdk = [c \in Conns |-> "idle"]
  /\ server = [c \in Conns |-> "none"]
  /\ pubkey = [c \in Conns |-> None]
  /\ keys = [c \in Conns |-> {}]
  /\ answers = {}
  /\ inbox = [c \in Conns |-> {}]
  /\ listeners = [p \in Pubkeys |-> None]
  /\ alone = {}
  /\ stale = FALSE
  /\ fetch = NoFetch
  /\ known = {}
  /\ excused = {}

-----------------------------------------------------------------------------
(* The history of the wallet's user: getUserHistory. *)

(* Fault: a quote that was minted leaves the history.                      *)
InHistoryUnminted(q) == row[q].state = "PAID"

InHistory(q) == row[q].state \in {"PAID", "ISSUED"}

Matching == { q \in Quotes : OwnerOf[q] = Wallet /\ InHistory(q) /\ row[q].paidAt > Since }

(* ORDER BY paid_at DESC: quotes paid at the same time come in any order.  *)
Ordered(s) == \A i, j \in DOMAIN s : i < j => row[s[i]].paidAt >= row[s[j]].paidAt

(* LIMIT ... OFFSET ..., which may be beyond the last row.                 *)
Pages ==
  { { s[i] : i \in DOMAIN s \cap (fetch.offset + 1)..(fetch.offset + PageSize) } :
      s \in { t \in SetToSeqs(Matching) : Ordered(t) } }

(* A quote is settled; t is the time its observation carries.  The races   *)
(* between observations are the subject of QuoteReconciliation.            *)
Settle(q, to, t) ==
  /\ \/ row[q].state = "UNPAID"
     \/ row[q].state = "PAID" /\ to = "ISSUED"
  /\ row' = [row EXCEPT ![q].state = to, ![q].paidAt = IF @ = 0 THEN t ELSE @]
  /\ unannounced' = IF to = "PAID" THEN unannounced \cup {q} ELSE unannounced
  /\ fetch' = [fetch EXCEPT !.raced = @ \/ (fetch.at = "select" /\ OwnerOf[q] = Wallet)]
  /\ excused' = IF row[q].state = "UNPAID" /\ to = "ISSUED" THEN excused \cup {q} ELSE excused
  /\ UNCHANGED <<socketVars, stale, known>>

(* getQuotesSince or getAllQuotes begins.                                  *)
StartFetch ==
  /\ stale
  /\ fetch.at = "idle"
  /\ stale' = FALSE
  /\ fetch' = [NoFetch EXCEPT !.at = "count", !.due = Matching]
  /\ UNCHANGED <<row, unannounced, socketVars, known, excused>>

(* SELECT COUNT over the same condition.                                   *)
Count ==
  /\ fetch.at = "count"
  /\ fetch' = [fetch EXCEPT !.at = "select", !.total = Cardinality(Matching)]
  /\ UNCHANGED <<row, unannounced, socketVars, stale, known, excused>>

(* Whether the SDK stops after the page before this offset.                *)
IsLast(offset, total) == offset >= total

(* The page is read and the SDK goes on to the next one, or returns.       *)
Select ==
  /\ fetch.at = "select"
  /\ \E page \in Pages :
       LET got == fetch.got \cup page
           next == fetch.offset + PageSize
       IN  IF IsLast(next, fetch.total)
             THEN /\ fetch' = NoFetch
                  /\ known' = known \cup got
                  /\ excused' = IF fetch.raced THEN excused \cup fetch.due ELSE excused
             ELSE /\ fetch' = [fetch EXCEPT !.at = "count", !.offset = next, !.got = got]
                  /\ UNCHANGED <<known, excused>>
  /\ UNCHANGED <<row, unannounced, socketVars, stale>>

(* Fault: the SDK returns what it has when a request fails.                *)
RequestFailsQuietly ==
  /\ fetch.at # "idle"
  /\ fetch' = NoFetch
  /\ known' = known \cup fetch.got
  /\ UNCHANGED <<row, unannounced, socketVars, stale, excused>>

(* A request fails: _request throws, the pages read so far are dropped, and *)
(* the application has to ask again.                                       *)
RequestFails ==
  /\ fetch.at # "idle"
  /\ fetch' = NoFetch
  /\ stale' = TRUE
  /\ UNCHANGED <<row, unannounced, socketVars, known, excused>>

-----------------------------------------------------------------------------
(* The SDK's SubscriptionManager and the server's WebSocketConnection.     *)

(* subscribe() constructs a manager, which opens a socket.                 *)
Subscribe(c) ==
  /\ sdk[c] = "idle"
  /\ sdk' = [sdk EXCEPT ![c] = "connecting"]
  /\ UNCHANGED <<row, unannounced, server, pubkey, keys, answers, inbox, listeners, alone, stale,
                 fetchVars, excused>>

(* The connections whose transport works.                                  *)
Up == { c \in Conns : sdk[c] \in {"connecting", "answered"} }

(* The upgrade makes a connection, which sends the challenge and gives the *)
(* client 15 seconds.                                                      *)
Upgrade(c) ==
  /\ c \in Up /\ server[c] = "none"
  /\ server' = [server EXCEPT ![c] = "challenged"]
  /\ UNCHANGED <<row, unannounced, sdk, pubkey, keys, answers, inbox, listeners, alone, stale,
                 fetchVars, excused>>

(* The connection ends, and what was under way on it is never handed over. *)
Lost(c) ==
  /\ sdk' = [sdk EXCEPT ![c] = "closed"]
  /\ inbox' = [inbox EXCEPT ![c] = {}]
  /\ excused' = excused \cup inbox[c]

(* The challenge arrives and is signed, or the signer fails.               *)
HandleChallenge(c) ==
  /\ sdk[c] = "connecting" /\ server[c] = "challenged"
  /\ \/ /\ sdk' = [sdk EXCEPT ![c] = "answered"]
        /\ answers' = answers \cup {c}
        /\ UNCHANGED <<inbox, excused>>
     \/ /\ Lost(c)
        /\ UNCHANGED answers
  /\ UNCHANGED <<row, unannounced, server, pubkey, keys, listeners, alone, stale, fetchVars>>

(* The connections authorised on the server with this pubkey.              *)
Authorised(p) == { c \in Conns : pubkey[c] = p /\ server[c] = "authorised" }

(* A response signed by the user p arrives: the one under way, or a later  *)
(* one of a client other than the SDK, signed with the same key or another. *)
(* verifyAuth and authorise run without a pause; the pubkey of the         *)
(* connection is replaced, and so is the listener of the new pubkey.  A    *)
(* response that does not verify, for instance because it is too old,      *)
(* changes nothing.                                                        *)
HandleMessage(c, p) ==
  /\ server[c] \in {"challenged", "authorised"}
  /\ c \in answers \/ sdk[c] = "answered"
  /\ answers' = answers \ {c}
  /\ \/ LET others == Authorised(p) \ {c} IN
        /\ server' = [server EXCEPT ![c] = "authorised"]
        /\ pubkey' = [pubkey EXCEPT ![c] = p]
        /\ keys' = [keys EXCEPT ![c] = @ \cup {p}]
        /\ listeners' = [listeners EXCEPT ![p] = c]
        /\ alone' = IF others = {} THEN alone \cup {c} ELSE alone \ (others \cup {c})
     \/ UNCHANGED <<server, pubkey, keys, listeners, alone>>
  /\ UNCHANGED <<row, unannounced, sdk, inbox, stale, fetchVars, excused>>

(* 15 seconds without a good response.                                     *)
AuthTimeout(c) ==
  /\ server[c] = "challenged"
  /\ server' = [server EXCEPT ![c] = "gone"]
  /\ Lost(c)
  /\ answers' = answers \ {c}
  /\ UNCHANGED <<row, unannounced, pubkey, keys, listeners, alone, stale, fetchVars>>

(* Fault: the listener is left behind.                                     *)
RemainingKeeping(c) == listeners

(* close() removes the listener of the last pubkey, whoever's it is; those *)
(* of keys the connection had before stay.                                 *)
Remaining(c) ==
  IF server[c] = "authorised" THEN [listeners EXCEPT ![pubkey[c]] = None] ELSE listeners

(* The server notices that the socket is closed.                           *)
OnClose(c) ==
  /\ server[c] \in {"challenged", "authorised"}
  /\ c \notin Up
  /\ server' = [server EXCEPT ![c] = "gone"]
  /\ listeners' = Remaining(c)
  /\ answers' = answers \ {c}
  /\ alone' = alone \ {c}
  /\ UNCHANGED <<row, unannounced, sdk, pubkey, keys, inbox, stale, fetchVars, excused>>

(* The transport fails or dispose() closes the socket; the SDK does not     *)
(* reconnect.  An answer under way arrives first or never.                 *)
Drop(c) ==
  /\ c \in Up
  /\ Lost(c)
  /\ UNCHANGED <<row, unannounced, server, pubkey, keys, answers, listeners, alone, stale,
                 fetchVars>>

(* Fault: the update goes to every authorised connection.                  *)
ListenerAny(p) == { c \in Conns : server[c] = "authorised" }

(* The connection whose listener hears of a pubkey's payments.             *)
Listener(p) == { listeners[p] } \ {None}

(* The stateChanged event is emitted.  An update to a connection that is   *)
(* gone or was never made is lost.                                         *)
Announce(q) ==
  /\ q \in unannounced
  /\ unannounced' = unannounced \ {q}
  /\ inbox' = [c \in Conns |->
       IF c \in Listener(OwnerOf[q]) \cap Up THEN inbox[c] \cup {q} ELSE inbox[c]]
  /\ excused' = IF \E c \in alone \cap Up : pubkey[c] = OwnerOf[q] THEN excused ELSE excused \cup {q}
  /\ UNCHANGED <<row, sdk, server, pubkey, keys, answers, listeners, alone, stale, fetchVars>>

(* The change is committed but its event is never emitted: the reply to    *)
(* the UPDATE was lost, so handle() ended at its await.  A crash of the    *)
(* server is this for every such quote, and Drop for every connection.     *)
LosePublication(q) ==
  /\ q \in unannounced
  /\ unannounced' = unannounced \ {q}
  /\ excused' = excused \cup {q}
  /\ UNCHANGED <<row, socketVars, stale, fetchVars>>

(* onMessage hands an update to the application of the connection's users. *)
OnUpdate(c, q) ==
  /\ q \in inbox[c]
  /\ inbox' = [inbox EXCEPT ![c] = @ \ {q}]
  /\ stale' = (stale \/ Wallet \in keys[c])
  /\ UNCHANGED <<row, unannounced, sdk, server, pubkey, keys, answers, listeners, alone, fetchVars,
                 excused>>

-----------------------------------------------------------------------------
Next ==
  \/ \E q \in Quotes :
       \/ \E to \in {"PAID", "ISSUED"}, t \in Times : Settle(q, to, t)
       \/ Announce(q) \/ LosePublication(q)
  \/ \E c \in Conns :
       \/ Subscribe(c) \/ Upgrade(c) \/ HandleChallenge(c) \/ AuthTimeout(c)
       \/ \E p \in Pubkeys : HandleMessage(c, p)
       \/ Drop(c) \/ OnClose(c)
       \/ \E q \in Quotes : OnUpdate(c, q)
  \/ StartFetch \/ Count \/ Select \/ RequestFails

Spec == Init /\ [][Next]_vars

-----------------------------------------------------------------------------
(* A listener belongs to a connection that authenticated as its pubkey,    *)
(* and close() leaves behind no listener of the pubkey the connection had  *)
(* last: only one of a key it answered with before can outlive it.         *)
ListenersAreOpen ==
  \A p \in Pubkeys : LET c == listeners[p] IN
    c # None => p \in keys[c] /\ (pubkey[c] = p => server[c] = "authorised")

(* An update is sent only on a connection that authenticated as the owner  *)
(* of the quote, whichever connections came and went before and whatever   *)
(* else they authenticated as.                                             *)
UpdatesGoToTheOwner ==
  \A c \in Conns : \A q \in inbox[c] :
    OwnerOf[q] \in keys[c] /\ server[c] \in {"authorised", "gone"}

(* A connection that shared its pubkey with no other authorised one since  *)
(* it took it is the listener of its pubkey until it is closed.            *)
SoleSubscriberIsHeard ==
  \A c \in alone : server[c] = "authorised" => listeners[pubkey[c]] = c

(* The table of listeners follows the connections: what a connection       *)
(* leaves behind is of keys it had given up, and no sole one loses its     *)
(* place.                                                                  *)
ListenerInv == TypeOK /\ ListenersAreOpen /\ SoleSubscriberIsHeard

(* Another payment of the history was recorded at the same time.           *)
Tied(q) == \E r \in Matching \ {q} : row[r].paidAt = row[q].paidAt

(* A fetch that returns misses a payment that was in the history when it   *)
(* began only if a quote was settled between the COUNT and the SELECT of a *)
(* page, or if the payment shares its time with another: insertions at any *)
(* other moment move rows to later pages, never out of the fetch.          *)
FetchMissesOnlyByRace ==
  [][Select /\ fetch'.at = "idle" /\ ~fetch.raced =>
       \A q \in fetch.due \ known' : Tied(q)]_vars

(* A payment's event is still to come, its update is on a connection of    *)
(* the wallet, the application has heard of one and is about to fetch, or  *)
(* the fetch that has to deliver it is going on.                           *)
OnItsWay(q) ==
  \/ q \in unannounced
  \/ \E c \in Conns : Wallet \in keys[c] /\ q \in inbox[c]
  \/ stale
  \/ q \in fetch.due

(* "The paid quote is ... published to connected quote-update subscribers" *)
(* (how-does-it-work.md:30), who fetch it: a payment that the wallet does  *)
(* not know is on its way, unless it is excused or shares its time.        *)
PaymentsAreOnTheirWay ==
  \A q \in Matching \ (known \cup excused) : OnItsWay(q) \/ Tied(q)
=============================================================================
