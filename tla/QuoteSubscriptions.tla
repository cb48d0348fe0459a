------------------------ MODULE QuoteSubscriptions --------------------------
(***************************************************************************)
(* The WebSocket monitoring of one mint: the service that watches active   *)
(* quotes, the transport that batches them into NUT-17 subscriptions, and  *)
(* the connection manager with its socket, send queue and timers.  Mints   *)
(* share nothing here but the shutdown; each has its entry in every map.   *)
(*                                                                         *)
(* A socket stops being open before its close event arrives.  In between   *)
(* it may be replaced; the events of a replaced socket are ignored.        *)
(*                                                                         *)
(* Abstracted: the delays of the timers; request ids; a quote's internal   *)
(* and mint id are one; the mint sees a request when it is sent.           *)
(***************************************************************************)
EXTENDS Naturals, Sequences, FiniteSets

CONSTANTS
  Quotes,     \* the Mint Quotes of this mint
  SubIds,     \* enough subscription ids, drawn at random in the code
  BatchSize,  \* MAX_FILTERS_PER_SUBSCRIPTION
  NoSub,      \* subId === undefined
  MaxFaults   \* bound: connections that fail or drop, and events that are lost

ASSUME SubscriptionsAssumption ==
  /\ BatchSize \in Nat \ {0}
  /\ NoSub \notin SubIds
  /\ MaxFaults \in Nat

VARIABLES
  service,    \* the WebSocket service
  row,        \* [Quotes -> {"absent", "UNPAID", "closed"}], the table
  expired,    \* quotes past their local expiry
  creating,   \* inserted quotes whose mintQuote.created is still to come
  closing,    \* closed quotes whose mintQuote.stateChanged is still to come
  unpublished, \* history: closed quotes whose mintQuote.stateChanged was lost
  watch,      \* byQuoteId; the mint has an entry and listeners while not {}
  sub,        \* [Quotes -> SubIds \cup {NoSub}], the subId of each watch
  wires,      \* [SubIds -> SUBSET Quotes], bySubId; {} is no entry
  queued,     \* the wire subscriptions flagged as queued
  isOpen,     \* the transport's view of the connection
  socket,     \* the manager's socket, by its readyState
  pending,    \* a connection attempt awaits the request budget
  reconnect,  \* reconnectTimeoutByMint
  periodic,   \* periodicReconnectTimers
  queue,      \* sendQueueByMint
  remote,     \* [SubIds -> SUBSET Quotes], what the mint has on this connection
  stale,      \* a replaced socket may still deliver events
  faults

rows == <<row, expired, creating, closing, unpublished>>
transport == <<watch, sub, wires, queued, isOpen>>
connection == <<socket, pending, reconnect, periodic, stale>>
manager == <<connection, queue, remote>>
vars == <<service, rows, transport, manager, faults>>

-----------------------------------------------------------------------------
Socket == {"none", "connecting", "open", "closing"}

Message == [method : {"subscribe", "unsubscribe"}, id : SubIds, filters : SUBSET Quotes]

NoFilters == [id \in SubIds |-> {}]

Unsubscribed == [q \in Quotes |-> NoSub]

TypeOK ==
  /\ service \in {"new", "started", "stopped"}
  /\ row \in [Quotes -> {"absent", "UNPAID", "closed"}]
  /\ expired \subseteq Quotes
  /\ creating \subseteq Quotes
  /\ closing \subseteq Quotes
  /\ unpublished \subseteq Quotes
  /\ watch \subseteq Quotes
  /\ sub \in [Quotes -> SubIds \cup {NoSub}]
  /\ wires \in [SubIds -> SUBSET Quotes]
  /\ queued \subseteq SubIds
  /\ isOpen \in BOOLEAN
  /\ socket \in Socket
  /\ pending \in BOOLEAN
  /\ reconnect \in BOOLEAN
  /\ periodic \in BOOLEAN
  /\ queue \in Seq(Message)
  /\ remote \in [SubIds -> SUBSET Quotes]
  /\ stale \in BOOLEAN
  /\ faults \in 0..MaxFaults

Init ==
  /\ service = "new"
  /\ row \in [Quotes -> {"absent", "UNPAID"}]
  /\ expired \in SUBSET { q \in Quotes : row[q] = "UNPAID" }
  /\ creating = {} /\ closing = {} /\ unpublished = {}
  /\ watch = {} /\ sub = Unsubscribed /\ wires = NoFilters /\ queued = {} /\ isOpen = FALSE
  /\ socket = "none" /\ pending = FALSE /\ reconnect = FALSE /\ periodic = FALSE
  /\ queue = <<>> /\ remote = NoFilters /\ stale = FALSE
  /\ faults = 0

-----------------------------------------------------------------------------
(* The connection manager                                                  *)

(* ensureSocket: a socket that is closing or closed is replaced; a new one *)
(* needs a token of the mint's request budget, at hand or awaited.         *)
EnsureSocket ==
  IF socket \in {"connecting", "open"}
    THEN UNCHANGED <<socket, pending, periodic, stale>>
    ELSE /\ \/ ~pending /\ socket' = "connecting" /\ UNCHANGED pending
            \/ socket' = "none" /\ pending' = TRUE
         /\ periodic' = FALSE
         /\ stale' = (stale \/ socket = "closing")

(* What a request changes at the mint; an unsubscribe has no filters.      *)
Received(filters, message) == [filters EXCEPT ![message.id] = message.filters]

(* send: over an open socket, or later.                                    *)
Send(message) ==
  /\ EnsureSocket
  /\ IF socket = "open"
       THEN remote' = Received(remote, message) /\ UNCHANGED queue
       ELSE queue' = Append(queue, message) /\ UNCHANGED remote

(* closeMint, or closeAll: the socket, timers and listeners go, a waiting  *)
(* connection attempt is aborted.                                          *)
CloseMint ==
  /\ socket' = "none" /\ pending' = FALSE /\ reconnect' = FALSE /\ periodic' = FALSE
  /\ stale' = (stale \/ socket # "none")
  /\ queue' = <<>> /\ remote' = NoFilters

(* The budget grants the awaited token.                                    *)
CreateSocket ==
  /\ pending
  /\ pending' = FALSE
  /\ socket' = "connecting"
  /\ UNCHANGED <<service, rows, transport, reconnect, periodic, queue, remote, stale, faults>>

ReconnectTimer ==
  /\ reconnect
  /\ reconnect' = FALSE
  /\ EnsureSocket
  /\ UNCHANGED <<service, rows, transport, queue, remote, faults>>

(* forceReconnect asks an open socket to close; a closing one already is.  *)
PeriodicTimer ==
  /\ periodic
  /\ socket = "open"
  /\ socket' = "closing"
  /\ remote' = NoFilters
  /\ UNCHANGED <<service, rows, transport, pending, reconnect, periodic, queue, stale, faults>>

(* The handshake fails, or the connection breaks.                          *)
ConnectionDrops ==
  /\ socket \in {"connecting", "open"}
  /\ faults < MaxFaults
  /\ faults' = faults + 1
  /\ socket' = "closing"
  /\ remote' = NoFilters
  /\ UNCHANGED <<service, rows, transport, pending, reconnect, periodic, queue, stale>>

-----------------------------------------------------------------------------
(* The transport                                                           *)

InUse(id) ==
  \/ wires[id] # {}
  \/ remote[id] # {}
  \/ \E i \in DOMAIN queue : queue[i].id = id

Free == { id \in SubIds : ~InUse(id) }

(* Fault: the other quotes keep the subscriptions of the replaced socket.  *)
SubscribeKeeping(q) ==
  \E id \in Free :
    /\ Send([method |-> "subscribe", id |-> id, filters |-> {q}])
    /\ sub' = [sub EXCEPT ![q] = id]
    /\ wires' = [wires EXCEPT ![id] = {q}]
    /\ IF socket = "open"
         THEN UNCHANGED <<queued, isOpen>>
         ELSE queued' = {id} /\ isOpen' = FALSE

(* sendSubscribe for one quote of an open transport.  When the socket has  *)
(* been closing, the request waits for its replacement, and                *)
(* retainQueuedSubscription has the other quotes resubscribed then.        *)
Subscribe(q) ==
  \E id \in Free :
    /\ Send([method |-> "subscribe", id |-> id, filters |-> {q}])
    /\ IF socket = "open"
         THEN /\ sub' = [sub EXCEPT ![q] = id]
              /\ wires' = [wires EXCEPT ![id] = {q}]
              /\ UNCHANGED <<queued, isOpen>>
         ELSE /\ sub' = [Unsubscribed EXCEPT ![q] = id]
              /\ wires' = [NoFilters EXCEPT ![id] = {q}]
              /\ queued' = {id}
              /\ isOpen' = FALSE

(* watch: the first quote of a mint connects to it; later ones are         *)
(* subscribed at once or when the connection opens.                        *)
Watch(q) ==
  /\ watch' = watch \cup {q}
  /\ \/ /\ watch = {}
        /\ EnsureSocket
        /\ UNCHANGED <<sub, wires, queued, isOpen, queue, remote>>
     \/ /\ watch # {} /\ ~isOpen
        /\ UNCHANGED <<sub, wires, queued, isOpen, socket, pending, periodic, stale, queue, remote>>
     \/ /\ watch # {} /\ isOpen
        /\ Subscribe(q)
  /\ UNCHANGED reconnect

(* Fault: the subscription keeps routing the quote.                        *)
UnwatchStillRouted(q) ==
  /\ watch' = watch \ {q}
  /\ sub' = [sub EXCEPT ![q] = NoSub]
  /\ IF watch = {q}
       THEN isOpen' = FALSE /\ wires' = NoFilters /\ queued' = {} /\ CloseMint
       ELSE UNCHANGED <<wires, queued, isOpen, reconnect, socket, pending, periodic, stale, queue,
                        remote>>

(* The unsubscribe function that watch returned.  A subscription that has  *)
(* lost its last quote is taken back, if it is on the wire or about to be; *)
(* with its last quote the mint itself is closed.                          *)
Unwatch(q) ==
  LET id == sub[q] IN
  /\ watch' = watch \ {q}
  /\ sub' = [sub EXCEPT ![q] = NoSub]
  /\ wires' = IF id = NoSub THEN wires ELSE [wires EXCEPT ![id] = @ \ {q}]
  /\ queued' = { x \in queued : wires'[x] # {} }
  /\ IF watch = {q}
       THEN isOpen' = FALSE /\ CloseMint
       ELSE /\ UNCHANGED <<isOpen, reconnect>>
            /\ IF id # NoSub /\ wires'[id] = {} /\ (id \in queued \/ (isOpen /\ socket = "open"))
                 THEN Send([method |-> "unsubscribe", id |-> id, filters |-> {}])
                 ELSE UNCHANGED <<socket, pending, periodic, stale, queue, remote>>

(* The quotes the open handler subscribes.                                 *)
Pending == { q \in watch : sub[q] = NoSub }

(* sendSubscribeBatches: full batches, and one of the rest.                *)
Batches(qs) ==
  { batch \in [qs -> Free] :
      /\ \A id \in Free : Cardinality({ q \in qs : batch[q] = id }) <= BatchSize
      /\ Cardinality({ batch[q] : q \in qs }) = (Cardinality(qs) + BatchSize - 1) \div BatchSize }

(* Once the queue is sent, its last message about a subscription decides.  *)
LastAbout(id) ==
  { i \in DOMAIN queue :
      queue[i].id = id /\ \A j \in DOMAIN queue : queue[j].id = id => j <= i }

Flushed(id) ==
  IF LastAbout(id) = {}
    THEN remote[id]
    ELSE { q \in Quotes : \E i \in LastAbout(id) : q \in queue[i].filters }

(* Fault: the flushed queue is kept.                                       *)
OnOpenKeepsQueue ==
  /\ socket = "connecting"
  /\ socket' = "open"
  /\ reconnect' = FALSE
  /\ periodic' = TRUE
  /\ isOpen' = TRUE
  /\ queued' = {}
  /\ \E batch \in Batches(Pending) :
       LET filters(id) == { q \in Pending : batch[q] = id } IN
       /\ sub' = [q \in Quotes |-> IF q \in Pending THEN batch[q] ELSE sub[q]]
       /\ wires' = [id \in SubIds |-> wires[id] \cup filters(id)]
       /\ remote' = [id \in SubIds |-> Flushed(id) \cup filters(id)]
  /\ UNCHANGED <<service, rows, watch, pending, queue, stale, faults>>

(* The socket opens: the manager flushes its queue and the transport       *)
(* subscribes what has no subscription yet.                                *)
OnOpen ==
  /\ socket = "connecting"
  /\ socket' = "open"
  /\ reconnect' = FALSE
  /\ periodic' = TRUE
  /\ queue' = <<>>
  /\ isOpen' = TRUE
  /\ queued' = {}
  /\ \E batch \in Batches(Pending) :
       LET filters(id) == { q \in Pending : batch[q] = id } IN
       /\ sub' = [q \in Quotes |-> IF q \in Pending THEN batch[q] ELSE sub[q]]
       /\ wires' = [id \in SubIds |-> wires[id] \cup filters(id)]
       /\ remote' = [id \in SubIds |-> Flushed(id) \cup filters(id)]
  /\ UNCHANGED <<service, rows, watch, pending, stale, faults>>

(* Fault: the close handler forgets to clear the subscriptions.            *)
OnCloseKeeping ==
  /\ socket = "closing"
  /\ socket' = "none"
  /\ periodic' = FALSE
  /\ queue' = <<>>
  /\ reconnect' = TRUE
  /\ isOpen' = FALSE
  /\ UNCHANGED <<service, rows, watch, sub, wires, queued, pending, remote, stale, faults>>

(* Fault: nobody reconnects.                                               *)
OnCloseForGood ==
  /\ socket = "closing"
  /\ socket' = "none"
  /\ periodic' = FALSE
  /\ queue' = <<>>
  /\ isOpen' = FALSE
  /\ sub' = Unsubscribed /\ wires' = NoFilters /\ queued' = {}
  /\ UNCHANGED <<service, rows, watch, pending, reconnect, remote, stale, faults>>

(* The close event: unsent messages and all subscriptions are forgotten, a *)
(* reconnect is scheduled.                                                 *)
OnClose ==
  /\ socket = "closing"
  /\ socket' = "none"
  /\ periodic' = FALSE
  /\ queue' = <<>>
  /\ reconnect' = TRUE
  /\ isOpen' = FALSE
  /\ sub' = Unsubscribed /\ wires' = NoFilters /\ queued' = {}
  /\ UNCHANGED <<service, rows, watch, pending, remote, stale, faults>>

(* Whatever a replaced socket still reports is ignored.                    *)
OnStaleEvent ==
  /\ stale
  /\ stale' = FALSE
  /\ UNCHANGED <<service, rows, transport, socket, pending, reconnect, periodic, queue, remote,
                 faults>>

-----------------------------------------------------------------------------
(* The service, and the quotes around it                                   *)

(* start() restores the active quotes, before anything else runs.          *)
Start ==
  /\ service = "new"
  /\ service' = "started"
  /\ LET active == { q \in Quotes : row[q] = "UNPAID" /\ q \notin expired } IN
     /\ watch' = active
     /\ IF active = {} THEN UNCHANGED <<socket, pending, periodic, stale>> ELSE EnsureSocket
  /\ UNCHANGED <<rows, sub, wires, queued, isOpen, reconnect, queue, remote, faults>>

(* stop() drops every watch and closes the transport.                      *)
Stop ==
  /\ service = "started"
  /\ service' = "stopped"
  /\ watch' = {} /\ sub' = Unsubscribed /\ wires' = NoFilters /\ queued' = {} /\ isOpen' = FALSE
  /\ CloseMint
  /\ UNCHANGED <<rows, faults>>

(* The LNURL controller inserts a quote, and later hears of it.            *)
InsertQuote(q) ==
  /\ service # "new"
  /\ row[q] = "absent"
  /\ row' = [row EXCEPT ![q] = "UNPAID"]
  /\ creating' = creating \cup {q}
  /\ UNCHANGED <<service, expired, closing, unpublished, transport, manager, faults>>

(* mintQuote.created: the quote as inserted, UNPAID, is watched unless it  *)
(* has expired.                                                            *)
EmitCreated(q) ==
  /\ q \in creating
  /\ creating' = creating \ {q}
  /\ IF service = "started" /\ q \notin expired /\ q \notin watch
       THEN Watch(q)
       ELSE UNCHANGED <<transport, manager>>
  /\ UNCHANGED <<service, row, expired, closing, unpublished, faults>>

(* A quote leaves UNPAID.  One that is EXPIRED or PAID may change once     *)
(* more, which matters only to a watch that was left behind.               *)
Close(q) ==
  /\ row[q] = "UNPAID" \/ (row[q] = "closed" /\ q \in watch \ closing)
  /\ row' = [row EXCEPT ![q] = "closed"]
  /\ closing' = closing \cup {q}
  /\ UNCHANGED <<service, expired, creating, unpublished, transport, manager, faults>>

(* A polling observation settles the quote or expires it.                  *)
PollCloses(q) == service = "started" /\ Close(q)

(* A notification that the transport can route settles the quote; any      *)
(* other is ignored.                                                       *)
Notify(q) ==
  /\ service = "started"
  /\ socket = "open"
  /\ \E id \in SubIds : q \in remote[id] /\ q \in wires[id] /\ sub[q] = id
  /\ Close(q)

(* Fault: a watch whose subscription is still to be sent is kept.          *)
EmitStateChangedSubscribed(q) ==
  /\ q \in closing
  /\ closing' = closing \ {q}
  /\ IF service = "started" /\ q \in watch /\ sub[q] # NoSub
       THEN Unwatch(q)
       ELSE UNCHANGED <<transport, manager>>
  /\ UNCHANGED <<service, row, expired, creating, unpublished, faults>>

(* mintQuote.stateChanged: a quote that is settled or expired is dropped.  *)
EmitStateChanged(q) ==
  /\ q \in closing
  /\ closing' = closing \ {q}
  /\ IF service = "started" /\ q \in watch THEN Unwatch(q) ELSE UNCHANGED <<transport, manager>>
  /\ UNCHANGED <<service, row, expired, creating, unpublished, faults>>

(* The event is never emitted: the UPDATE was committed, but its reply was *)
(* lost and handle() ended at its await.  For an INSERT this is as if the  *)
(* quote stayed in "creating".                                             *)
LosePublication(q) ==
  /\ q \in closing
  /\ faults < MaxFaults
  /\ faults' = faults + 1
  /\ closing' = closing \ {q}
  /\ unpublished' = unpublished \cup {q}
  /\ UNCHANGED <<service, row, expired, creating, transport, manager>>

(* The local expiry passes.  Once the service is started, only the handler *)
(* of mintQuote.created looks at it.                                       *)
Expire(q) ==
  /\ q \in creating
  /\ expired' = expired \cup {q}
  /\ UNCHANGED <<service, row, creating, closing, unpublished, transport, manager, faults>>

-----------------------------------------------------------------------------
Connect == CreateSocket \/ ReconnectTimer \/ OnOpen \/ OnClose

Next ==
  \/ Connect \/ PeriodicTimer \/ ConnectionDrops \/ OnStaleEvent
  \/ Start \/ Stop
  \/ \E q \in Quotes :
       \/ InsertQuote(q) \/ EmitCreated(q)
       \/ PollCloses(q) \/ Notify(q) \/ EmitStateChanged(q) \/ LosePublication(q)
       \/ Expire(q)

Spec == Init /\ [][Next]_vars

(* Tokens are granted (RequestRateLimiter), timers fire, a socket opens    *)
(* unless it fails and its close event follows its closing, and the event  *)
(* loop runs.                                                              *)
Fairness ==
  /\ WF_vars(CreateSocket) /\ WF_vars(ReconnectTimer) /\ WF_vars(OnOpen) /\ WF_vars(OnClose)
  /\ WF_vars(Start)

FairSpec == Spec /\ Fairness

-----------------------------------------------------------------------------
(* The routing tables agree, and no subscription is left that routes to    *)
(* nobody.                                                                 *)
RoutingAgrees ==
  /\ \A id \in SubIds : wires[id] = { q \in watch : sub[q] = id }
  /\ \A q \in Quotes \ watch : sub[q] = NoSub
  /\ \A id \in queued : wires[id] # {}

(* A state has its type, and the tables of the transport agree in it.      *)
RoutingInv == TypeOK /\ RoutingAgrees

(* On an open connection every watched quote has one subscription at the   *)
(* mint, the one its notifications are routed by, however the socket was   *)
(* replaced meanwhile; and the mint keeps none that was emptied.           *)
WatchesAreOnTheWire ==
  socket = "open" =>
    /\ \A q \in watch : { id \in SubIds : q \in remote[id] } = { sub[q] }
    /\ \A id \in SubIds : remote[id] # {} => wires[id] # {}

(* A mint with a watched quote has a connection or one under way, and a    *)
(* mint without has neither, nor a timer that would bring one back.        *)
ConnectedWhileWatched ==
  /\ watch # {} => socket # "none" \/ pending \/ reconnect
  /\ watch = {} => socket = "none" /\ ~pending /\ ~reconnect /\ ~periodic /\ queue = <<>>

(* A watch that no event under way will end: the quote is closed, and its  *)
(* mintQuote.stateChanged was emitted or lost.                             *)
Lingering == { q \in watch : row[q] = "closed" /\ q \notin closing }

(* "Once a quote is terminal ... neither transport continues monitoring    *)
(* it" (map:203): a watch outlives its quote only if its                   *)
(* mintQuote.stateChanged was lost, or was emitted before                  *)
(* mintQuote.created was; no other order of the events, of the connection  *)
(* and of the restored quotes leaves one behind.                           *)
LingeringHasACause ==
  [][\A q \in Lingering' \ Lingering :
       q \in unpublished' \/ (q \in creating \ closing /\ row[q] = "closed")]_vars

(* A mint that stays unreachable does not pile up messages.                *)
QueueIsBounded == Len(queue) <= 2

(* Every watched quote comes to be subscribed, whatever failed before, or  *)
(* its watch ends.                                                         *)
WatchIsSubscribed ==
  \A q \in Quotes :
    q \in watch ~> \/ q \notin watch
                   \/ socket = "open" /\ \E id \in SubIds : q \in remote[id]
=============================================================================
