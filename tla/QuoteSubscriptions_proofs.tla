--------------------- MODULE QuoteSubscriptions_proofs ---------------------
(***************************************************************************)
(* Proofs about QuoteSubscriptions, for any number of quotes and           *)
(* subscription ids, any batch size and any number of failures.            *)
(***************************************************************************)
EXTENDS QuoteSubscriptions, TLAPS

-----------------------------------------------------------------------------
(* The parts of the type invariant that different actions disturb.         *)
RowTypes ==
  /\ service \in {"new", "started", "stopped"}
  /\ row \in [Quotes -> {"absent", "UNPAID", "closed"}]
  /\ expired \subseteq Quotes
  /\ creating \subseteq Quotes
  /\ closing \subseteq Quotes
  /\ unpublished \subseteq Quotes
  /\ faults \in 0..MaxFaults

TransportTypes ==
  /\ watch \subseteq Quotes
  /\ sub \in [Quotes -> SubIds \cup {NoSub}]
  /\ wires \in [SubIds -> SUBSET Quotes]
  /\ queued \subseteq SubIds
  /\ isOpen \in BOOLEAN

ManagerTypes ==
  /\ socket \in Socket
  /\ pending \in BOOLEAN
  /\ reconnect \in BOOLEAN
  /\ periodic \in BOOLEAN
  /\ queue \in Seq(Message)
  /\ remote \in [SubIds -> SUBSET Quotes]
  /\ stale \in BOOLEAN

(* These parts make up the type invariant.                                 *)
LEMMA TypeParts == TypeOK <=> RowTypes /\ TransportTypes /\ ManagerTypes
  BY DEF TypeOK, RowTypes, TransportTypes, ManagerTypes

(* Messages wait only for the socket that is to replace one that was       *)
(* closing under an open transport: the request of one subscription, and   *)
(* its withdrawal once that subscription has lost its quote.               *)
QueueInv ==
  /\ isOpen \/ socket = "open" => queue = <<>> /\ queued = {}
  /\ queued = {} \/ (Len(queue) = 1 /\ \E id \in SubIds : queued = {id})
  /\ Len(queue) <= 2

SubsInv ==
  /\ RowTypes /\ TransportTypes /\ ManagerTypes
  /\ RoutingAgrees
  /\ ConnectedWhileWatched
  /\ QueueInv

(* A socket that is needed is there or under way.                          *)
LEMMA EnsureSocketConnects ==
  ASSUME ManagerTypes, EnsureSocket
  PROVE  /\ socket' \in Socket
         /\ pending' \in BOOLEAN /\ periodic' \in BOOLEAN /\ stale' \in BOOLEAN
         /\ socket' # "none" \/ pending'
         /\ socket' = "open" => socket = "open"
  BY DEF EnsureSocket, ManagerTypes, Socket

(* A closed mint has nothing left.                                         *)
LEMMA CloseMintTypes ==
  ASSUME ManagerTypes, CloseMint
  PROVE  /\ ManagerTypes'
         /\ socket' = "none" /\ ~pending' /\ ~reconnect' /\ ~periodic' /\ queue' = <<>>
<1>1. pending' \in BOOLEAN /\ reconnect' \in BOOLEAN /\ periodic' \in BOOLEAN /\ stale' \in BOOLEAN
  BY DEF CloseMint
<1>2. socket' \in Socket
  BY DEF CloseMint, Socket
<1>3. queue' \in Seq(Message) /\ queue' = <<>>
  BY DEF CloseMint
<1>4. remote' \in [SubIds -> SUBSET Quotes]
  BY DEF CloseMint, NoFilters
<1>5. socket' = "none" /\ ~pending' /\ ~reconnect' /\ ~periodic'
  BY DEF CloseMint
<1>6. QED BY <1>1, <1>2, <1>3, <1>4, <1>5 DEF ManagerTypes

(* A message goes out or waits.                                            *)
LEMMA SendTypes ==
  ASSUME ManagerTypes, NEW message \in Message, Send(message), UNCHANGED reconnect
  PROVE  /\ ManagerTypes'
         /\ socket' # "none" \/ pending'
         /\ socket = "open" => queue' = queue
         /\ socket # "open" => socket' # "open" /\ Len(queue') = Len(queue) + 1
<1>1. /\ socket' \in Socket /\ pending' \in BOOLEAN /\ periodic' \in BOOLEAN /\ stale' \in BOOLEAN
      /\ socket' # "none" \/ pending'
      /\ socket' = "open" => socket = "open"
  BY EnsureSocketConnects DEF Send
<1>2. CASE socket = "open"
  <2>1. remote' = Received(remote, message) /\ queue' = queue
    BY <1>2 DEF Send
  <2>2. remote' \in [SubIds -> SUBSET Quotes]
    BY <2>1 DEF Received, Message, ManagerTypes
  <2>3. QED BY <1>1, <1>2, <2>1, <2>2 DEF ManagerTypes
<1>3. CASE socket # "open"
  <2>1. queue' = Append(queue, message) /\ remote' = remote
    BY <1>3 DEF Send
  <2>2. queue' \in Seq(Message) /\ Len(queue') = Len(queue) + 1
    BY <2>1 DEF ManagerTypes
  <2>3. QED BY <1>1, <1>3, <2>1, <2>2 DEF ManagerTypes
<1>4. QED BY <1>2, <1>3

-----------------------------------------------------------------------------
(* The actions of the transport. *)

(* A new quote is watched: the first, a later one, one on an open transport.*)
LEMMA WatchKeeps ==
  ASSUME SubsInv, NEW q \in Quotes, q \notin watch, Watch(q),
         UNCHANGED <<service, row, expired, closing, unpublished, faults>>, creating' = creating \ {q}
  PROVE  SubsInv'
<1>1. RowTypes'
  BY DEF SubsInv, RowTypes
<1>2. CASE watch = {} /\ EnsureSocket /\ UNCHANGED <<sub, wires, queued, isOpen, queue, remote>>
  <2>1. ManagerTypes' /\ ConnectedWhileWatched'
    BY <1>2, EnsureSocketConnects DEF Watch, SubsInv, ManagerTypes, ConnectedWhileWatched
  <2>2. TransportTypes' /\ RoutingAgrees'
    BY <1>2, SubscriptionsAssumption DEF Watch, SubsInv, TransportTypes, RoutingAgrees
  <2>3. QueueInv'
    BY <1>2, EnsureSocketConnects DEF SubsInv, QueueInv
  <2>4. QED BY <1>1, <2>1, <2>2, <2>3 DEF SubsInv
<1>3. CASE /\ watch # {} /\ ~isOpen
           /\ UNCHANGED <<sub, wires, queued, isOpen, socket, pending, periodic, stale, queue, remote>>
  <2>1. ManagerTypes' /\ ConnectedWhileWatched' /\ QueueInv'
    BY <1>3 DEF Watch, SubsInv, ManagerTypes, ConnectedWhileWatched, QueueInv
  <2>2. TransportTypes' /\ RoutingAgrees'
    BY <1>3, SubscriptionsAssumption DEF Watch, SubsInv, TransportTypes, RoutingAgrees
  <2>3. QED BY <1>1, <2>1, <2>2 DEF SubsInv
<1>4. CASE watch # {} /\ isOpen /\ Subscribe(q)
  <2> DEFINE message(id) == [method |-> "subscribe", id |-> id, filters |-> {q}]
  <2>1. PICK id \in Free :
          /\ Send(message(id))
          /\ IF socket = "open"
               THEN /\ sub' = [sub EXCEPT ![q] = id]
                    /\ wires' = [wires EXCEPT ![id] = {q}]
                    /\ UNCHANGED <<queued, isOpen>>
               ELSE /\ sub' = [Unsubscribed EXCEPT ![q] = id]
                    /\ wires' = [NoFilters EXCEPT ![id] = {q}]
                    /\ queued' = {id}
                    /\ isOpen' = FALSE
    BY <1>4 DEF Subscribe
  <2>2. id \in SubIds /\ wires[id] = {}
    BY DEF Free, InUse
  <2>3. message(id) \in Message
    BY <2>2 DEF Message
  <2>4. watch' = watch \cup {q} /\ UNCHANGED reconnect
    BY DEF Watch
  <2>5. /\ ManagerTypes'
        /\ socket' # "none" \/ pending'
        /\ socket = "open" => queue' = queue
        /\ socket # "open" => socket' # "open" /\ Len(queue') = Len(queue) + 1
    BY <2>1, <2>3, <2>4, SendTypes DEF SubsInv
  <2>6. queue = <<>> /\ queued = {}
    BY <1>4 DEF SubsInv, QueueInv
  <2>7. ConnectedWhileWatched'
    BY <2>4, <2>5 DEF ConnectedWhileWatched
  <2>8. TransportTypes'
    <3>1. watch' \subseteq Quotes
      BY <2>4 DEF SubsInv, TransportTypes
    <3>2. sub' \in [Quotes -> SubIds \cup {NoSub}] /\ wires' \in [SubIds -> SUBSET Quotes]
      BY <2>1, <2>2 DEF SubsInv, TransportTypes, Unsubscribed, NoFilters
    <3>3. queued' \subseteq SubIds
      BY <2>1, <2>2 DEF SubsInv, TransportTypes
    <3>4. isOpen' \in BOOLEAN
      BY <2>1, Zenon DEF SubsInv, TransportTypes
    <3>5. QED BY <3>1, <3>2, <3>3, <3>4 DEF TransportTypes
  <2>9. RoutingAgrees'
    <3>1. CASE socket = "open"
      BY <2>1, <2>2, <2>4, <2>6, <3>1, SubscriptionsAssumption
         DEF SubsInv, TransportTypes, RoutingAgrees
    <3>2. CASE socket # "open"
      BY <2>1, <2>2, <2>4, <3>2, SubscriptionsAssumption
         DEF SubsInv, TransportTypes, RoutingAgrees, Unsubscribed, NoFilters
    <3>3. QED BY <3>1, <3>2
  <2>10. QueueInv'
    <3>1. CASE socket = "open"
      BY <2>1, <2>5, <2>6, <3>1 DEF QueueInv
    <3>2. CASE socket # "open"
      <4>1. queued' = {id} /\ ~isOpen' /\ socket' # "open"
        BY <2>1, <2>5, <3>2
      <4>2. Len(queue) = 0
        BY <2>6
      <4>3. Len(queue') = 1
        BY <2>5, <3>2, <4>2
      <4>4. QED BY <2>2, <4>1, <4>3 DEF QueueInv
    <3>3. QED BY <3>1, <3>2
  <2>11. QED BY <1>1, <2>5, <2>7, <2>8, <2>9, <2>10 DEF SubsInv
<1>5. QED BY <1>2, <1>3, <1>4 DEF Watch

(* A quote is dropped, with its subscription or with its mint.             *)
LEMMA UnwatchKeeps ==
  ASSUME SubsInv, NEW q \in Quotes, q \in watch, Unwatch(q),
         UNCHANGED <<service, row, expired, creating, unpublished, faults>>, closing' = closing \ {q}
  PROVE  SubsInv'
<1> DEFINE id == sub[q]
<1> DEFINE message == [method |-> "unsubscribe", id |-> id, filters |-> {}]
<1>1. RowTypes'
  BY DEF SubsInv, RowTypes
<1>2. /\ watch' = watch \ {q}
      /\ sub' = [sub EXCEPT ![q] = NoSub]
      /\ wires' = IF id = NoSub THEN wires ELSE [wires EXCEPT ![id] = @ \ {q}]
      /\ queued' = { x \in queued : wires'[x] # {} }
  BY DEF Unwatch
<1>3. watch' \subseteq Quotes /\ queued' \subseteq SubIds /\ sub' \in [Quotes -> SubIds \cup {NoSub}]
  BY <1>2 DEF SubsInv, TransportTypes
<1>4. wires' \in [SubIds -> SUBSET Quotes]
  BY <1>2 DEF SubsInv, TransportTypes
<1>5. RoutingAgrees'
  BY <1>2, SubscriptionsAssumption DEF SubsInv, TransportTypes, RoutingAgrees
<1>6. CASE watch = {q}
  <2>1. isOpen' = FALSE /\ CloseMint
    BY <1>6 DEF Unwatch
  <2>2. /\ ManagerTypes'
        /\ socket' = "none" /\ ~pending' /\ ~reconnect' /\ ~periodic' /\ queue' = <<>>
    BY <2>1, CloseMintTypes DEF SubsInv
  <2>3. watch' = {}
    BY <1>2, <1>6
  <2>4. ConnectedWhileWatched'
    BY <2>2, <2>3 DEF ConnectedWhileWatched
  <2>5. queued' = {}
    BY <1>3, <1>5, <2>3 DEF RoutingAgrees
  <2>6. QueueInv'
    BY <2>1, <2>2, <2>5 DEF QueueInv
  <2>7. TransportTypes'
    BY <1>3, <1>4, <2>1 DEF TransportTypes
  <2>8. QED BY <1>1, <1>5, <2>2, <2>4, <2>6, <2>7 DEF SubsInv
<1>7. CASE watch # {q}
  <2>1. UNCHANGED <<isOpen, reconnect>>
    BY <1>7 DEF Unwatch
  <2>2. TransportTypes'
    BY <1>3, <1>4, <2>1 DEF SubsInv, TransportTypes
  <2>3. watch' # {} /\ watch # {}
    BY <1>2, <1>7
  <2>4. queued' = queued \/ (queued' = {})
    BY <1>2 DEF SubsInv, QueueInv
  <2>5. CASE id # NoSub /\ wires'[id] = {} /\ (id \in queued \/ (isOpen /\ socket = "open"))
    <3>1. Send(message)
      BY <1>7, <2>5 DEF Unwatch
    <3>2. message \in Message
      BY <2>5 DEF Message, SubsInv, TransportTypes
    <3>3. /\ ManagerTypes'
          /\ socket' # "none" \/ pending'
          /\ socket = "open" => queue' = queue
          /\ socket # "open" => socket' # "open" /\ Len(queue') = Len(queue) + 1
      BY <2>1, <3>1, <3>2, SendTypes DEF SubsInv
    <3>4. ConnectedWhileWatched'
      BY <2>3, <3>3 DEF ConnectedWhileWatched
    <3>5. QueueInv'
      <4>1. CASE socket = "open"
        BY <1>2, <3>3, <4>1 DEF SubsInv, QueueInv
      <4>2. CASE socket # "open"
        <5>1. id \in queued /\ queued = {id} /\ Len(queue) = 1
          BY <2>5, <4>2 DEF SubsInv, QueueInv
        <5>2. queued' = {}
          BY <1>2, <2>5, <5>1
        <5>3. ~isOpen
          BY <5>1 DEF SubsInv, QueueInv
        <5>4. ~isOpen' /\ socket' # "open"
          BY <2>1, <3>3, <4>2, <5>3
        <5>5. Len(queue') = 2
          BY <3>3, <4>2, <5>1
        <5>6. QED BY <5>2, <5>4, <5>5 DEF QueueInv
      <4>3. QED BY <4>1, <4>2
    <3>6. QED BY <1>1, <1>5, <2>2, <3>3, <3>4, <3>5 DEF SubsInv
  <2>6. CASE UNCHANGED <<socket, pending, periodic, stale, queue, remote>>
    <3>1. ManagerTypes' /\ ConnectedWhileWatched'
      BY <2>1, <2>3, <2>6 DEF SubsInv, ManagerTypes, ConnectedWhileWatched
    <3>2. QueueInv'
      BY <2>1, <2>4, <2>6 DEF SubsInv, QueueInv
    <3>3. QED BY <1>1, <1>5, <2>2, <3>1, <3>2 DEF SubsInv
  <2>7. QED BY <1>7, <2>5, <2>6 DEF Unwatch
<1>8. QED BY <1>6, <1>7

(* The quotes without a subscription get one when the socket opens.        *)
LEMMA OpenKeeps ==
  ASSUME SubsInv, OnOpen
  PROVE  SubsInv'
<1> DEFINE of(batch, id) == { q \in Pending : batch[q] = id }
<1>1. PICK batch \in Batches(Pending) :
        /\ sub' = [q \in Quotes |-> IF q \in Pending THEN batch[q] ELSE sub[q]]
        /\ wires' = [id \in SubIds |-> wires[id] \cup of(batch, id)]
        /\ remote' = [id \in SubIds |-> Flushed(id) \cup of(batch, id)]
  BY DEF OnOpen
<1>2. batch \in [Pending -> SubIds]
  BY DEF Batches, Free
<1>3. Pending \subseteq watch /\ \A q \in Pending : sub[q] = NoSub
  BY DEF Pending
<1>4. watch \subseteq Quotes
  BY DEF SubsInv, TransportTypes
<1>5. \A id \in SubIds : Flushed(id) \subseteq Quotes
  BY DEF Flushed, SubsInv, ManagerTypes
<1>6. /\ socket = "connecting" /\ socket' = "open" /\ reconnect' = FALSE /\ periodic' = TRUE
      /\ queue' = <<>> /\ isOpen' = TRUE /\ queued' = {}
      /\ UNCHANGED <<service, rows, watch, pending, stale, faults>>
  BY DEF OnOpen
<1>7. RowTypes'
  BY <1>6 DEF SubsInv, RowTypes, rows
<1>8. remote' \in [SubIds -> SUBSET Quotes]
  BY <1>1, <1>3, <1>4, <1>5
<1>9. ManagerTypes'
  <2>1. socket' \in Socket /\ queue' \in Seq(Message)
    BY <1>6 DEF Socket
  <2>2. reconnect' \in BOOLEAN /\ periodic' \in BOOLEAN
    BY <1>6
  <2>3. pending' \in BOOLEAN /\ stale' \in BOOLEAN
    BY <1>6, Zenon DEF SubsInv, ManagerTypes
  <2>4. QED BY <1>8, <2>1, <2>2, <2>3 DEF ManagerTypes
<1>10. sub' \in [Quotes -> SubIds \cup {NoSub}]
  BY <1>1, <1>2 DEF SubsInv, TransportTypes
<1>11. wires' \in [SubIds -> SUBSET Quotes]
  BY <1>1, <1>3, <1>4 DEF SubsInv, TransportTypes
<1>12. TransportTypes'
  BY <1>4, <1>6, <1>10, <1>11 DEF TransportTypes
<1>13. RoutingAgrees'
  <2>1. ASSUME NEW id \in SubIds PROVE wires'[id] = { q \in watch : sub'[q] = id }
    BY <1>1, <1>2, <1>3, <1>4, SubscriptionsAssumption DEF SubsInv, RoutingAgrees
  <2>2. ASSUME NEW q \in Quotes \ watch PROVE sub'[q] = NoSub
    BY <1>1, <1>3 DEF SubsInv, RoutingAgrees
  <2>3. QED BY <1>6, <2>1, <2>2 DEF RoutingAgrees
<1>14. ConnectedWhileWatched'
  BY <1>6 DEF SubsInv, ConnectedWhileWatched
<1>15. QueueInv'
  BY <1>6 DEF QueueInv
<1>16. QED BY <1>7, <1>9, <1>12, <1>13, <1>14, <1>15 DEF SubsInv

-----------------------------------------------------------------------------
(* The connection. *)

(* The steps that leave the rows and the transport alone.                  *)
LEMMA ConnectionKeeps ==
  ASSUME SubsInv,
         CreateSocket \/ ReconnectTimer \/ PeriodicTimer \/ ConnectionDrops \/ OnStaleEvent
  PROVE  SubsInv'
<1>1. RowTypes'
  <2>1. CASE ConnectionDrops
    BY <2>1, SubscriptionsAssumption DEF ConnectionDrops, SubsInv, RowTypes, rows
  <2>2. CASE UNCHANGED <<service, rows, faults>>
    BY <2>2 DEF SubsInv, RowTypes, rows
  <2>3. QED BY <2>1, <2>2 DEF CreateSocket, ReconnectTimer, PeriodicTimer, OnStaleEvent
<1>2. UNCHANGED <<transport, queue>>
  BY DEF CreateSocket, ReconnectTimer, PeriodicTimer, ConnectionDrops, OnStaleEvent
<1>3. TransportTypes' /\ RoutingAgrees'
  BY <1>2 DEF SubsInv, TransportTypes, RoutingAgrees, transport
<1>4. ManagerTypes' /\ ConnectedWhileWatched' /\ (socket' = "open" => socket = "open")
  <2>1. CASE CreateSocket
    BY <2>1, <1>2 DEF CreateSocket, SubsInv, ManagerTypes, Socket, ConnectedWhileWatched, transport
  <2>2. CASE ReconnectTimer
    <3>1. EnsureSocket /\ reconnect /\ reconnect' = FALSE /\ UNCHANGED <<queue, remote>>
      BY <2>2 DEF ReconnectTimer
    <3>2. watch' = watch /\ watch # {}
      BY <1>2, <3>1 DEF SubsInv, ConnectedWhileWatched, transport
    <3>3. QED BY <3>1, <3>2, EnsureSocketConnects DEF SubsInv, ManagerTypes, ConnectedWhileWatched
  <2>3. CASE PeriodicTimer
    BY <2>3, <1>2
       DEF PeriodicTimer, SubsInv, ManagerTypes, Socket, NoFilters, ConnectedWhileWatched, transport
  <2>4. CASE ConnectionDrops
    BY <2>4, <1>2
       DEF ConnectionDrops, SubsInv, ManagerTypes, Socket, NoFilters, ConnectedWhileWatched, transport
  <2>5. CASE OnStaleEvent
    BY <2>5, <1>2 DEF OnStaleEvent, SubsInv, ManagerTypes, ConnectedWhileWatched, transport
  <2>6. QED BY <2>1, <2>2, <2>3, <2>4, <2>5
<1>5. QueueInv'
  BY <1>2, <1>4 DEF SubsInv, QueueInv, transport
<1>6. QED BY <1>1, <1>3, <1>4, <1>5 DEF SubsInv

(* The close event forgets all subscriptions.                              *)
LEMMA CloseKeeps ==
  ASSUME SubsInv, OnClose
  PROVE  SubsInv'
<1>1. /\ socket = "closing" /\ socket' = "none" /\ periodic' = FALSE /\ queue' = <<>>
      /\ reconnect' = TRUE /\ isOpen' = FALSE
      /\ sub' = Unsubscribed /\ wires' = NoFilters /\ queued' = {}
      /\ UNCHANGED <<service, rows, watch, pending, remote, stale, faults>>
  BY DEF OnClose
<1>2. RowTypes'
  BY <1>1 DEF SubsInv, RowTypes, rows
<1>3. TransportTypes'
  BY <1>1 DEF SubsInv, TransportTypes, Unsubscribed, NoFilters
<1>4. ManagerTypes'
  <2>1. socket' \in Socket /\ queue' \in Seq(Message)
    BY <1>1 DEF Socket
  <2>2. reconnect' \in BOOLEAN /\ periodic' \in BOOLEAN
    BY <1>1
  <2>3. pending' \in BOOLEAN /\ stale' \in BOOLEAN
    BY <1>1, Zenon DEF SubsInv, ManagerTypes
  <2>4. remote' \in [SubIds -> SUBSET Quotes]
    BY <1>1 DEF SubsInv, ManagerTypes
  <2>5. QED BY <2>1, <2>2, <2>3, <2>4 DEF ManagerTypes
<1>5. RoutingAgrees'
  BY <1>1, SubscriptionsAssumption DEF RoutingAgrees, Unsubscribed, NoFilters, SubsInv, TransportTypes
<1>6. ConnectedWhileWatched'
  BY <1>1 DEF SubsInv, ConnectedWhileWatched
<1>7. QueueInv'
  BY <1>1 DEF QueueInv
<1>8. QED BY <1>2, <1>3, <1>4, <1>5, <1>6, <1>7 DEF SubsInv

-----------------------------------------------------------------------------
(* The service. *)

(* Nothing is watched before start(), nor after stop().                    *)
StartInv == service # "started" => watch = {}

(* start() watches the active quotes.                                      *)
LEMMA StartKeeps ==
  ASSUME SubsInv, StartInv, Start
  PROVE  SubsInv'
<1> DEFINE active == { q \in Quotes : row[q] = "UNPAID" /\ q \notin expired }
<1>1. /\ watch = {} /\ watch' = active /\ service' = "started"
      /\ UNCHANGED <<rows, sub, wires, queued, isOpen, reconnect, queue, remote, faults>>
      /\ IF active = {} THEN UNCHANGED <<socket, pending, periodic, stale>> ELSE EnsureSocket
  BY DEF Start, StartInv
<1>2. RowTypes'
  BY <1>1 DEF SubsInv, RowTypes, rows
<1>3. TransportTypes' /\ RoutingAgrees'
  BY <1>1, SubscriptionsAssumption DEF SubsInv, TransportTypes, RoutingAgrees
<1>4. ManagerTypes' /\ ConnectedWhileWatched' /\ (socket' = "open" => socket = "open")
  <2>1. CASE active = {}
    BY <1>1, <2>1 DEF SubsInv, ManagerTypes, ConnectedWhileWatched
  <2>2. CASE active # {}
    BY <1>1, <2>2, EnsureSocketConnects DEF SubsInv, ManagerTypes, ConnectedWhileWatched
  <2>3. QED BY <2>1, <2>2
<1>5. QueueInv'
  BY <1>1, <1>4 DEF SubsInv, QueueInv
<1>6. QED BY <1>2, <1>3, <1>4, <1>5 DEF SubsInv

(* stop() leaves nothing.                                                  *)
LEMMA StopKeeps ==
  ASSUME SubsInv, Stop
  PROVE  SubsInv'
<1>1. /\ service' = "stopped" /\ watch' = {} /\ sub' = Unsubscribed /\ wires' = NoFilters
      /\ queued' = {} /\ isOpen' = FALSE /\ CloseMint /\ UNCHANGED <<rows, faults>>
  BY DEF Stop
<1>2. RowTypes'
  BY <1>1 DEF SubsInv, RowTypes, rows
<1>3. TransportTypes'
  BY <1>1 DEF TransportTypes, Unsubscribed, NoFilters
<1>4. /\ ManagerTypes'
      /\ socket' = "none" /\ ~pending' /\ ~reconnect' /\ ~periodic' /\ queue' = <<>>
  BY <1>1, CloseMintTypes DEF SubsInv
<1>5. RoutingAgrees'
  BY <1>1, SubscriptionsAssumption DEF RoutingAgrees, Unsubscribed, NoFilters
<1>6. ConnectedWhileWatched' /\ QueueInv'
  BY <1>1, <1>4 DEF ConnectedWhileWatched, QueueInv
<1>7. QED BY <1>2, <1>3, <1>4, <1>5, <1>6 DEF SubsInv

(* The steps that leave the transport and the connection alone.            *)
LEMMA RowsKeep ==
  ASSUME SubsInv, RowTypes', UNCHANGED <<transport, manager>>
  PROVE  SubsInv'
<1>1. TransportTypes' /\ RoutingAgrees'
  BY DEF SubsInv, TransportTypes, RoutingAgrees, transport
<1>2. ManagerTypes' /\ ConnectedWhileWatched' /\ QueueInv'
  BY DEF SubsInv, ManagerTypes, ConnectedWhileWatched, QueueInv, transport, manager, connection
<1>3. QED BY <1>1, <1>2 DEF SubsInv

(* What happens to one quote.                                              *)
LEMMA QuoteKeeps ==
  ASSUME SubsInv, NEW q \in Quotes,
         \/ InsertQuote(q) \/ EmitCreated(q)
         \/ PollCloses(q) \/ Notify(q) \/ EmitStateChanged(q) \/ LosePublication(q)
         \/ Expire(q)
  PROVE  SubsInv'
<1>1. CASE InsertQuote(q) \/ PollCloses(q) \/ Notify(q) \/ LosePublication(q) \/ Expire(q)
  <2>1. RowTypes'
    BY <1>1, SubscriptionsAssumption
       DEF InsertQuote, PollCloses, Notify, Close, LosePublication, Expire, SubsInv, RowTypes
  <2>2. UNCHANGED <<transport, manager>>
    BY <1>1 DEF InsertQuote, PollCloses, Notify, Close, LosePublication, Expire
  <2>3. QED BY <2>1, <2>2, RowsKeep
<1>2. CASE EmitCreated(q)
  <2>1. CASE Watch(q) /\ q \notin watch
    BY <1>2, <2>1, WatchKeeps DEF EmitCreated
  <2>2. CASE UNCHANGED <<transport, manager>>
    <3>1. RowTypes'
      BY <1>2 DEF EmitCreated, SubsInv, RowTypes
    <3>2. QED BY <2>2, <3>1, RowsKeep
  <2>3. QED BY <1>2, <2>1, <2>2 DEF EmitCreated
<1>3. CASE EmitStateChanged(q)
  <2>1. CASE Unwatch(q) /\ q \in watch
    BY <1>3, <2>1, UnwatchKeeps DEF EmitStateChanged
  <2>2. CASE UNCHANGED <<transport, manager>>
    <3>1. RowTypes'
      BY <1>3 DEF EmitStateChanged, SubsInv, RowTypes
    <3>2. QED BY <2>2, <3>1, RowsKeep
  <2>3. QED BY <1>3, <2>1, <2>2 DEF EmitStateChanged
<1>4. QED BY <1>1, <1>2, <1>3

(* Nothing is watched unless the service runs.                             *)
LEMMA StartInvKeeps ==
  ASSUME StartInv, [Next]_vars
  PROVE  StartInv'
<1> SUFFICES ASSUME service' # "started"
             PROVE  watch' = {}
  BY DEF StartInv
<1>1. CASE Stop
  BY <1>1 DEF Stop
<1>2. CASE ~Stop
  <2>1. service # "started"
    BY <1>2 DEF Next, Connect, CreateSocket, ReconnectTimer, OnOpen, OnClose, PeriodicTimer,
           ConnectionDrops, OnStaleEvent, Start, InsertQuote, EmitCreated, PollCloses,
           Notify, Close, EmitStateChanged, LosePublication, Expire, vars
  <2>2. watch = {}
    BY <2>1 DEF StartInv
  <2>3. QED
    BY <1>2, <2>1, <2>2
       DEF Next, Connect, CreateSocket, ReconnectTimer, OnOpen, OnClose, PeriodicTimer,
           ConnectionDrops, OnStaleEvent, Start, InsertQuote, EmitCreated, PollCloses,
           Notify, Close, EmitStateChanged, LosePublication, Expire, vars, transport
<1>3. QED BY <1>1, <1>2

-----------------------------------------------------------------------------
(* The strengthening holds throughout: messages wait only for the socket   *)
(* that replaces one which was closing under an open transport.            *)
THEOREM SubscriptionsInvariant == Spec => [](SubsInv /\ StartInv)
<1>1. Init => SubsInv /\ StartInv
  <2> SUFFICES ASSUME Init PROVE SubsInv /\ StartInv
    OBVIOUS
  <2>1. RowTypes
    BY SubscriptionsAssumption DEF Init, RowTypes
  <2>2. TransportTypes
    BY DEF Init, TransportTypes, Unsubscribed, NoFilters
  <2>3. ManagerTypes
    <3>1. socket \in Socket /\ queue \in Seq(Message)
      BY DEF Init, Socket
    <3>2. /\ pending \in BOOLEAN /\ reconnect \in BOOLEAN
          /\ periodic \in BOOLEAN /\ stale \in BOOLEAN
      BY DEF Init
    <3>3. remote \in [SubIds -> SUBSET Quotes]
      BY DEF Init, NoFilters
    <3>4. QED BY <3>1, <3>2, <3>3 DEF ManagerTypes
  <2>4. RoutingAgrees
    BY SubscriptionsAssumption DEF Init, RoutingAgrees, Unsubscribed, NoFilters
  <2>5. ConnectedWhileWatched /\ QueueInv /\ StartInv
    BY DEF Init, ConnectedWhileWatched, QueueInv, StartInv
  <2>6. QED BY <2>1, <2>2, <2>3, <2>4, <2>5 DEF SubsInv
<1>2. SubsInv /\ StartInv /\ [Next]_vars => (SubsInv /\ StartInv)'
  <2> SUFFICES ASSUME SubsInv, StartInv, [Next]_vars PROVE SubsInv' /\ StartInv'
    OBVIOUS
  <2>1. CASE UNCHANGED vars
    <3>1. RowTypes'
      BY <2>1 DEF vars, rows, SubsInv, RowTypes
    <3>2. QED BY <2>1, <3>1, RowsKeep, StartInvKeeps DEF vars
  <2>2. CASE Next
    <3>1. SubsInv'
      BY <2>2, ConnectionKeeps, OpenKeeps, CloseKeeps, StartKeeps, StopKeeps, QuoteKeeps
         DEF Next, Connect
    <3>2. QED BY <3>1, StartInvKeeps
  <2>3. QED BY <2>1, <2>2
<1>3. QED BY <1>1, <1>2, PTL DEF Spec

(* However often the socket fails, closes and is replaced, the tables that *)
(* route notifications agree, and no subscription routes to nobody.        *)
THEOREM RoutingIsConsistent == Spec => []RoutingInv
<1>1. SubsInv => RoutingInv
  BY TypeParts DEF SubsInv, RoutingInv
<1>2. QED BY <1>1, SubscriptionsInvariant, PTL

(* A mint is connected, or about to be, exactly while a quote of it is     *)
(* watched.                                                                *)
THEOREM WatchedMintsAreConnected == Spec => []ConnectedWhileWatched
<1>1. SubsInv => ConnectedWhileWatched
  BY DEF SubsInv
<1>2. QED BY <1>1, SubscriptionsInvariant, PTL

(* However many quotes come and go while a mint cannot be reached, at most *)
(* two messages wait for it.                                               *)
THEOREM QueueStaysShort == Spec => []QueueIsBounded
<1>1. SubsInv => QueueIsBounded
  BY DEF SubsInv, QueueInv, QueueIsBounded
<1>2. QED BY <1>1, SubscriptionsInvariant, PTL

-----------------------------------------------------------------------------
(* What is on the wire.                                                    *)

(* The transport lags behind the socket only while a close event is due,   *)
(* and the mint has nothing on a connection that is not open.              *)
ConnInv ==
  /\ socket = "open" => isOpen
  /\ isOpen => socket \in {"open", "closing"} /\ ~reconnect
  /\ pending => socket = "none"
  /\ socket # "open" => \A id \in SubIds : remote[id] = {}

(* What waits for the socket is what the tables route: nothing, one        *)
(* subscription, or one that was withdrawn.                                *)
NothingRouted == \A id \in SubIds : wires[id] = {}

OneRouted(id, q) ==
  /\ queue[1].id = id /\ queue[1].filters = {q} /\ queued = {id}
  /\ \A x \in SubIds : wires[x] = IF x = id THEN {q} ELSE {}

QueueShape ==
  ~isOpen =>
    /\ Len(queue) = 0 => NothingRouted
    /\ Len(queue) = 1 => \E id \in SubIds, q \in Quotes : OneRouted(id, q)
    /\ Len(queue) = 2 => /\ queue[2].id = queue[1].id /\ queue[2].filters = {}
                         /\ NothingRouted

OnWire ==
  socket = "open" =>
    /\ \A q \in watch : sub[q] \in SubIds /\ q \in remote[sub[q]]
    /\ \A q \in watch, id \in SubIds : q \in remote[id] => sub[q] = id
    /\ \A id \in SubIds : remote[id] # {} => wires[id] # {}

(* A quote is watched once: until then the mint has not heard of it.       *)
Fresh ==
  /\ \A q \in creating : row[q] # "absent"
  /\ \A q \in Quotes : row[q] = "absent" \/ q \in creating =>
       q \notin watch /\ \A id \in SubIds : q \notin remote[id]
  /\ service = "new" => creating = {}

WireInv == ConnInv /\ QueueShape /\ OnWire /\ Fresh

(* When the queue is flushed, the mint has what the tables route.          *)
LEMMA FlushedIsRouted ==
  ASSUME SubsInv, WireInv, socket = "connecting", NEW id \in SubIds
  PROVE  Flushed(id) = wires[id]
<1>1. ~isOpen /\ remote[id] = {}
  BY DEF WireInv, ConnInv
<1>2. queue \in Seq(Message) /\ Len(queue) \in {0, 1, 2} /\ DOMAIN queue = 1..Len(queue)
  <2>1. queue \in Seq(Message)
    BY DEF SubsInv, ManagerTypes
  <2>2. Len(queue) \in Nat /\ DOMAIN queue = 1..Len(queue)
    BY <2>1
  <2>3. Len(queue) <= 2
    BY DEF SubsInv, QueueInv
  <2>4. QED BY <2>1, <2>2, <2>3
<1>3. CASE Len(queue) = 0
  <2>1. LastAbout(id) = {}
    BY <1>2, <1>3 DEF LastAbout
  <2>2. wires[id] = {}
    BY <1>1, <1>3 DEF WireInv, QueueShape, NothingRouted
  <2>3. QED BY <1>1, <2>1, <2>2 DEF Flushed
<1>4. CASE Len(queue) = 1
  <2>1. PICK x \in SubIds, q \in Quotes : OneRouted(x, q)
    BY <1>1, <1>4 DEF WireInv, QueueShape
  <2>2. DOMAIN queue = {1}
    BY <1>2, <1>4
  <2>3. CASE id = x
    <3>1. LastAbout(id) = {1}
      BY <2>1, <2>2, <2>3 DEF LastAbout, OneRouted
    <3>2. Flushed(id) = {q}
      BY <2>1, <3>1 DEF Flushed, OneRouted
    <3>3. QED BY <2>1, <2>3, <3>2 DEF OneRouted
  <2>4. CASE id # x
    <3>1. LastAbout(id) = {}
      BY <2>1, <2>2, <2>4 DEF LastAbout, OneRouted
    <3>2. QED BY <1>1, <2>1, <2>4, <3>1 DEF Flushed, OneRouted
  <2>5. QED BY <2>3, <2>4
<1>5. CASE Len(queue) = 2
  <2>1. queue[2].id = queue[1].id /\ queue[2].filters = {} /\ wires[id] = {}
    BY <1>1, <1>5 DEF WireInv, QueueShape, NothingRouted
  <2>2. DOMAIN queue = {1, 2}
    BY <1>2, <1>5
  <2>3. CASE id = queue[1].id
    <3>1. LastAbout(id) = {2}
      BY <2>1, <2>2, <2>3 DEF LastAbout
    <3>2. QED BY <2>1, <3>1 DEF Flushed
  <2>4. CASE id # queue[1].id
    <3>1. LastAbout(id) = {}
      BY <2>1, <2>2, <2>4 DEF LastAbout
    <3>2. QED BY <1>1, <2>1, <3>1 DEF Flushed
  <2>5. QED BY <2>3, <2>4
<1>6. QED BY <1>2, <1>3, <1>4, <1>5

(* After the socket opened, the mint has exactly what the tables route.    *)
LEMMA OpenWires ==
  ASSUME SubsInv, SubsInv', WireInv, OnOpen
  PROVE  WireInv'
<1>1. PICK batch \in Batches(Pending) :
        /\ sub' = [q \in Quotes |-> IF q \in Pending THEN batch[q] ELSE sub[q]]
        /\ wires' = [id \in SubIds |-> wires[id] \cup { q \in Pending : batch[q] = id }]
        /\ remote' = [id \in SubIds |-> Flushed(id) \cup { q \in Pending : batch[q] = id }]
  BY DEF OnOpen
<1>2. /\ socket = "connecting" /\ socket' = "open" /\ reconnect' = FALSE
      /\ queue' = <<>> /\ isOpen' = TRUE
      /\ UNCHANGED <<service, rows, watch, pending>>
  BY DEF OnOpen
<1>3. \A id \in SubIds : remote'[id] = wires'[id]
  BY <1>1, <1>2, FlushedIsRouted
<1>4. \A id \in SubIds : wires'[id] = { q \in watch : sub'[q] = id }
  BY <1>2 DEF SubsInv, RoutingAgrees
<1>5. \A q \in watch : sub'[q] \in SubIds
  <2>1. batch \in [Pending -> SubIds]
    BY DEF Batches, Free
  <2>2. QED BY <1>1, <2>1 DEF SubsInv, TransportTypes, Pending
<1>6. ~pending'
  BY <1>2 DEF WireInv, ConnInv
<1>7. ConnInv'
  BY <1>2, <1>6 DEF ConnInv
<1>8. QueueShape'
  BY <1>2 DEF QueueShape
<1>9. OnWire'
  BY <1>2, <1>3, <1>4, <1>5 DEF OnWire
<1>10. Fresh'
  BY <1>2, <1>3, <1>4 DEF WireInv, Fresh, rows
<1>11. QED BY <1>7, <1>8, <1>9, <1>10 DEF WireInv

(* The other steps of the connection.                                      *)
LEMMA ConnectionWires ==
  ASSUME SubsInv, SubsInv', WireInv,
         CreateSocket \/ ReconnectTimer \/ PeriodicTimer \/ ConnectionDrops \/ OnStaleEvent
  PROVE  WireInv'
<1>1. UNCHANGED <<service, rows, transport, queue>>
  BY DEF CreateSocket, ReconnectTimer, PeriodicTimer, ConnectionDrops, OnStaleEvent
<1>2. /\ ConnInv'
      /\ socket' = "open" => socket = "open"
      /\ remote' = remote \/ remote' = NoFilters
  <2>1. CASE CreateSocket
    BY <1>1, <2>1 DEF CreateSocket, WireInv, ConnInv, transport
  <2>2. CASE ReconnectTimer
    BY <1>1, <2>2 DEF ReconnectTimer, EnsureSocket, WireInv, ConnInv, transport
  <2>3. CASE PeriodicTimer
    BY <1>1, <2>3 DEF PeriodicTimer, WireInv, ConnInv, transport, NoFilters
  <2>4. CASE ConnectionDrops
    BY <1>1, <2>4 DEF ConnectionDrops, WireInv, ConnInv, transport, NoFilters
  <2>5. CASE OnStaleEvent
    BY <1>1, <2>5 DEF OnStaleEvent, WireInv, ConnInv, transport
  <2>6. QED BY <2>1, <2>2, <2>3, <2>4, <2>5
<1>3. QueueShape'
  BY <1>1 DEF WireInv, QueueShape, NothingRouted, OneRouted, transport
<1>4. OnWire'
  <2>1. CASE remote' = remote
    BY <1>1, <1>2, <2>1 DEF WireInv, OnWire, transport
  <2>2. CASE socket' # "open"
    BY <2>2 DEF OnWire
  <2>3. socket' = "open" => remote' = remote
    BY DEF CreateSocket, ReconnectTimer, PeriodicTimer, ConnectionDrops, OnStaleEvent
  <2>4. QED BY <2>1, <2>2, <2>3
<1>5. Fresh'
  BY <1>1, <1>2 DEF WireInv, Fresh, rows, transport, NoFilters
<1>6. QED BY <1>2, <1>3, <1>4, <1>5 DEF WireInv

(* A connection that is closed or taken down has nothing on the wire.      *)
LEMMA ClosedWires ==
  ASSUME SubsInv, WireInv, OnClose \/ Stop
  PROVE  WireInv'
<1>1. /\ socket' = "none" /\ isOpen' = FALSE /\ queue' = <<>> /\ wires' = NoFilters
      /\ watch' \subseteq watch /\ UNCHANGED rows
      /\ service' # "new" \/ service' = service
      /\ remote' = remote \/ remote' = NoFilters
  BY DEF OnClose, Stop, CloseMint
<1>2. \A id \in SubIds : remote'[id] = {}
  BY <1>1 DEF OnClose, Stop, CloseMint, WireInv, ConnInv, NoFilters
<1>3. ConnInv'
  BY <1>1, <1>2 DEF ConnInv
<1>4. QueueShape'
  BY <1>1 DEF QueueShape, NothingRouted, NoFilters
<1>5. OnWire'
  BY <1>1 DEF OnWire
<1>6. Fresh'
  <2>1. Fresh /\ row' = row /\ creating' = creating
    BY <1>1 DEF WireInv, rows
  <2>2. service' = "new" => service = "new"
    BY <1>1
  <2>3. QED BY <1>1, <1>2, <2>1, <2>2 DEF Fresh
<1>7. QED BY <1>3, <1>4, <1>5, <1>6 DEF WireInv

(* start() finds nothing on the wire.                                      *)
LEMMA StartWires ==
  ASSUME SubsInv, StartInv, WireInv, Start
  PROVE  WireInv'
<1> DEFINE active == { q \in Quotes : row[q] = "UNPAID" /\ q \notin expired }
<1>1. /\ watch = {} /\ watch' = active /\ service = "new" /\ service' = "started"
      /\ UNCHANGED <<rows, sub, wires, queued, isOpen, reconnect, queue, remote, faults>>
      /\ IF active = {} THEN UNCHANGED <<socket, pending, periodic, stale>> ELSE EnsureSocket
  BY DEF Start, StartInv
<1>2. socket = "none" /\ ~pending /\ ~isOpen
  BY <1>1 DEF SubsInv, ConnectedWhileWatched, WireInv, ConnInv
<1>3. socket' # "open" /\ (pending' => socket' = "none")
  BY <1>1, <1>2 DEF EnsureSocket
<1>4. ~isOpen'
  BY <1>1, <1>2
<1>5. \A id \in SubIds : remote'[id] = {}
  BY <1>1, <1>2 DEF WireInv, ConnInv
<1>6. ConnInv'
  BY <1>3, <1>4, <1>5 DEF ConnInv
<1>7. QueueShape'
  BY <1>1 DEF WireInv, QueueShape, NothingRouted, OneRouted
<1>8. OnWire'
  BY <1>3 DEF OnWire
<1>9. Fresh'
  BY <1>1, <1>5 DEF WireInv, Fresh, rows
<1>10. QED BY <1>6, <1>7, <1>8, <1>9 DEF WireInv

(* A step that changes only rows leaves the wire as it is.                 *)
LEMMA RowsWires ==
  ASSUME WireInv, Fresh', UNCHANGED <<transport, manager>>
  PROVE  WireInv'
<1>1. ConnInv' /\ OnWire'
  BY DEF WireInv, ConnInv, OnWire, transport, manager, connection
<1>2. QueueShape'
  BY DEF WireInv, QueueShape, NothingRouted, OneRouted, transport, manager
<1>3. QED BY <1>1, <1>2 DEF WireInv

(* A message about one subscription changes the mint's view of that one,   *)
(* if the socket is open, and is queued otherwise.                         *)
LEMMA SendWires ==
  ASSUME SubsInv, WireInv, NEW message \in Message, Send(message), UNCHANGED reconnect
  PROVE  /\ socket = "open" =>
              /\ UNCHANGED <<socket, pending, queue>>
              /\ remote' = [remote EXCEPT ![message.id] = message.filters]
         /\ socket # "open" =>
              /\ socket' # "open" /\ (pending' => socket' = "none")
              /\ queue' = Append(queue, message) /\ remote' = remote
  BY DEF Send, EnsureSocket, Received, WireInv, ConnInv

(* A new quote goes on the wire, or waits for it.                          *)
LEMMA WatchWires ==
  ASSUME SubsInv, SubsInv', WireInv, NEW q \in Quotes, EmitCreated(q), Watch(q), q \notin watch,
         service = "started"
  PROVE  WireInv'
<1>1. /\ q \in creating /\ creating' = creating \ {q}
      /\ UNCHANGED <<service, row, expired, closing, unpublished, faults>>
      /\ watch' = watch \cup {q} /\ UNCHANGED reconnect
  BY DEF EmitCreated, Watch
<1>2. \A id \in SubIds : q \notin remote[id]
  BY <1>1 DEF WireInv, Fresh
<1>3. CASE ~isOpen /\ UNCHANGED <<sub, wires, queued, isOpen, queue, remote>>
           /\ (EnsureSocket \/ UNCHANGED <<socket, pending, periodic, stale>>)
  <2>1. socket' # "open" /\ (pending' => socket' = "none")
    BY <1>3 DEF EnsureSocket, WireInv, ConnInv
  <2>2. ~isOpen'
    BY <1>3
  <2>3. \A id \in SubIds : remote'[id] = {}
    BY <1>3 DEF WireInv, ConnInv
  <2>4. ConnInv'
    BY <2>1, <2>2, <2>3 DEF ConnInv
  <2>5. QueueShape'
    BY <1>3 DEF WireInv, QueueShape, NothingRouted, OneRouted
  <2>6. OnWire'
    BY <2>1 DEF OnWire
  <2>7. Fresh'
    BY <1>1, <2>3 DEF WireInv, Fresh
  <2>8. QED BY <2>4, <2>5, <2>6, <2>7 DEF WireInv
<1>4. CASE isOpen /\ Subscribe(q)
  <2> DEFINE message(id) == [method |-> "subscribe", id |-> id, filters |-> {q}]
  <2>1. PICK id \in Free :
          /\ Send(message(id))
          /\ IF socket = "open"
               THEN /\ sub' = [sub EXCEPT ![q] = id]
                    /\ wires' = [wires EXCEPT ![id] = {q}]
                    /\ UNCHANGED <<queued, isOpen>>
               ELSE /\ sub' = [Unsubscribed EXCEPT ![q] = id]
                    /\ wires' = [NoFilters EXCEPT ![id] = {q}]
                    /\ queued' = {id}
                    /\ isOpen' = FALSE
    BY <1>4 DEF Subscribe
  <2>2. id \in SubIds /\ wires[id] = {} /\ remote[id] = {}
    BY DEF Free, InUse
  <2>3. message(id) \in Message
    BY <2>2 DEF Message
  <2>4. /\ socket = "open" =>
             /\ UNCHANGED <<socket, pending, queue>>
             /\ remote' = [remote EXCEPT ![id] = {q}]
        /\ socket # "open" =>
             /\ socket' # "open" /\ (pending' => socket' = "none")
             /\ queue' = Append(queue, message(id)) /\ remote' = remote
    BY <1>1, <2>1, <2>3, SendWires
  <2>5. queue = <<>>
    BY <1>4 DEF SubsInv, QueueInv
  <2>6. CASE socket = "open"
    <3>1. isOpen' /\ socket' = "open" /\ ~reconnect' /\ ~pending'
      BY <1>1, <1>4, <2>1, <2>4, <2>6 DEF WireInv, ConnInv
    <3>2. ConnInv' /\ QueueShape'
      BY <3>1 DEF ConnInv, QueueShape
    <3>3. sub' = [sub EXCEPT ![q] = id] /\ wires' = [wires EXCEPT ![id] = {q}]
          /\ remote' = [remote EXCEPT ![id] = {q}]
      BY <2>1, <2>4, <2>6
    <3>4. OnWire
      BY DEF WireInv
    <3>5. /\ sub \in [Quotes -> SubIds \cup {NoSub}] /\ wires \in [SubIds -> SUBSET Quotes]
          /\ remote \in [SubIds -> SUBSET Quotes] /\ watch \subseteq Quotes
      BY DEF SubsInv, TransportTypes, ManagerTypes
    <3>6. OnWire'
      BY <1>1, <1>2, <2>2, <2>6, <3>3, <3>4, <3>5 DEF OnWire
    <3>7. Fresh'
      BY <1>1, <3>3, <3>5 DEF WireInv, Fresh
    <3>8. QED BY <3>2, <3>6, <3>7 DEF WireInv
  <2>7. CASE socket # "open"
    <3>1. socket' # "open" /\ (pending' => socket' = "none") /\ ~isOpen'
      BY <2>1, <2>4, <2>7
    <3>2. \A x \in SubIds : remote'[x] = {}
      BY <2>4, <2>7 DEF WireInv, ConnInv
    <3>3. ConnInv' /\ OnWire'
      BY <3>1, <3>2 DEF ConnInv, OnWire
    <3>4. queue' = <<message(id)>>
      BY <2>4, <2>5, <2>7
    <3>5. OneRouted(id, q)'
      BY <2>1, <2>2, <2>7, <3>4 DEF OneRouted, NoFilters
    <3>6. Len(queue') = 1
      BY <3>4
    <3>7. QueueShape'
      BY <2>2, <3>5, <3>6 DEF QueueShape
    <3>8. Fresh'
      BY <1>1, <3>2 DEF WireInv, Fresh
    <3>9. QED BY <3>3, <3>7, <3>8 DEF WireInv
  <2>8. QED BY <2>6, <2>7
<1>5. watch = {} => ~isOpen
  BY DEF SubsInv, ConnectedWhileWatched, WireInv, ConnInv
<1>6. QED BY <1>3, <1>4, <1>5 DEF Watch

(* Where an appended element goes.                                         *)
LEMMA AppendAt ==
  ASSUME NEW S, NEW s \in Seq(S), NEW m \in S
  PROVE  /\ Len(Append(s, m)) = Len(s) + 1
         /\ Append(s, m)[Len(s) + 1] = m
         /\ \A i \in 1..Len(s) : Append(s, m)[i] = s[i]
  OBVIOUS

(* A message joins the one that waits.                                     *)
LEMMA AppendToOne ==
  ASSUME NEW S, NEW s \in Seq(S), NEW m \in S, Len(s) = 1
  PROVE  Len(Append(s, m)) = 2 /\ Append(s, m)[1] = s[1] /\ Append(s, m)[2] = m
<1>1. Append(s, m)[Len(s) + 1] = m
  BY AppendAt
<1>2. Len(s) + 1 = 2
  OBVIOUS
<1>3. Append(s, m)[2] = m
  BY <1>1, <1>2, Zenon
<1>4. Len(Append(s, m)) = Len(s) + 1
  BY AppendAt
<1>5. \A i \in 1..Len(s) : Append(s, m)[i] = s[i]
  BY AppendAt
<1>6. 1 \in 1..Len(s)
  OBVIOUS
<1>7. QED BY <1>2, <1>3, <1>4, <1>5, <1>6, Zenon

(* A quote is dropped: its subscription goes with its last quote.          *)
LEMMA UnwatchWires ==
  ASSUME SubsInv, SubsInv', WireInv, NEW q \in Quotes, EmitStateChanged(q), Unwatch(q), q \in watch
  PROVE  WireInv'
<1> DEFINE id == sub[q]
<1> DEFINE message == [method |-> "unsubscribe", id |-> id, filters |-> {}]
<1>1. /\ UNCHANGED <<service, row, expired, creating, unpublished, faults>>
      /\ watch' = watch \ {q}
      /\ sub' = [sub EXCEPT ![q] = NoSub]
      /\ wires' = IF id = NoSub THEN wires ELSE [wires EXCEPT ![id] = @ \ {q}]
      /\ queued' = { x \in queued : wires'[x] # {} }
  BY DEF EmitStateChanged, Unwatch
<1>2. /\ sub \in [Quotes -> SubIds \cup {NoSub}] /\ wires \in [SubIds -> SUBSET Quotes]
      /\ remote \in [SubIds -> SUBSET Quotes] /\ watch \subseteq Quotes
  BY DEF SubsInv, TransportTypes, ManagerTypes
<1>3. id # NoSub => id \in SubIds /\ q \in wires[id]
  BY <1>2 DEF SubsInv, RoutingAgrees
<1>4. CASE watch = {q}
  <2>1. isOpen' = FALSE /\ CloseMint
    BY <1>4 DEF Unwatch
  <2>2. /\ socket' = "none" /\ ~isOpen' /\ queue' = <<>>
        /\ \A x \in SubIds : remote'[x] = {}
    BY <2>1 DEF CloseMint, NoFilters
  <2>3. ConnInv' /\ OnWire'
    BY <2>2 DEF ConnInv, OnWire
  <2>4. watch' = {}
    BY <1>1, <1>4
  <2>5. NothingRouted'
    BY <2>4 DEF SubsInv, RoutingAgrees, NothingRouted
  <2>6. QueueShape'
    BY <2>2, <2>5 DEF QueueShape
  <2>7. Fresh'
    BY <1>1, <2>2, <2>4 DEF WireInv, Fresh
  <2>8. QED BY <2>3, <2>6, <2>7 DEF WireInv
<1>5. CASE /\ watch # {q} /\ id # NoSub /\ wires'[id] = {}
           /\ id \in queued \/ (isOpen /\ socket = "open")
  <2>1. Send(message) /\ UNCHANGED <<isOpen, reconnect>>
    BY <1>5 DEF Unwatch
  <2>2. message \in Message
    BY <1>3, <1>5 DEF Message
  <2>3. /\ socket = "open" =>
             /\ UNCHANGED <<socket, pending, queue>>
             /\ remote' = [remote EXCEPT ![id] = {}]
        /\ socket # "open" =>
             /\ socket' # "open" /\ (pending' => socket' = "none")
             /\ queue' = Append(queue, message) /\ remote' = remote
    BY <2>1, <2>2, SendWires
  <2>4. CASE socket = "open"
    <3>1. isOpen /\ isOpen' = isOpen
      BY <2>1, <2>4 DEF WireInv, ConnInv
    <3>2. isOpen' /\ socket' = "open" /\ ~reconnect' /\ ~pending'
      BY <2>1, <2>3, <2>4, <3>1 DEF WireInv, ConnInv
    <3>3. ConnInv' /\ QueueShape'
      BY <3>2 DEF ConnInv, QueueShape
    <3>4. OnWire /\ remote' = [remote EXCEPT ![id] = {}]
      BY <2>3, <2>4 DEF WireInv
    <3>5. wires' = [wires EXCEPT ![id] = @ \ {q}]
      BY <1>1, <1>5
    <3>6. \A x \in SubIds : wires'[x] = { r \in watch' : sub'[r] = x }
      BY DEF SubsInv, RoutingAgrees
    <3>7. \A r \in watch' : sub[r] \in SubIds /\ sub'[r] = sub[r] /\ sub[r] # id
      BY <1>1, <1>2, <1>3, <1>5, <2>4, <3>4, <3>6 DEF OnWire
    <3>8. OnWire'
      BY <1>1, <1>2, <1>3, <1>5, <2>4, <3>4, <3>5, <3>7 DEF OnWire
    <3>9. Fresh'
      BY <1>1, <1>2, <1>3, <1>5, <3>4 DEF WireInv, Fresh
    <3>10. QED BY <3>3, <3>8, <3>9 DEF WireInv
  <2>5. CASE socket # "open"
    <3>1. ~isOpen /\ id \in queued /\ Len(queue) = 1
      BY <1>5, <2>5 DEF SubsInv, QueueInv
    <3>2. PICK x \in SubIds, r \in Quotes : OneRouted(x, r)
      BY <3>1 DEF WireInv, QueueShape
    <3>3. x = id /\ r = q
      BY <1>3, <1>5, <3>1, <3>2 DEF OneRouted
    <3>4. queue' = Append(queue, message) /\ queue \in Seq(Message)
      BY <2>3, <2>5 DEF SubsInv, ManagerTypes
    <3>5. Len(queue') = 2 /\ queue'[1] = queue[1] /\ queue'[2] = message
      BY <2>2, <3>1, <3>4, AppendToOne
    <3>6. queue'[1].id = id /\ queue'[2].id = id /\ queue'[2].filters = {}
      BY <3>2, <3>3, <3>5 DEF OneRouted
    <3>7. NothingRouted'
      BY <1>1, <1>2, <1>5, <3>2, <3>3 DEF OneRouted, NothingRouted
    <3>8. QueueShape'
      BY <3>5, <3>6, <3>7 DEF QueueShape
    <3>9. ~isOpen' /\ socket' # "open" /\ (pending' => socket' = "none")
      BY <2>1, <2>3, <2>5, <3>1
    <3>10. \A y \in SubIds : remote'[y] = {}
      BY <2>3, <2>5 DEF WireInv, ConnInv
    <3>11. ConnInv' /\ OnWire'
      BY <3>9, <3>10 DEF ConnInv, OnWire
    <3>12. Fresh'
      BY <1>1, <3>10 DEF WireInv, Fresh
    <3>13. QED BY <3>8, <3>11, <3>12 DEF WireInv
  <2>6. QED BY <2>4, <2>5
<1>6. CASE /\ watch # {q}
           /\ ~(id # NoSub /\ wires'[id] = {} /\ (id \in queued \/ (isOpen /\ socket = "open")))
  <2>1. UNCHANGED <<isOpen, reconnect, socket, pending, periodic, stale, queue, remote>>
    BY <1>6 DEF Unwatch
  <2>2. ConnInv'
    BY <2>1 DEF WireInv, ConnInv
  <2>3. QueueShape'
    <3>1. CASE isOpen
      BY <2>1, <3>1 DEF QueueShape
    <3>2. CASE ~isOpen /\ id = NoSub
      <4>1. wires' = wires
        BY <1>1, <3>2
      <4>2. \A x \in SubIds, r \in Quotes : OneRouted(x, r) => queued' = queued
        BY <1>1, <4>1 DEF OneRouted
      <4>3. QED BY <2>1, <4>1, <4>2 DEF WireInv, QueueShape, NothingRouted, OneRouted
    <3>3. CASE ~isOpen /\ id # NoSub
      <4>1. Len(queue) # 0 /\ Len(queue) # 2
        BY <1>3, <3>3 DEF WireInv, QueueShape, NothingRouted
      <4>2. Len(queue) # 1
        <5>1. SUFFICES ASSUME Len(queue) = 1 PROVE FALSE
          OBVIOUS
        <5>2. PICK x \in SubIds, r \in Quotes : OneRouted(x, r)
          BY <3>3, <5>1 DEF WireInv, QueueShape
        <5>3. x = id /\ r = q
          BY <1>3, <3>3, <5>2 DEF OneRouted
        <5>4. id \in queued /\ wires'[id] = {}
          BY <1>1, <1>2, <1>3, <3>3, <5>2, <5>3 DEF OneRouted
        <5>5. QED BY <1>6, <3>3, <5>4
      <4>3. QED BY <2>1, <4>1, <4>2 DEF QueueShape
    <3>4. QED BY <3>1, <3>2, <3>3
  <2>4. OnWire'
    <3> SUFFICES ASSUME socket = "open" PROVE OnWire'
      BY <2>1 DEF OnWire
    <3>1. isOpen /\ OnWire
      BY DEF WireInv, ConnInv
    <3>2. id \in SubIds /\ wires'[id] # {} /\ wires' = [wires EXCEPT ![id] = @ \ {q}]
      BY <1>1, <1>3, <1>6, <3>1, SubscriptionsAssumption DEF OnWire
    <3>3. QED BY <1>1, <1>2, <2>1, <3>1, <3>2 DEF OnWire
  <2>5. Fresh'
    BY <1>1, <2>1 DEF WireInv, Fresh
  <2>6. QED BY <2>2, <2>3, <2>4, <2>5 DEF WireInv
<1>7. QED BY <1>4, <1>5, <1>6

(* What happens to one quote.                                              *)
LEMMA QuoteWires ==
  ASSUME SubsInv, SubsInv', WireInv, NEW q \in Quotes,
         \/ InsertQuote(q) \/ EmitCreated(q)
         \/ PollCloses(q) \/ Notify(q) \/ EmitStateChanged(q) \/ LosePublication(q)
         \/ Expire(q)
  PROVE  WireInv'
<1>1. CASE InsertQuote(q) \/ PollCloses(q) \/ Notify(q) \/ LosePublication(q) \/ Expire(q)
  <2>1. UNCHANGED <<transport, manager>>
    BY <1>1 DEF InsertQuote, PollCloses, Notify, Close, LosePublication, Expire
  <2>2. row \in [Quotes -> {"absent", "UNPAID", "closed"}]
    BY DEF SubsInv, RowTypes
  <2>3. watch' = watch /\ remote' = remote
    BY <2>1 DEF transport, manager
  <2>4. Fresh'
    <3>1. CASE InsertQuote(q)
      BY <2>2, <2>3, <3>1 DEF InsertQuote, WireInv, Fresh
    <3>2. CASE PollCloses(q) \/ Notify(q)
      <4>1. Close(q)
        BY <3>2 DEF PollCloses, Notify
      <4>2. QED BY <2>2, <2>3, <4>1 DEF Close, WireInv, Fresh
    <3>3. CASE Expire(q)
      BY <2>3, <3>3 DEF Expire, WireInv, Fresh
    <3>4. CASE LosePublication(q)
      BY <2>3, <3>4 DEF LosePublication, WireInv, Fresh
    <3>5. QED BY <1>1, <3>1, <3>2, <3>3, <3>4
  <2>5. QED BY <2>1, <2>4, RowsWires
<1>2. CASE EmitCreated(q)
  <2>1. CASE Watch(q) /\ q \notin watch /\ service = "started"
    BY <1>2, <2>1, WatchWires
  <2>2. CASE UNCHANGED <<transport, manager>>
    <3>1. Fresh'
      BY <1>2, <2>2 DEF EmitCreated, WireInv, Fresh, transport, manager
    <3>2. QED BY <2>2, <3>1, RowsWires
  <2>3. QED BY <1>2, <2>1, <2>2 DEF EmitCreated
<1>3. CASE EmitStateChanged(q)
  <2>1. CASE Unwatch(q) /\ q \in watch
    BY <1>3, <2>1, UnwatchWires
  <2>2. CASE UNCHANGED <<transport, manager>>
    <3>1. Fresh'
      BY <1>3, <2>2 DEF EmitStateChanged, WireInv, Fresh, transport, manager
    <3>2. QED BY <2>2, <3>1, RowsWires
  <2>3. QED BY <1>3, <2>1, <2>2 DEF EmitStateChanged
<1>4. QED BY <1>1, <1>2, <1>3

(* On an open connection every watched quote has its one subscription at   *)
(* the mint, the one that routes its notifications, and the mint keeps     *)
(* none that was emptied.                                                  *)
THEOREM WatchesAreSubscribedOnce == Spec => []WatchesAreOnTheWire
<1>1. Init => WireInv
  <2> SUFFICES ASSUME Init PROVE WireInv
    OBVIOUS
  <2>1. ConnInv /\ OnWire
    BY DEF Init, ConnInv, OnWire, NoFilters
  <2>2. QueueShape
    BY DEF Init, QueueShape, NothingRouted, NoFilters
  <2>3. Fresh
    BY DEF Init, Fresh, NoFilters
  <2>4. QED BY <2>1, <2>2, <2>3 DEF WireInv
<1>2. SubsInv /\ StartInv /\ (SubsInv /\ StartInv)' /\ WireInv /\ [Next]_vars => WireInv'
  <2> SUFFICES ASSUME SubsInv, StartInv, SubsInv', WireInv, [Next]_vars PROVE WireInv'
    OBVIOUS
  <2>1. CASE UNCHANGED vars
    <3>1. Fresh'
      BY <2>1 DEF vars, rows, transport, manager, WireInv, Fresh
    <3>2. QED BY <2>1, <3>1, RowsWires DEF vars
  <2>2. CASE Next
    BY <2>2, ConnectionWires, OpenWires, ClosedWires, StartWires, QuoteWires DEF Next, Connect
  <2>3. QED BY <2>1, <2>2
<1>3. SubsInv /\ WireInv => WatchesAreOnTheWire
  <2> SUFFICES ASSUME SubsInv, WireInv, socket = "open"
               PROVE  /\ \A q \in watch : { id \in SubIds : q \in remote[id] } = { sub[q] }
                      /\ \A id \in SubIds : remote[id] # {} => wires[id] # {}
    BY DEF WatchesAreOnTheWire
  <2>1. QED BY DEF WireInv, OnWire
<1>4. QED BY <1>1, <1>2, <1>3, SubscriptionsInvariant, PTL DEF Spec

-----------------------------------------------------------------------------
(* The end of a watch.                                                     *)

(* A step of the connection, or of another quote, watches nothing new.     *)
LEMMA WatchBegins ==
  ASSUME SubsInv, StartInv, [Next]_vars, NEW q \in watch' \ watch
  PROVE  \/ row[q] = "UNPAID" /\ row' = row
         \/ EmitCreated(q)
<1>1. ASSUME NEW p \in Quotes, EmitCreated(p) PROVE p = q
  BY <1>1 DEF EmitCreated, Watch, transport
<1>2. ASSUME NEW p \in Quotes, EmitStateChanged(p) PROVE FALSE
  BY <1>2 DEF EmitStateChanged, Unwatch, transport
<1>3. CASE Start
  BY <1>3 DEF Start, rows
<1>4. QED
  BY <1>1, <1>2, <1>3
     DEF Next, Connect, CreateSocket, ReconnectTimer, OnOpen, OnClose, PeriodicTimer,
         ConnectionDrops, OnStaleEvent, Stop, InsertQuote, PollCloses,
         Notify, Close, LosePublication, Expire, vars, transport

(* A quote that is closed has its mintQuote.stateChanged still to come;    *)
(* unless it is lost, that event ends its watch, in every state of the     *)
(* connection.                                                             *)
LEMMA WatchEnds ==
  ASSUME SubsInv, StartInv, [Next]_vars, NEW q \in watch \cap watch', q \notin closing',
         row'[q] = "closed"
  PROVE  q \in unpublished' \/ (row[q] = "closed" /\ q \notin closing)
<1> DEFINE Caused == q \in unpublished' \/ (row[q] = "closed" /\ q \notin closing)
<1>0. q \in Quotes /\ row \in [Quotes -> {"absent", "UNPAID", "closed"}]
  BY DEF SubsInv, TransportTypes, RowTypes
<1>1. ASSUME NEW p \in Quotes, Close(p) PROVE Caused
  BY <1>0, <1>1 DEF Close
<1>2. ASSUME NEW p \in Quotes, EmitStateChanged(p) PROVE Caused
  <2>1. CASE p = q
    <3>1. service = "started"
      BY DEF StartInv
    <3>2. Unwatch(q)
      BY <1>2, <2>1, <3>1 DEF EmitStateChanged
    <3>3. QED BY <3>2 DEF Unwatch
  <2>2. CASE p # q
    BY <1>2, <2>2 DEF EmitStateChanged
  <2>3. QED BY <2>1, <2>2
<1>3. ASSUME NEW p \in Quotes, InsertQuote(p) PROVE Caused
  BY <1>0, <1>3 DEF InsertQuote
<1>4. ASSUME NEW p \in Quotes, EmitCreated(p) PROVE Caused
  BY <1>4 DEF EmitCreated
<1>5. ASSUME NEW p \in Quotes, LosePublication(p) PROVE Caused
  BY <1>5 DEF LosePublication
<1>6. CASE UNCHANGED <<row, closing>>
  BY <1>6
<1>7. QED
  BY <1>1, <1>2, <1>3, <1>4, <1>5, <1>6
     DEF Next, Connect, CreateSocket, ReconnectTimer, OnOpen, OnClose, PeriodicTimer,
         ConnectionDrops, OnStaleEvent, Start, Stop, PollCloses, Notify, Expire, vars, rows

(* A watch outlives its quote only if the event of the change was lost, or *)
(* was emitted before that of the creation was handled.                    *)
THEOREM WatchesStayForACause == Spec => LingeringHasACause
<1> DEFINE Caused(q) == q \in unpublished' \/ (q \in creating \ closing /\ row[q] = "closed")
<1>1. ASSUME SubsInv, StartInv, [Next]_vars
      PROVE  [\A q \in Lingering' \ Lingering : Caused(q)]_vars
  <2> SUFFICES ASSUME NEW q \in Lingering' \ Lingering PROVE Caused(q)
    OBVIOUS
  <2>1. q \in watch' /\ row'[q] = "closed" /\ q \notin closing'
    BY DEF Lingering
  <2>2. CASE q \in watch
    BY <1>1, <2>1, <2>2, WatchEnds DEF Lingering
  <2>3. CASE q \notin watch
    <3>1. (row[q] = "UNPAID" /\ row' = row) \/ EmitCreated(q)
      BY <1>1, <2>1, <2>3, WatchBegins
    <3>2. EmitCreated(q)
      BY <2>1, <3>1
    <3>3. QED BY <2>1, <3>2 DEF EmitCreated
  <2>4. QED BY <2>2, <2>3
<1>2. QED BY <1>1, SubscriptionsInvariant, PTL DEF Spec, LingeringHasACause
=============================================================================
