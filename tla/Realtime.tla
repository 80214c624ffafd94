------------------------------ MODULE Realtime ------------------------------
(***************************************************************************)
(* The shared socket of a page and the server's side of it: the manager of *)
(* websocketManager.ts and the hooks that use it, websocket/server.ts,     *)
(* connectionManager.ts and the connection counter of rateLimiter.ts, for  *)
(* one address.  A channel stands for market_price of one outcome: one     *)
(* hook of the page watches Header's, another that of the outcome chosen   *)
(* in the panel.                                                           *)
(***************************************************************************)
EXTENDS Integers, FiniteSets, Sequences, SequencesExt

CONSTANTS
    Sockets,            \* bound: how many sockets exist at a time
    Header,             \* the channel of the page's header
    PanelChannels,      \* the channels among which the panel moves
    MaxConnections,     \* maxConnectionsPerIP
    MaxSubscriptions,   \* maxSubscriptions, 50
    MaxReconnects,      \* the 10 attempts of onclose
    MaxInbox,           \* bound: messages of a socket on their way
    MaxMoves,           \* bound: how often the panel moves
    MaxSocketFaults     \* bound: sockets that fail, restarts of the server

ASSUME RealtimeAssumption == IsFiniteSet(PanelChannels)

VARIABLES
    page,       \* the manager: its socket, its attempts and its timers
    panel,      \* the outcome chosen in the panel
    kept,       \* the manager's subscriptions
    denied,     \* the page was told that it has too many of them
    link,       \* every socket: its two ends, and the events yet to be handled
    inbox,      \* the messages of the page that the server has yet to handle
    server,     \* every socket at the server: how far its handler is
    held,       \* connectionManager.connections
    records,    \* connections of server.ts: the subscriptions, the user
    listed,     \* subscriptionsByChannel
    removals,   \* calls of unregisterConnection that wait for Redis
    ipCounter,  \* ws:conn:ip:<address>
    moves, socketFaults

realtime == <<page, panel, kept, denied, link, inbox, server, held, records,
              listed, removals, ipCounter, moves, socketFaults>>

PageSide == <<page, panel, kept, denied, moves>>
ServerSide == <<server, held, records, listed, removals, ipCounter>>

NoSocket == 0     \* and Sockets a set of positive numbers
Channels == PanelChannels \cup {Header}
Wanted == {Header, panel}
NoRecord == [here |-> FALSE, subs |-> {}, user |-> FALSE]

RealtimeInit ==
    /\ page = [socket |-> NoSocket, mounted |-> FALSE, tries |-> 0,
               reconnect |-> FALSE, greet |-> FALSE, wallet |-> FALSE]
    /\ panel \in PanelChannels /\ kept = {} /\ denied = FALSE
    /\ link = [s \in Sockets |-> [state |-> "shut", events |-> {}]]
    /\ inbox = [s \in Sockets |-> <<>>]
    /\ server = [s \in Sockets |-> "none"]
    /\ held = {} /\ records = [s \in Sockets |-> NoRecord]
    /\ listed = [c \in Channels |-> {}]
    /\ removals = {} /\ ipCounter = 0 /\ moves = 0 /\ socketFaults = 0

IsOpen(s) == s # NoSocket /\ link[s].state = "open"
Connected == IsOpen(page.socket)

\* A socket of which nothing is left.
Unused(s) ==
    /\ link[s].state = "shut" /\ link[s].events = {} /\ s \notin held /\ ~records[s].here
    /\ \A r \in removals : r.socket # s
    /\ server[s] \notin {"arrived", "retrying", "admitted"}

-----------------------------------------------------------------------------
(***************************************************************************)
(* The page.                                                               *)
(***************************************************************************)
Subscribes(cs) == [i \in 1..Cardinality(cs) |-> [do |-> "subscribe", channel |-> SetToSeq(cs)[i]]]
Unsubscribes(c) == <<[do |-> "unsubscribe", channel |-> c]>>
Auth == <<[do |-> "auth", channel |-> Header]>>

Sends(messages) ==
    inbox' = IF Connected THEN [inbox EXCEPT ![page.socket] = @ \o messages] ELSE inbox

\* connect: the first hook that mounts, and then the timer of onclose.
Connect ==
    /\ page.socket = NoSocket
    /\ ~page.mounted \/ page.reconnect
    /\ \E s \in Sockets :
         /\ Unused(s)
         /\ page' = [page EXCEPT !.socket = s, !.mounted = TRUE, !.reconnect = FALSE]
         /\ link' = [link EXCEPT ![s] = [state |-> "connecting", events |-> {}]]
         /\ inbox' = [inbox EXCEPT ![s] = <<>>]
         /\ server' = [server EXCEPT ![s] = "none"]
    /\ UNCHANGED <<panel, kept, denied, held, records, listed, removals, ipCounter, moves, socketFaults>>

\* onopen: the hooks learn that the page is connected, and subscribe at once;
\* the server's handler of the connection begins.
Opens ==
    /\ page.socket # NoSocket /\ link[page.socket].state = "connecting"
    /\ link' = [link EXCEPT ![page.socket].state = "open"]
    /\ server' = [server EXCEPT ![page.socket] = "arrived"]
    /\ page' = [page EXCEPT !.tries = 0, !.greet = TRUE]
    /\ kept' = kept \cup Wanted
    /\ inbox' = [inbox EXCEPT ![page.socket] = Subscribes(Wanted)]
    /\ UNCHANGED <<panel, denied, held, records, listed, removals, ipCounter, moves, socketFaults>>

\* (A mutant: nothing is sent again after onopen.)
GreetOnce ==
    /\ page.greet /\ Connected
    /\ Len(inbox[page.socket]) < MaxInbox
    /\ server[page.socket] \notin {"arrived", "retrying", "admitted"}
    /\ page' = [page EXCEPT !.greet = FALSE]
    /\ Sends(IF page.wallet THEN Auth ELSE <<>>)
    /\ UNCHANGED <<panel, kept, denied, link, ServerSide, moves, socketFaults>>

\* The timers of onopen: authenticate, and half a second later resubscribeAll,
\* by when the server is taken to have registered the connection or refused it.
Greet ==
    /\ page.greet /\ Connected
    /\ Len(inbox[page.socket]) < MaxInbox
    /\ server[page.socket] \notin {"arrived", "retrying", "admitted"}
    /\ page' = [page EXCEPT !.greet = FALSE]
    /\ Sends((IF page.wallet THEN Auth ELSE <<>>) \o Subscribes(kept))
    /\ UNCHANGED <<panel, kept, denied, link, ServerSide, moves, socketFaults>>

\* useWebSocket, when the wallet connects: connect(publicKey) authenticates.
WalletConnects ==
    /\ page.mounted /\ ~page.wallet
    /\ page' = [page EXCEPT !.wallet = TRUE]
    /\ Sends(Auth)
    /\ UNCHANGED <<panel, kept, denied, link, ServerSide, moves, socketFaults>>

\* The effect of a hook whose outcome changes: it unsubscribes what it had and
\* subscribes what it has.
MovePanel(c) ==
    /\ moves < MaxMoves /\ c # panel
    /\ Connected => Len(inbox[page.socket]) < MaxInbox
    /\ moves' = moves + 1
    /\ panel' = c
    /\ kept' = IF Connected THEN (kept \ {panel}) \cup {c} ELSE kept \ {panel}
    /\ Sends(Unsubscribes(panel) \o Subscribes({c}))
    /\ UNCHANGED <<page, denied, link, ServerSide, socketFaults>>

\* onclose: the hooks clean up, and the page tries again, for a while.
Disconnected(p) ==
    [p EXCEPT !.socket = NoSocket,
              !.reconnect = p.tries < MaxReconnects,
              !.tries = IF @ < MaxReconnects THEN @ + 1 ELSE @]

Closes(s, events) ==
    /\ link' = [link EXCEPT ![s] = [state |-> "shut", events |-> events]]
    /\ IF s = page.socket
       THEN page' = Disconnected(page) /\ kept' = kept \ Wanted
       ELSE UNCHANGED <<page, kept>>

\* A socket fails: before it opened, or with or without an error at the server.
SocketFails ==
    /\ socketFaults < MaxSocketFaults /\ page.socket # NoSocket
    /\ socketFaults' = socketFaults + 1
    /\ IF link[page.socket].state = "connecting"
       THEN Closes(page.socket, {})
       ELSE \E events \in {{"close"}, {"error", "close"}} : Closes(page.socket, events)
    /\ UNCHANGED <<panel, denied, inbox, ServerSide, moves>>

-----------------------------------------------------------------------------
(***************************************************************************)
(* The server.                                                             *)
(***************************************************************************)
\* checkConnectionLimit: a count that makes no sense begins again at 1.
CountedUp == IF ipCounter + 1 > MaxConnections * 2 THEN 1 ELSE ipCounter + 1

\* registerConnection, up to the limit; over it, the stale connections are
\* removed (the sweep) and the limit is checked, and counted, once more.
CheckConnectionLimit(s) ==
    /\ server[s] \in {"arrived", "retrying"}
    /\ ipCounter' = CountedUp
    /\ IF CountedUp <= MaxConnections
       THEN /\ server' = [server EXCEPT ![s] = "admitted"]
            /\ held' = held \cup {s}
            /\ UNCHANGED <<page, kept, link>>
       ELSE /\ server' = [server EXCEPT ![s] = IF @ = "arrived" THEN "retrying" ELSE "none"]
            /\ UNCHANGED held
            /\ IF server[s] = "retrying" /\ link[s].state = "open"
               THEN Closes(s, {})
               ELSE UNCHANGED <<page, kept, link>>
    /\ UNCHANGED <<panel, denied, inbox, records, listed, removals, moves, socketFaults>>

\* The rest of the handler: only now are the socket's events listened to.
Attach(s) ==
    /\ server[s] = "admitted"
    /\ server' = [server EXCEPT ![s] = "attached"]
    /\ records' = [records EXCEPT ![s] = [NoRecord EXCEPT !.here = TRUE]]
    /\ UNCHANGED <<PageSide, link, inbox, held, listed, removals, ipCounter, socketFaults>>

\* A message that nobody listens to is lost.
Unheard(s) ==
    /\ inbox[s] # <<>> /\ server[s] # "attached"
    /\ inbox' = [inbox EXCEPT ![s] = Tail(@)]
    /\ UNCHANGED <<PageSide, link, ServerSide, socketFaults>>

\* createSubscriptionKey: of the channel and the user of the subscription.
Key(s, c) == [channel |-> c, user |-> records[s].user]
PlainKey(c) == [channel |-> c, user |-> FALSE]

\* checkSubscriptionLimit
HasRoom(s) == Cardinality(records[s].subs) < MaxSubscriptions

HandleSubscribe(s, c) ==
    /\ IF s \notin held
       THEN UNCHANGED <<records, listed, denied>>
       ELSE IF ~HasRoom(s)
            THEN denied' = IsOpen(s) /\ UNCHANGED <<records, listed>>
            ELSE /\ records' = [records EXCEPT ![s].subs = @ \cup {Key(s, c)}]
                 /\ listed' = [listed EXCEPT ![c] = @ \cup {s}]
                 /\ denied' = FALSE

\* (A mutant: the key is built as for a subscription, the channel's is not.)
HandleUnsubscribeOfUser(s, c) ==
    /\ records' = [records EXCEPT ![s].subs = @ \ {Key(s, c)}]
    /\ listed' = IF records[s].user THEN listed ELSE [listed EXCEPT ![c] = @ \ {s}]
    /\ UNCHANGED denied

\* handleUnsubscribe: the key lacks the user that handleSubscribe fills in.
HandleUnsubscribe(s, c) ==
    /\ records' = [records EXCEPT ![s].subs = @ \ {PlainKey(c)}]
    /\ listed' = [listed EXCEPT ![c] = @ \ {s}]
    /\ UNCHANGED denied

HandleAuth(s) ==
    /\ records' = [records EXCEPT ![s].user = TRUE]
    /\ UNCHANGED <<listed, denied>>

\* handleMessage.  The first message of a second waits for one answer of Redis
\* more than the next, which may overtake it.
HandleMessage(s, i) ==
    /\ server[s] = "attached" /\ i \in 1..Len(inbox[s])
    /\ inbox' = [inbox EXCEPT ![s] = RemoveAt(@, i)]
    /\ LET m == inbox[s][i]
       IN  IF ~records[s].here THEN UNCHANGED <<records, listed, denied>>
           ELSE CASE m.do = "subscribe" -> HandleSubscribe(s, m.channel)
                  [] m.do = "unsubscribe" -> HandleUnsubscribe(s, m.channel)
                  [] m.do = "auth" -> HandleAuth(s)
    /\ UNCHANGED <<page, panel, kept, link, server, held, removals, ipCounter, moves, socketFaults>>

\* cleanupConnection
Cleaned(s) ==
    /\ records' = [records EXCEPT ![s] = NoRecord]
    /\ listed' = [c \in Channels |-> IF \E k \in records[s].subs : k.channel = c
                                     THEN listed[c] \ {s} ELSE listed[c]]

\* decrementConnection
Decremented == IF ipCounter > 0 THEN ipCounter - 1 ELSE 0

\* The handlers of error and of close: unregisterConnection finds the
\* connection and counts it off, before any answer ...
HandlerBegins(s, event) ==
    /\ event \in link[s].events
    /\ event = "close" => "error" \notin link[s].events
    /\ link' = [link EXCEPT ![s].events = @ \ {event}]
    /\ IF server[s] # "attached" THEN UNCHANGED <<records, listed, removals, ipCounter>>
       ELSE IF s \in held
       THEN /\ removals' = removals \cup {[socket |-> s, by |-> event]}
            /\ ipCounter' = Decremented
            /\ UNCHANGED <<records, listed>>
       ELSE Cleaned(s) /\ UNCHANGED <<removals, ipCounter>>
    /\ UNCHANGED <<PageSide, inbox, server, held, socketFaults>>

\* ... as does the sweep, of the sockets it finds closed, every 30 seconds.
Stale(s) == s \in held /\ link[s].state = "shut"

SweepBegins(s) ==
    /\ Stale(s)
    /\ \A r \in removals : r.by # "sweep"
    /\ removals' = removals \cup {[socket |-> s, by |-> "sweep"]}
    /\ ipCounter' = Decremented
    /\ UNCHANGED <<PageSide, link, inbox, server, held, records, listed, socketFaults>>

\* ... and with the answers the connection is forgotten.
RemovalEnds(r) ==
    /\ removals' = removals \ {r}
    /\ held' = held \ {r.socket}
    /\ IF r.by = "sweep" THEN UNCHANGED <<records, listed>> ELSE Cleaned(r.socket)
    /\ UNCHANGED <<PageSide, link, inbox, server, ipCounter, socketFaults>>

\* The counter of an address lives for 5 minutes from its first connection.
CounterExpires ==
    /\ ipCounter > 0
    /\ ipCounter' = 0
    /\ UNCHANGED <<PageSide, link, inbox, server, held, records, listed, removals, socketFaults>>

\* The server starts anew; cleanupOnStartup deletes the counters.
ServerRestarts ==
    /\ socketFaults < MaxSocketFaults
    /\ socketFaults' = socketFaults + 1
    /\ link' = [s \in Sockets |-> [state |-> "shut", events |-> {}]]
    /\ IF page.socket # NoSocket
       THEN page' = Disconnected(page) /\ kept' = kept \ Wanted
       ELSE UNCHANGED <<page, kept>>
    /\ inbox' = [s \in Sockets |-> <<>>]
    /\ server' = [s \in Sockets |-> "none"]
    /\ held' = {} /\ records' = [s \in Sockets |-> NoRecord]
    /\ listed' = [c \in Channels |-> {}]
    /\ removals' = {} /\ ipCounter' = 0
    /\ UNCHANGED <<panel, denied, moves>>

RealtimeNext ==
    \/ Connect \/ Opens \/ Greet \/ WalletConnects \/ SocketFails
    \/ \E c \in PanelChannels : MovePanel(c)
    \/ \E s \in Sockets :
         \/ CheckConnectionLimit(s) \/ Attach(s) \/ Unheard(s) \/ SweepBegins(s)
         \/ \E i \in {1, 2} : HandleMessage(s, i)
         \/ \E event \in {"error", "close"} : HandlerBegins(s, event)
    \/ \E r \in removals : RemovalEnds(r)
    \/ CounterExpires \/ ServerRestarts

RealtimeSpec == RealtimeInit /\ [][RealtimeNext]_realtime

-----------------------------------------------------------------------------
Hears(c) == Connected /\ page.socket \in listed[c]

\* What is broadcast on a channel goes only to sockets with a record that holds
\* a subscription of it: however the handlers of messages, errors and closings
\* overlap, no socket stays on the list of a channel when its record is gone.
ListedSocketsHeld ==
    \A c \in Channels : \A s \in listed[c] :
      records[s].here /\ \E k \in records[s].subs : k.channel = c

\* A page that has mounted hears its header's channel in the end, for good,
\* although sockets fail, the server restarts, the counter of connections
\* drifts and messages sent too early are lost.
HeaderStaysLive == <>[](page.mounted => Hears(Header))
=============================================================================
