---------------------------- MODULE Notifications ----------------------------
(***************************************************************************)
(* The notifications of one user, from notificationService.ts and          *)
(* routes/notifications.ts to the page: useNotifications.ts and            *)
(* useNotificationsWebSocket.ts.  The text of a notification is left out;  *)
(* the page's list is taken to be shorter than its limit of 50.            *)
(***************************************************************************)
EXTENDS Integers, FiniteSets

CONSTANTS
    Trades,         \* the orders that notifications are about
    MaxQueue,       \* MAX_QUEUE_SIZE, 10000
    NoticeReconnects,  \* maxReconnectAttempts, 5
    MaxNotices,     \* bound: how many notifications are created
    MaxActs,        \* bound: what the user does
    MaxFaults       \* bound: calls that fail, sockets that close

VARIABLES
    notices,        \* the table notifications
    batch,          \* batchQueue
    working,        \* the notifications being processed, and their step
    notified,       \* how many were created
    countCache,     \* unreadCountCache: the count, -1 for no entry, and if it is fresh
    socket,         \* the page's socket, and what it has yet to deliver
    tries,          \* reconnectAttempts
    list,           \* what the page shows
    badge,          \* its unread count
    asks,           \* the page's calls
    acts, noticeFaults

notification == <<notices, batch, working, notified, countCache,
                  socket, tries, list, badge, asks, acts, noticeFaults>>

Service == <<notices, batch, working, notified, countCache>>
Screen == <<list, badge>>

NoticeTypes == {"trade_buy", "order_partially_filled"}
DefaultPriority(type) == IF type = "trade_buy" THEN "high" ELSE "normal"

NoCount == [count |-> -1, fresh |-> FALSE]

\* The user was told of one trade before, has not read it, and it is counted.
NoticeInit ==
    /\ \E t \in Trades :
         notices = {[id |-> 0, type |-> "trade_buy", trade |-> t, read |-> FALSE, recent |-> TRUE]}
    /\ notified = 1
    /\ batch = {} /\ working = {}
    /\ countCache = NoCount
    /\ socket = [state |-> "closed", wire |-> {}] /\ tries = 0
    /\ list = {} /\ badge = 1
    /\ asks = {} /\ acts = 0 /\ noticeFaults = 0

Unread == Cardinality({n \in notices : ~n.read})

-----------------------------------------------------------------------------
(***************************************************************************)
(* The service.                                                            *)
(***************************************************************************)
\* createNotification: at once, or with the next batch if there is room.
CreateNotification(type, trade) ==
    /\ notified < MaxNotices
    /\ notified' = notified + 1
    /\ LET n == [id |-> notified, type |-> type, trade |-> trade]
           now == DefaultPriority(type) = "high" \/ Cardinality(batch) >= MaxQueue
       IN  /\ batch' = IF now THEN batch ELSE batch \cup {n}
           /\ working' = IF now THEN working \cup {[of |-> n, at |-> "check"]} ELSE working
    /\ UNCHANGED <<notices, countCache, socket, tries, Screen, asks, acts, noticeFaults>>

ProcessBatch ==
    /\ batch # {}
    /\ batch' = {}
    /\ working' = working \cup {[of |-> n, at |-> "check"] : n \in batch}
    /\ UNCHANGED <<notices, notified, countCache, socket, tries, Screen, asks, acts, noticeFaults>>

Onward(p, at) == working' = (working \ {p}) \cup {[p EXCEPT !.at = at]}
Dropped(p) == working' = working \ {p}

\* processNotification: a notification of the same type about the same order,
\* and less than 30 seconds old, makes it a duplicate ...
Duplicate(n) == \E r \in notices : r.recent /\ r.type = n.type /\ r.trade = n.trade

CheckDuplicate(p) ==
    /\ p.at = "check"
    /\ IF Duplicate(p.of) THEN Dropped(p) ELSE Onward(p, "insert")
    /\ UNCHANGED <<notices, batch, notified, countCache, socket, tries, Screen, asks, acts, noticeFaults>>

\* ... or else its row is written ...
InsertNotice(p) ==
    /\ p.at = "insert"
    /\ notices' = notices \cup
         {[id |-> p.of.id, type |-> p.of.type, trade |-> p.of.trade, read |-> FALSE, recent |-> TRUE]}
    /\ Onward(p, "send")
    /\ UNCHANGED <<batch, notified, countCache, socket, tries, Screen, asks, acts, noticeFaults>>

\* ... and it is broadcast to the sockets subscribed at that time.
Broadcast(p) ==
    /\ p.at = "send"
    /\ socket' = IF socket.state = "open" THEN [socket EXCEPT !.wire = @ \cup {p.of.id}] ELSE socket
    /\ Dropped(p)
    /\ UNCHANGED <<notices, batch, notified, countCache, tries, Screen, asks, acts, noticeFaults>>

ProcessNotification(p) == CheckDuplicate(p) \/ InsertNotice(p) \/ Broadcast(p)

\* A query fails, or the process dies with its queue in memory.
NoticeLost ==
    /\ noticeFaults < MaxFaults
    /\ noticeFaults' = noticeFaults + 1
    /\ \/ \E p \in working : Dropped(p) /\ UNCHANGED <<batch, countCache, socket>>
       \/ /\ batch' = {} /\ working' = {} /\ countCache' = NoCount
          /\ socket' = [state |-> "closed", wire |-> {}]
    /\ UNCHANGED <<notices, notified, tries, Screen, asks, acts>>

NoticeAges ==
    /\ \E n \in notices : n.recent /\ notices' = (notices \ {n}) \cup {[n EXCEPT !.recent = FALSE]}
    /\ UNCHANGED <<batch, working, notified, countCache, socket, tries, Screen, asks, acts, noticeFaults>>

\* The entry of the count is fresh for a second, and then kept for a query
\* that fails.
CountExpires ==
    /\ countCache.fresh
    /\ countCache' = [countCache EXCEPT !.fresh = FALSE]
    /\ UNCHANGED <<notices, batch, working, notified, socket, tries, Screen, asks, acts, noticeFaults>>

-----------------------------------------------------------------------------
(***************************************************************************)
(* The routes, each answering a call of the page.                          *)
(***************************************************************************)
Replied(a, b) == asks' = (asks \ {a}) \cup {b}

\* GET /: the rows, and then the count.
GetNotifications(a) ==
    /\ a.do = "list"
    /\ \/ /\ a.at = "sent"
          /\ Replied(a, [a EXCEPT !.at = "rows", !.rows = {[id |-> n.id, read |-> n.read] : n \in notices}])
       \/ /\ a.at = "rows"
          /\ Replied(a, [a EXCEPT !.at = "ok", !.count = Unread])
    /\ UNCHANGED <<notices, countCache>>

GetUnreadCount(a) ==
    /\ a.do = "count" /\ a.at = "sent"
    /\ LET count == IF countCache.fresh THEN countCache.count ELSE Unread
       IN  /\ Replied(a, [a EXCEPT !.at = "ok", !.count = count])
           /\ countCache' = [count |-> count, fresh |-> TRUE]
    /\ UNCHANGED notices

Read(n) == [n EXCEPT !.read = TRUE]

\* PATCH of a row that is gone answers 404.
PatchRead(a) ==
    /\ a.do = "read" /\ a.at = "sent"
    /\ notices' = {IF n.id = a.id THEN Read(n) ELSE n : n \in notices}
    /\ Replied(a, [a EXCEPT !.at = IF \E n \in notices : n.id = a.id THEN "ok" ELSE "failed"])
    /\ UNCHANGED countCache

PatchReadAll(a) ==
    /\ a.do = "readAll" /\ a.at = "sent"
    /\ notices' = {Read(n) : n \in notices}
    /\ Replied(a, [a EXCEPT !.at = "ok"])
    /\ UNCHANGED countCache

DeleteNotice(a) ==
    /\ a.do = "delete" /\ a.at = "sent"
    /\ notices' = {n \in notices : n.id # a.id}
    /\ Replied(a, [a EXCEPT !.at = IF \E n \in notices : n.id = a.id THEN "ok" ELSE "failed"])
    /\ UNCHANGED countCache

Answer(a) ==
    /\ \/ GetNotifications(a) \/ GetUnreadCount(a)
       \/ PatchRead(a) \/ PatchReadAll(a) \/ DeleteNotice(a)
    /\ UNCHANGED <<batch, working, notified, socket, tries, Screen, acts, noticeFaults>>

\* The query of a count fails: the entry answers, however old it is.
ServeStale(a) ==
    /\ noticeFaults < MaxFaults
    /\ noticeFaults' = noticeFaults + 1
    /\ a.do = "count" /\ a.at = "sent"
    /\ ~countCache.fresh /\ countCache # NoCount
    /\ Replied(a, [a EXCEPT !.at = "ok", !.count = countCache.count])
    /\ UNCHANGED <<Service, socket, tries, Screen, acts>>

AskFails(a) ==
    /\ noticeFaults < MaxFaults /\ a.at \in {"sent", "rows"}
    /\ noticeFaults' = noticeFaults + 1
    /\ asks' = asks \ {a}
    /\ UNCHANGED <<Service, socket, tries, Screen, acts>>

-----------------------------------------------------------------------------
(***************************************************************************)
(* The page.                                                               *)
(***************************************************************************)
Sent(do, id) == [do |-> do, id |-> id, at |-> "sent", rows |-> {}, count |-> 0, n |-> acts]

\* The effect of the hook asks for both; later ones are the user's.
NoticeAct ==
    /\ acts < MaxActs
    /\ acts' = acts + 1
    /\ \/ asks' = asks \cup {Sent("list", -1), Sent("count", -1)}
       \/ asks' = asks \cup {Sent("readAll", -1)}
       \/ \E n \in list, do \in {"read", "delete"} : asks' = asks \cup {Sent(do, n.id)}
    /\ UNCHANGED <<Service, socket, tries, Screen, noticeFaults>>

\* The interval of 30 seconds, longer than a call takes.
PollCount ==
    /\ \A a \in asks : a.do # "count"
    /\ asks' = asks \cup {Sent("count", -1)}
    /\ UNCHANGED <<Service, socket, tries, Screen, acts, noticeFaults>>

\* fetchNotifications merges: what the page has stays, and stays as it is.
MergeList(a) ==
    /\ a.do = "list" /\ a.at = "ok"
    /\ list' = list \cup {r \in a.rows : \A n \in list : n.id # r.id}
    /\ badge' = a.count
    /\ asks' = asks \ {a}

\* (A mutant: the count never falls by a poll.)
SetCountUp(a) ==
    /\ a.do = "count" /\ a.at = "ok"
    /\ badge' = IF a.count > badge THEN a.count ELSE badge
    /\ asks' = asks \ {a}
    /\ UNCHANGED list

SetCount(a) ==
    /\ a.do = "count" /\ a.at = "ok"
    /\ badge' = a.count
    /\ asks' = asks \ {a}
    /\ UNCHANGED list

MarkedRead(a) ==
    /\ a.do = "read" /\ a.at = "ok"
    /\ list' = {IF n.id = a.id THEN Read(n) ELSE n : n \in list}
    /\ badge' = IF badge > 0 THEN badge - 1 ELSE 0
    /\ asks' = asks \ {a}

MarkedAllRead(a) ==
    /\ a.do = "readAll" /\ a.at = "ok"
    /\ list' = {Read(n) : n \in list}
    /\ badge' = 0
    /\ asks' = asks \ {a}

Deleted(a) ==
    /\ a.do = "delete" /\ a.at = "ok"
    /\ list' = {n \in list : n.id # a.id}
    /\ asks' = (asks \ {a}) \cup {Sent("count", -1)}
    /\ UNCHANGED badge

Reply(a) ==
    /\ \/ MergeList(a) \/ SetCount(a) \/ MarkedRead(a) \/ MarkedAllRead(a) \/ Deleted(a)
       \/ a.at = "failed" /\ asks' = asks \ {a} /\ UNCHANGED Screen
    /\ UNCHANGED <<Service, socket, tries, acts, noticeFaults>>

\* addNotification: one that is shown already, or that resembles one shown,
\* is not added, but is counted.
AddNotification ==
    /\ \E id \in socket.wire :
         /\ socket' = [socket EXCEPT !.wire = @ \ {id}]
         /\ list' = IF \E n \in list : n.id = id THEN list
                    ELSE list \cup {[id |-> id, read |-> FALSE]}
    /\ badge' = badge + 1
    /\ UNCHANGED <<Service, tries, asks, acts, noticeFaults>>

\* connect, with its retries after ever longer delays: the attempts are counted
\* until one succeeds, and after the last the page stays without a socket.
SocketOpens ==
    /\ socket.state = "closed"
    /\ socket' = [state |-> "open", wire |-> {}]
    /\ tries' = 0
    /\ UNCHANGED <<Service, Screen, asks, acts, noticeFaults>>

SocketCloses ==
    /\ socket.state # "given up" /\ noticeFaults < MaxFaults
    /\ noticeFaults' = noticeFaults + 1
    /\ IF tries < NoticeReconnects
       THEN tries' = tries + 1 /\ socket' = [state |-> "closed", wire |-> {}]
       ELSE UNCHANGED tries /\ socket' = [state |-> "given up", wire |-> {}]
    /\ UNCHANGED <<Service, Screen, asks, acts>>

NoticeNext ==
    \/ \E type \in NoticeTypes, t \in Trades : CreateNotification(type, t)
    \/ ProcessBatch \/ NoticeLost \/ NoticeAges \/ CountExpires
    \/ \E p \in working : ProcessNotification(p)
    \/ \E a \in asks : Answer(a) \/ ServeStale(a) \/ AskFails(a) \/ Reply(a)
    \/ NoticeAct \/ PollCount \/ AddNotification \/ SocketOpens \/ SocketCloses

-----------------------------------------------------------------------------
\* The page's unread count is right in the end, although it is changed by
\* messages, by replies that overtake each other and by counts cached for a
\* second, or served however old when a query fails, and although messages and
\* calls are lost.
BadgeSettles == <>[](badge = Unread)
=============================================================================
