------------------------------ MODULE LiveBook ------------------------------
(***************************************************************************)
(* The order book on its way from the table of orders to a page:           *)
(* orderBookCache.ts with its two layers, emitOrderBookUpdate of           *)
(* orderService.ts, the listener of websocket/server.ts that broadcasts,   *)
(* the first answer of handleSubscribe, and useOrderBookWebSocket.ts.  A   *)
(* book is the number of changes of the orders that it shows.              *)
(***************************************************************************)
EXTENDS Integers

CONSTANTS
    Filters,        \* the filters of a page: none, "100", and token types
    MaxChanges,     \* bound: changes of the orders
    MaxViews,       \* bound: how often the page asks for a book
    MaxBookFaults   \* bound: queries, messages and calls of Redis that fail

VARIABLES
    orders,     \* the book that the table of orders has
    redis,      \* the entries of both layers of the cache ...
    memory,     \* ... by the depth and the filter they are for
    tasks,      \* the functions that are under way
    lists,      \* the filters that the server has the page subscribed to
    view,       \* what the page wants, and the book it shows, for which filter
    views, bookFaults

livebook == <<orders, redis, memory, tasks, lists, view, views, bookFaults>>

NoBook == -1

\* The keys: an update is read 20 levels deep, subscribers are answered from
\* entries of 100 levels, one for each filter.
UpdateKey == "20"
Whole == "100"       \* no filter
Keys == {UpdateKey} \cup Filters

BookInit ==
    /\ orders = 0
    /\ redis = [k \in Keys |-> NoBook] /\ memory = [k \in Keys |-> NoBook]
    /\ tasks = {}
    /\ lists = {}
    /\ view = [filter |-> "none", of |-> "none", book |-> NoBook]
    /\ views = 0 /\ bookFaults = 0

Instead(t, new) == tasks' = (tasks \ {t}) \cup new
Onwards(t, at) == Instead(t, {[t EXCEPT !.at = at]})

-----------------------------------------------------------------------------
\* An order is placed, cancelled or filled: the rows are saved, and then either
\* the service tells of it through the cache or the keeper reads by itself.
OrdersChange ==
    /\ orders < MaxChanges
    /\ orders' = orders + 1
    /\ \E first \in {"invalidate", "read alone"} :
         tasks' = tasks \cup {[by |-> "update", at |-> first, of |-> orders', key |-> UpdateKey, book |-> NoBook]}
    /\ UNCHANGED <<redis, memory, lists, view, views, bookFaults>>

\* invalidate, of the entry of 20 levels without a filter.
Invalidate(t) ==
    /\ t.at = "invalidate"
    /\ memory' = [memory EXCEPT ![t.key] = NoBook]
    /\ redis' = [redis EXCEPT ![t.key] = NoBook]
    /\ Onwards(t, "read")
    /\ UNCHANGED view

\* getOrderBook with forceFresh, or orderBookService's own.
ReadFresh(t) ==
    /\ t.at \in {"read", "read alone"}
    /\ Instead(t, {[t EXCEPT !.at = IF t.at = "read" THEN "store" ELSE "tell", !.book = orders]})
    /\ UNCHANGED <<redis, memory, view>>

\* getOrderBook without: the memory, then Redis, then the table.
ReadThrough(t) ==
    /\ t.at = "look"
    /\ IF memory[t.key] # NoBook
       THEN Instead(t, {[t EXCEPT !.at = "tell", !.book = memory[t.key]]}) /\ UNCHANGED memory
       ELSE IF redis[t.key] # NoBook
       THEN /\ Instead(t, {[t EXCEPT !.at = "tell", !.book = redis[t.key]]})
            /\ memory' = [memory EXCEPT ![t.key] = redis[t.key]]
       ELSE Instead(t, {[t EXCEPT !.at = "store", !.book = orders]}) /\ UNCHANGED memory
    /\ UNCHANGED <<redis, view>>

\* What was read is written back to both layers.
WriteBack(t) ==
    /\ t.at = "store"
    /\ redis' = [redis EXCEPT ![t.key] = t.book]
    /\ memory' = [memory EXCEPT ![t.key] = t.book]
    /\ Onwards(t, "tell")
    /\ UNCHANGED view

Shown(t) == view' = [view EXCEPT !.of = t.key, !.book = t.book]

\* A message is shown by a page that wants its filter or none; the answer of
\* the route by any page, also one that wants another book by now.
Tell(t) ==
    /\ t.at = "tell" /\ t.key # UpdateKey
    /\ IF t.by = "route" \/ view.filter \in {t.key, Whole} THEN Shown(t) ELSE UNCHANGED view
    /\ Instead(t, {})
    /\ UNCHANGED <<redis, memory>>

\* The listener of the event orderbook_update: subscribers without a filter are
\* sent its book, for those with one the book is read again.
TellAll(t) ==
    /\ t.at = "tell" /\ t.key = UpdateKey
    /\ IF Whole \in lists /\ view.filter = Whole
       THEN Shown([t EXCEPT !.key = Whole]) ELSE UNCHANGED view
    /\ Instead(t, {[t EXCEPT !.at = "read", !.key = f, !.book = NoBook] : f \in lists \ {Whole}})
    /\ UNCHANGED <<redis, memory>>

TaskSteps(t) ==
    /\ Invalidate(t) \/ ReadFresh(t) \/ ReadThrough(t) \/ WriteBack(t) \/ Tell(t) \/ TellAll(t)
    /\ UNCHANGED <<orders, lists, views, bookFaults>>

\* A query of the table or a message fails, and the function gives up ...
GivesUp(t) ==
    /\ t.at \in {"read", "read alone", "look", "tell"}
    /\ t.at = "look" => memory[t.key] = NoBook
    /\ Instead(t, {})
    /\ UNCHANGED memory

\* ... or Redis does, which is caught: the table is read, and the memory is
\* written or cleared, without it.
WithoutRedis(t) ==
    \/ /\ t.at = "look" /\ memory[t.key] = NoBook
       /\ Instead(t, {[t EXCEPT !.at = "store", !.book = orders]})
       /\ UNCHANGED memory
    \/ /\ t.at = "store"
       /\ memory' = [memory EXCEPT ![t.key] = t.book]
       /\ Onwards(t, "tell")
    \/ /\ t.at = "invalidate"
       /\ memory' = [memory EXCEPT ![t.key] = NoBook]
       /\ Onwards(t, "read")

TaskFails(t) ==
    /\ bookFaults < MaxBookFaults
    /\ bookFaults' = bookFaults + 1
    /\ GivesUp(t) \/ WithoutRedis(t)
    /\ UNCHANGED <<orders, redis, lists, view, views>>

\* (A mutant: Redis is written without a time to live.)
MemoryExpires(k) ==
    /\ memory[k] # NoBook /\ memory' = [memory EXCEPT ![k] = NoBook]
    /\ UNCHANGED <<orders, redis, tasks, lists, view, views, bookFaults>>

\* setex and expiresAt: an entry lives for a second in Redis, half in memory.
EntryExpires(k) ==
    /\ \/ redis[k] # NoBook /\ redis' = [redis EXCEPT ![k] = NoBook] /\ UNCHANGED memory
       \/ memory[k] # NoBook /\ memory' = [memory EXCEPT ![k] = NoBook] /\ UNCHANGED redis
    /\ UNCHANGED <<orders, tasks, lists, view, views, bookFaults>>

\* The page turns to a book: the effects unsubscribe, which the server does not
\* do where there is a filter, subscribe, and ask the route, which reads the
\* table; handleSubscribe answers through the cache.
WatchBook(filter) ==
    /\ views < MaxViews /\ filter # view.filter
    /\ views' = views + 1
    /\ lists' = (lists \ {Whole}) \cup {filter}
    /\ view' = [filter |-> filter, of |-> "none", book |-> NoBook]
    /\ tasks' = tasks \cup
         {[by |-> "server", at |-> "look", of |-> 0, key |-> filter, book |-> NoBook],
          [by |-> "route", at |-> "read alone", of |-> 0, key |-> filter, book |-> NoBook]}
    /\ UNCHANGED <<orders, redis, memory, bookFaults>>

BookNext ==
    \/ OrdersChange
    \/ \E t \in tasks : TaskSteps(t) \/ TaskFails(t)
    \/ \E k \in Keys : EntryExpires(k)
    \/ \E f \in Filters : WatchBook(f)

-----------------------------------------------------------------------------
StaleEntry == \E k \in Keys : \/ redis[k] # NoBook /\ redis[k] < orders
                              \/ memory[k] # NoBook /\ memory[k] < orders

\* A book that is out of date does not stay in the cache: when the orders stop
\* changing, what is written back late expires and nothing old comes after it.
CacheSettles == <>[]~StaleEntry
=============================================================================
