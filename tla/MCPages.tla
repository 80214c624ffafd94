------------------------------ MODULE MCPages -------------------------------
(***************************************************************************)
(* What a page, or the backend by itself, gets to in the end: signing in,  *)
(* the badge of notifications, the automatic markets, the socket of a page *)
(* and the cached order book.  They share no variable, so a behaviour      *)
(* follows one of them, its focus, and that one is treated fairly.         *)
(***************************************************************************)
EXTENDS Sessions, Notifications, AutoMarkets, Realtime, LiveBook

VARIABLE focus

pages == <<focus, session, notification, automarket, realtime, livebook>>

PagesInit ==
    /\ focus \in {"session", "notices", "automarkets", "realtime", "livebook"}
    /\ SessionInit /\ NoticeInit /\ AutoInit /\ RealtimeInit /\ BookInit

Followed(part) == focus = part /\ UNCHANGED focus

PagesNext ==
    \/ Followed("session") /\ SessionNext
         /\ UNCHANGED <<notification, automarket, realtime, livebook>>
    \/ Followed("notices") /\ NoticeNext
         /\ UNCHANGED <<session, automarket, realtime, livebook>>
    \/ Followed("automarkets") /\ AutoNext
         /\ UNCHANGED <<session, notification, realtime, livebook>>
    \/ Followed("realtime") /\ RealtimeNext
         /\ UNCHANGED <<session, notification, automarket, livebook>>
    \/ Followed("livebook") /\ BookNext
         /\ UNCHANGED <<session, notification, automarket, realtime>>

On(part) == focus = part

\* Timers fire, every call is answered or fails, every continuation runs.  The
\* user may leave a prompt of the wallet open for ever.
SessionFairness ==
    \A do \in Awaited : WF_session(On("session") /\ \E j \in jobs : j.do = do /\ Continue(j))

\* Timers fire, every call is answered or fails and every message is delivered
\* or its socket closes.
NoticeFairness ==
    /\ WF_notification(On("notices") /\ ProcessBatch)
    /\ WF_notification(On("notices") /\ \E p \in working : ProcessNotification(p))
    /\ WF_notification(On("notices") /\ CountExpires)
    /\ WF_notification(On("notices") /\ PollCount)
    /\ WF_notification(On("notices") /\ AddNotification)
    /\ \A do \in {"list", "count", "read", "readAll", "delete"} :
         WF_notification(On("notices") /\ \E a \in asks : a.do = do /\ (Answer(a) \/ Reply(a)))

\* Trades keep coming, the feed is opened again, the timers fire and every
\* query and transaction ends; time passes.
AutoFairness ==
    /\ WF_automarket(On("automarkets") /\ FeedTrade)
    /\ WF_automarket(On("automarkets") /\ FeedReconnects)
    /\ \A r \in Resolvers :
         WF_automarket(On("automarkets") /\ \E kind \in {"resolve", "finalize"} : Poll(r, kind))
    /\ \A m \in AutoMarketIds : WF_automarket(On("automarkets") /\ TimePasses(m))

\* Timers fire, Redis answers, and every message of an open socket arrives.
\* (The steps that one condition names exclude each other.)
RealtimeFairness ==
    /\ WF_realtime(On("realtime") /\ (Connect \/ Opens \/ Greet))
    /\ WF_realtime(On("realtime") /\ CounterExpires)
    /\ WF_realtime(On("realtime") /\ \E r \in removals : RemovalEnds(r))
    /\ \A s \in Sockets :
         /\ WF_realtime(On("realtime") /\ (CheckConnectionLimit(s) \/ Attach(s)))
         /\ WF_realtime(On("realtime") /\ (Unheard(s) \/ HandleMessage(s, 1)))
         /\ WF_realtime(On("realtime") /\ SweepBegins(s))
         /\ WF_realtime(On("realtime") /\ \E event \in {"error", "close"} : HandlerBegins(s, event))

\* Every call is answered, and every entry expires.
BookFairness ==
    /\ WF_livebook(On("livebook") /\ \E t \in tasks : TaskSteps(t))
    /\ \A k \in Keys :
         /\ WF_livebook(On("livebook") /\ redis[k] # NoBook /\ EntryExpires(k) /\ redis' # redis)
         /\ WF_livebook(On("livebook") /\ memory[k] # NoBook /\ EntryExpires(k) /\ memory' # memory)

PagesSpec ==
    /\ PagesInit /\ [][PagesNext]_pages
    /\ SessionFairness /\ NoticeFairness /\ AutoFairness /\ RealtimeFairness /\ BookFairness
=============================================================================
