------------------------------ MODULE LiveFeed ------------------------------
(***************************************************************************)
(* The live feed of flows (services/api/app/routers/stream.py): one        *)
(* handler per WebSocket, its subscription at Redis, and the task that     *)
(* pumps messages to the browser.  The browser may leave between any two   *)
(* steps and Redis may end any connection.                                 *)
(***************************************************************************)
CONSTANTS Sockets

VARIABLES redis,    \* the process found Redis when it started
          feed,     \* per socket: where its handler is
          pump,     \* per socket: "none", "running" or "dead"
          gone,     \* sockets whose browser has left
          subs,     \* sockets with a subscription at Redis
          held,     \* sockets whose pubsub holds a connection of the pool
          hasty,    \* (history) left before "ready" could be sent
          cut       \* (history) Redis was away when it subscribed or unsubscribed

link == <<subs, held>>
feedVars == <<redis, feed, pump, gone, link, hasty, cut>>

Places == {"closed", "accepted", "quiet", "subscribed", "serving", "leaving", "ended"}

FeedInit == /\ redis \in BOOLEAN
            /\ feed = [w \in Sockets |-> "closed"]
            /\ pump = [w \in Sockets |-> "none"]
            /\ gone = {} /\ subs = {} /\ held = {} /\ hasty = {} /\ cut = {}

Goto(w, place) == feed' = [feed EXCEPT ![w] = place]

-----------------------------------------------------------------------------
(* The token is verified before the handshake is accepted, and never again. *)
Handshake(w) == /\ feed[w] = "closed"
                /\ \E valid \in BOOLEAN : Goto(w, IF valid THEN "accepted" ELSE "ended")
                /\ UNCHANGED <<redis, pump, gone, link, hasty, cut>>

(* Without Redis the socket is told so and kept: its browser polls.  A      *)
(* browser that has left ends the handler, here or at its next read.       *)
Warn(w) == /\ feed[w] = "accepted" /\ ~redis
           /\ Goto(w, IF w \in gone THEN "ended" ELSE "quiet")
           /\ UNCHANGED <<redis, pump, gone, link, hasty, cut>>
QuietEnds(w) == /\ feed[w] = "quiet" /\ w \in gone
                /\ Goto(w, "ended")
                /\ UNCHANGED <<redis, pump, gone, link, hasty, cut>>

(* pubsub.subscribe takes a connection of the pool, or raises: without one, *)
(* or when it cannot send on the one it has taken.                         *)
Subscribe(w) == /\ feed[w] = "accepted" /\ redis
                /\ \/ /\ Goto(w, "subscribed")
                      /\ subs' = subs \cup {w} /\ held' = held \cup {w} /\ UNCHANGED cut
                   \/ Goto(w, "ended") /\ UNCHANGED <<link, cut>>
                   \/ /\ Goto(w, "ended") /\ held' = held \cup {w} /\ UNCHANGED subs
                      /\ cut' = cut \cup {w}
                /\ UNCHANGED <<redis, pump, gone, hasty>>

(* "ready" is sent outside the try: when the browser has left, the          *)
(* exception ends the handler without its finally.                         *)
SendReady(w) == /\ feed[w] = "subscribed"
                /\ IF w \in gone
                   THEN Goto(w, "ended") /\ hasty' = hasty \cup {w} /\ UNCHANGED pump
                   ELSE Goto(w, "serving") /\ pump' = [pump EXCEPT ![w] = "running"]
                        /\ UNCHANGED hasty
                /\ UNCHANGED <<redis, gone, link, cut>>

(* The pump sends to a browser that has left, or its connection to Redis    *)
(* ends and the library does not resume: the task ends with an exception   *)
(* nobody reads, and the handler goes on.                                  *)
PumpDies(w) == /\ pump[w] = "running"
               /\ w \in gone \/ w \notin subs
               /\ pump' = [pump EXCEPT ![w] = "dead"]
               /\ UNCHANGED <<redis, feed, gone, link, hasty, cut>>

\* Mutant of Disconnect: a handler whose pump is dead does not clean up.
DisconnectDead(w) == /\ feed[w] = "serving" /\ w \in gone
                     /\ Goto(w, IF pump[w] = "dead" THEN "ended" ELSE "leaving")
                     /\ UNCHANGED <<redis, pump, gone, link, hasty, cut>>

(* receive_text raises WebSocketDisconnect or anything else. *)
Disconnect(w) == /\ feed[w] = "serving" /\ w \in gone
                 /\ Goto(w, "leaving")
                 /\ UNCHANGED <<redis, pump, gone, link, hasty, cut>>

(* The finally: the pump is cancelled, unsubscribe and aclose share one     *)
(* suppress, so that an error of the first skips the second.               *)
CleanUp(w) == /\ feed[w] = "leaving"
              /\ Goto(w, "ended")
              /\ pump' = [pump EXCEPT ![w] = "dead"]
              /\ \/ subs' = subs \ {w} /\ held' = held \ {w} /\ UNCHANGED cut
                 \/ w \notin subs /\ cut' = cut \cup {w} /\ UNCHANGED link
              /\ UNCHANGED <<redis, gone, hasty>>

(* External: the browser leaves, Redis ends a connection, and the library   *)
(* connects and subscribes again.                                          *)
Leave(w) == /\ feed[w] # "closed" /\ w \notin gone
            /\ gone' = gone \cup {w}
            /\ UNCHANGED <<redis, feed, pump, link, hasty, cut>>
Drop(w) == /\ w \in subs
           /\ subs' = subs \ {w}
           /\ UNCHANGED <<redis, feed, pump, gone, held, hasty, cut>>
Resume(w) == /\ w \in held \ subs /\ pump[w] = "running"
             /\ subs' = subs \cup {w}
             /\ UNCHANGED <<redis, feed, pump, gone, held, hasty, cut>>

Opening(w) == Handshake(w) \/ Warn(w) \/ Subscribe(w) \/ SendReady(w)
Closing(w) == QuietEnds(w) \/ Disconnect(w) \/ CleanUp(w)

FeedNext == \E w \in Sockets : \/ Opening(w) \/ PumpDies(w) \/ Closing(w)
                               \/ Leave(w) \/ Drop(w) \/ Resume(w)

FeedSpec == FeedInit /\ [][FeedNext]_feedVars

(* The event loop runs every handler, and its reads notice a browser that  *)
(* has left.                                                               *)
FeedFairness == \A w \in Sockets : WF_feedVars(Opening(w)) /\ WF_feedVars(Closing(w))
FeedFairSpec == FeedSpec /\ FeedFairness

-----------------------------------------------------------------------------
(* Every variable has its type, and who has a subscription holds a          *)
(* connection.                                                             *)
FeedTypeOK == /\ redis \in BOOLEAN
              /\ feed \in [Sockets -> Places]
              /\ pump \in [Sockets -> {"none", "running", "dead"}]
              /\ gone \subseteq Sockets /\ hasty \subseteq gone /\ cut \subseteq Sockets
              /\ subs \subseteq held /\ held \subseteq Sockets

(* A browser that leaves ends its handler, and a handler that has ended     *)
(* leaves no subscription and no connection of the pool behind, however    *)
(* browsers, Redis and the pump come and go.  Three leaks are in the code:  *)
(* the browser leaves between the subscription and "ready", and Redis is   *)
(* away at the subscription, or at the clean-up.                           *)
FeedsAreReleased ==
    \A w \in Sockets :
        w \in gone ~> /\ feed[w] = "ended"
                      /\ w \in subs => w \in hasty
                      /\ w \in held => w \in hasty \cup cut
=============================================================================
