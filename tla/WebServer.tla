------------------------------ MODULE WebServer ------------------------------
(* The web server plugin (packages/host-webserver/src/index.ts) with the     *)
(* static fallback of the console (packages/bundle-web-app/src/index.ts) and *)
(* the event stream of the gateway as the requests that stay open.  One path *)
(* stands for the routes of the gateway, whose activations follow each other.*)
EXTENDS Naturals

CONSTANTS
    Requests,
    Owners,     \* activations of the gateway plugin
    Nobody

OwnersAssumption == Nobody \notin Owners

VARIABLES
    server,     \* listening, closing or closed
    route,      \* the owner of the path
    fallback,   \* the console's handler is registered
    over,       \* activations that were disposed
    req,        \* where the answer of a request is
    handler,    \* who handles it
    heads       \* response heads written to it

webVars == <<server, route, fallback, over, req, handler, heads>>

Static == "static"
Settled == {"idle", "answered", "destroyed"}

Init ==
    /\ server = "listening" /\ route = Nobody /\ fallback = TRUE /\ over = {}
    /\ req = [r \in Requests |-> "idle"]
    /\ handler = [r \in Requests |-> Nobody]
    /\ heads = [r \in Requests |-> 0]

\* Bug: a registered path is taken over.
Free_TakenOver == TRUE

\* register throws for a path that is registered.
Free == route = Nobody

Register(o) ==
    /\ server = "listening" /\ o \notin over /\ Free
    /\ route' = o
    /\ UNCHANGED <<server, fallback, over, req, handler, heads>>

\* Bug: the streams of the gateway stay open.
EndStreams_Not(o) == UNCHANGED req

EndStreams(o) ==
    req' = [r \in Requests |->
               IF req[r] = "streaming" /\ handler[r] = o THEN "answered" ELSE req[r]]

\* The gateway's effect: the path goes, whoever registered it, and the streams end.
Dispose(o) ==
    /\ o \notin over /\ route # Nobody
    /\ route' = Nobody /\ over' = over \cup {o}
    /\ EndStreams(o)
    /\ UNCHANGED <<server, fallback, handler, heads>>

Answers(r, head) ==
    /\ req' = [req EXCEPT ![r] = "answered"]
    /\ heads' = [heads EXCEPT ![r] = @ + head]
    /\ UNCHANGED handler

\* A request: refused for its Host or Origin, without a handler, of a method the
\* route does not answer, or handed to its handler.
Arrive(r) ==
    /\ server = "listening" /\ req[r] = "idle"
    /\ \/ Answers(r, 1)
       \/ \E h \in {route} \cup (IF fallback THEN {Static} ELSE {}) :
             /\ h # Nobody
             /\ handler' = [handler EXCEPT ![r] = h]
             /\ \/ req' = [req EXCEPT ![r] = "handling"] /\ UNCHANGED heads
                \/ /\ h # Static
                   /\ req' = [req EXCEPT ![r] = "streaming"]
                   /\ heads' = [heads EXCEPT ![r] = @ + 1]
    /\ UNCHANGED <<server, route, fallback, over>>

\* sendFile and the streaming answers write the head before the body.
WriteHead(r) ==
    /\ req[r] \in {"handling", "index"}
    /\ req' = [req EXCEPT ![r] = "body"]
    /\ heads' = [heads EXCEPT ![r] = @ + 1]
    /\ UNCHANGED <<server, route, fallback, over, handler>>

End(r) ==
    /\ \/ req[r] = "handling" /\ handler[r] # Static /\ Answers(r, 1)
       \/ req[r] = "body" /\ Answers(r, 0)
    /\ UNCHANGED <<server, route, fallback, over>>

\* Bug: a file that breaks off is replaced by the console's page.
HeadersSent_Ignored(r) == FALSE

HeadersSent(r) == heads[r] > 0

\* A requested file cannot be sent: the console's page is sent instead, unless
\* the head of the file is on the wire.
FileFails(r) ==
    /\ handler[r] = Static /\ req[r] \in {"handling", "body"}
    /\ ~HeadersSent(r)
    /\ req' = [req EXCEPT ![r] = "index"]
    /\ UNCHANGED <<server, route, fallback, over, handler, heads>>

\* A handler throws or rejects.
Throws(r) ==
    /\ req[r] \in {"handling", "index", "body"}
    /\ IF HeadersSent(r)
       THEN req' = [req EXCEPT ![r] = "destroyed"] /\ UNCHANGED <<heads, handler>>
       ELSE Answers(r, 1)
    /\ UNCHANGED <<server, route, fallback, over>>

\* The browser goes away; the gateway forgets its stream.
ClientGone(r) ==
    /\ req[r] \notin Settled
    /\ req' = [req EXCEPT ![r] = "destroyed"]
    /\ UNCHANGED <<server, route, fallback, over, handler, heads>>

\* Cordis disposes the plugins that inject the server first.
Close ==
    /\ server = "listening" /\ route = Nobody
    /\ server' = "closing" /\ fallback' = FALSE
    /\ UNCHANGED <<route, over, req, handler, heads>>

\* server.close waits for the open connections.
Closed ==
    /\ server = "closing" /\ \A r \in Requests : req[r] \in Settled
    /\ server' = "closed"
    /\ UNCHANGED <<route, fallback, over, req, handler, heads>>

Proceeds(r) == End(r) \/ Throws(r)

Next ==
    \/ \E o \in Owners : Register(o) \/ (route = o /\ Dispose(o))
    \/ \E r \in Requests : Arrive(r) \/ WriteHead(r) \/ Proceeds(r) \/ FileFails(r) \/ ClientGone(r)
    \/ Close \/ Closed

\* Handlers settle; a stream need never end by itself.
Fairness == WF_webVars(Closed) /\ \A r \in Requests : WF_webVars(Proceeds(r))

-----------------------------------------------------------------------------
\* A response has one head, whichever of the handler, the fallback and the
\* server's own error path writes it.
HeadOnce ==
  [][\A r \in Requests : heads[r]' <= 1 /\ (req[r]' = "answered" => heads[r]' = 1)]_webVars

\* The path of an activation goes with that activation.
RouteOwned == [][\A o \in Owners : route = o /\ route' # o => o \in over']_webVars

\* Closing the server returns although consoles keep their event streams open.
CloseReturns == server = "closing" ~> server = "closed"
=============================================================================
