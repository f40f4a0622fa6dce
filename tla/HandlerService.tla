--------------------------- MODULE HandlerService ---------------------------
(* The client handlers of MainServer.tla, seen from their clients.           *)
EXTENDS MainServer

Stage(c) ==
  IF pc[c] \in {"fresh", "closed", "dead"} THEN pc[c]
  ELSE IF pc[c] = "main_anonymous" THEN "anonymous"
  ELSE IF pc[c] = "main_ready" THEN "ready"
  ELSE "busy"

Serving(c) == INSTANCE Service
                WITH stage <- Stage(c), doing <- rqst[c].type, reply <- out[c].type

\* Each handler keeps the promise of Service.tla to its client, whatever the
\* other threads do to its queue, its tables and its server: one answer at most
\* to each request, of the kind that the client is waiting for.
HandlersServe ==
  /\ \A c \in Thr : Serving(c)!ServiceInit
  /\ [][\A c \in Thr :
          Serving(c)!Step \/ UNCHANGED <<Stage(c), rqst[c].type, out[c].type>>]_vars
=============================================================================
