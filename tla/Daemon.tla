------------------------------- MODULE Daemon -------------------------------
(***************************************************************************)
(* The query daemon (sector-serve/src/server.rs): a fixed pool of workers  *)
(* that poll two listeners, hold a connection for its lifetime, answer its *)
(* requests one by one, fold what they read into counters shared under a   *)
(* mutex, and leave when the shutdown flag is set.                         *)
(*                                                                         *)
(* A request is what `route` distinguishes about it.  Reading storage is   *)
(* one unit per query or record; the shared storage total is kept by the   *)
(* worker that added to it, and /stats shows the sum of the parts.         *)
(***************************************************************************)
EXTENDS Integers, Sequences, FiniteSetsExt

CONSTANTS
  Workers,          \* worker threads
  Connections,      \* connections clients may make
  Transport,        \* the listener each connection arrives on
  Wake,             \* the connection `shutdown` makes to wake a listener
  Kinds,            \* the kinds of request clients send
  MaxBatch,         \* bound: queries in one /search body
  MaxRequests,      \* bound: requests sent in all
  MaxOpenFailures   \* bound: workers whose volume cannot be opened

Listener == {"unix", "tcp"}

ASSUME WorkersAssumption == IsFiniteSet(Workers) /\ Workers # {}
ASSUME TransportAssumption == Transport \in [Connections -> Listener]
ASSUME WakeAssumption == Wake \notin Connections
ASSUME BoundsAssumption ==
  /\ MaxBatch \in Nat /\ MaxRequests \in Nat /\ MaxOpenFailures \in Nat

\* search: a /search body that decodes; badBody: one that does not; read: a
\* /vectors or /ready that reads a record; stats; other: a route that touches
\* neither storage nor counters; malformed: refused by the parser.
RequestKind == {"search", "badBody", "read", "stats", "other", "malformed"}
ASSUME KindsAssumption == Kinds \subseteq RequestKind

VARIABLES
  shutdown,    \* the flag
  stopped,     \* `run` has returned and the listeners are closed
  backlog,     \* connections waiting in each listener
  conn,        \* each connection: its state, what it sent and got
  pc,          \* where each worker is
  job,         \* what each worker is doing on its connection
  delta,       \* storage reads of each worker not yet folded
  counters,    \* the counters all workers share
  failures,    \* workers that could not open the volume
  performed,   \* history: every storage read of each worker
  receipts     \* history: what the responses clients have got account for

connVars == <<backlog, conn>>
workVars == <<pc, job, delta>>
histVars == <<performed, receipts>>
vars == <<shutdown, stopped, connVars, workVars, counters, failures, histVars>>

---------------------------------------------------------------------------
NoReads == [w \in Workers |-> 0]
NoTally == [requests |-> 0, queries |-> 0, storage |-> NoReads]
NoCounters == [requests |-> 0, queries |-> 0, rejected |-> 0, storage |-> NoReads]

\* History: `floor`, the receipts when a /stats request was sent.
Request(kind, size, keep, floor) ==
  [kind |-> kind, size |-> size, keep |-> keep, floor |-> floor]

NoRequest == Request("none", 0, FALSE, NoTally)

\* The connection a worker holds and the listener it came from; the request it
\* is serving, `keep` as the worker computed it, the queries answered and reads
\* made for it, whether it ended in an engine error, and the /stats body.
Job(c, l, request, keep) ==
  [conn |-> c, from |-> l, request |-> request, keep |-> keep,
   answered |-> 0, reads |-> 0, failed |-> FALSE, body |-> NoTally]

NoJob == Job(Wake, "unix", NoRequest, FALSE)

NewConnection == [state |-> "off", inbox |-> <<>>, sent |-> 0, gone |-> FALSE,
                  got |-> 0]

Init ==
  /\ shutdown = FALSE
  /\ stopped = FALSE
  /\ backlog = [l \in Listener |-> <<>>]
  /\ conn = [c \in Connections |-> NewConnection]
  /\ pc = [w \in Workers |-> "opening"]
  /\ job = [w \in Workers |-> NoJob]
  /\ delta = NoReads
  /\ counters = NoCounters
  /\ failures = 0
  /\ performed = NoReads
  /\ receipts = NoTally

---------------------------------------------------------------------------
(***************************************************************************)
(* Steps shared by the workers' actions.                                   *)
(***************************************************************************)
Goto(w, label) == pc' = [pc EXCEPT ![w] = label]

\* The client got a response to the request in hand.
Answer(w) == conn' = [conn EXCEPT ![job[w].conn].got = @ + 1]

\* handle_connection returns and drops the stream; the loop goes on to the
\* other listener, or back to its top.
Leave(w, got) ==
  /\ Goto(w, IF job[w].from = "unix" THEN "tcp" ELSE "unix")
  /\ job' = [job EXCEPT ![w] = NoJob]
  /\ conn' = [c \in Connections |->
                IF c = job[w].conn
                THEN [conn[c] EXCEPT !.state = "closed", !.inbox = <<>>,
                                     !.got = @ + got]
                ELSE conn[c]]

\* Whether the client is there to take a response.
Connected(w) ==
  job[w].conn \in Connections /\ ~conn[job[w].conn].gone

\* One read of storage by worker w for the request in hand.
ReadStorage(w) ==
  /\ delta' = [delta EXCEPT ![w] = @ + 1]
  /\ performed' = [performed EXCEPT ![w] = @ + 1]

---------------------------------------------------------------------------
(***************************************************************************)
(* The accept loop.                                                        *)
(***************************************************************************)

\* A worker that cannot open the volume says so on stderr and is gone.
Open(w) ==
  /\ pc[w] = "opening"
  /\ \/ /\ Goto(w, "unix")
        /\ UNCHANGED failures
     \/ /\ failures < MaxOpenFailures
        /\ failures' = failures + 1
        /\ Goto(w, "exited")
  /\ UNCHANGED <<shutdown, stopped, connVars, job, delta, counters, histVars>>

TakeFirst(w, l) ==
  /\ backlog[l] # <<>>
  /\ backlog' = [backlog EXCEPT ![l] = Tail(@)]
  /\ job' = [job EXCEPT ![w] = Job(Head(backlog[l]), l, NoRequest, FALSE)]
  /\ conn' = [c \in Connections |->
                IF c = Head(backlog[l]) THEN [conn[c] EXCEPT !.state = "open"]
                ELSE conn[c]]
  /\ Goto(w, "reading")

\* Accept without blocking, or go on to `next`.
Accept(w, l, next) ==
  \/ TakeFirst(w, l)
  \/ /\ backlog[l] = <<>>
     /\ Goto(w, next)
     /\ UNCHANGED <<job, connVars>>

\* Fault: accept waits for a connection, and the flag is read when one comes.
PollUnixIncoming(w) ==
  /\ pc[w] = "unix"
  /\ backlog["unix"] # <<>>
  /\ \/ /\ shutdown
        /\ backlog' = [backlog EXCEPT !["unix"] = Tail(@)]
        /\ Goto(w, "exited")
        /\ UNCHANGED <<job, conn>>
     \/ /\ ~shutdown
        /\ TakeFirst(w, "unix")
  /\ UNCHANGED <<shutdown, stopped, delta, counters, failures, histVars>>

\* The top of the loop, where the flag is read, and the Unix listener.
PollUnix(w) ==
  /\ pc[w] = "unix"
  /\ \/ /\ shutdown
        /\ Goto(w, "exited")
        /\ UNCHANGED <<job, connVars>>
     \/ /\ ~shutdown
        /\ Accept(w, "unix", "tcp")
  /\ UNCHANGED <<shutdown, stopped, delta, counters, failures, histVars>>

PollTcp(w) ==
  /\ pc[w] = "tcp"
  /\ Accept(w, "tcp", "unix")
  /\ UNCHANGED <<shutdown, stopped, delta, counters, failures, histVars>>

---------------------------------------------------------------------------
(***************************************************************************)
(* handle_connection and route.                                            *)
(***************************************************************************)
Inbox(w) == IF job[w].conn \in Connections THEN conn[job[w].conn].inbox ELSE <<>>

\* The flag is read between the request and its answer.
KeepAlive(request) == request.keep /\ ~shutdown

\* A request that parses.
Read(w) ==
  /\ pc[w] = "reading"
  /\ Inbox(w) # <<>>
  /\ LET request == Head(Inbox(w)) IN
       /\ request.kind # "malformed"
       /\ job' = [job EXCEPT ![w] = Job(@.conn, @.from, request,
                                        KeepAlive(request))]
       /\ conn' = [conn EXCEPT ![job[w].conn].inbox = Tail(@)]
  /\ Goto(w, "route")
  /\ UNCHANGED <<shutdown, stopped, backlog, delta, counters, failures, histVars>>

\* A request the parser refuses is counted and answered, and the connection
\* closed: the stream position is not to be trusted.
Reject(w) ==
  /\ pc[w] = "reading"
  /\ Inbox(w) # <<>>
  /\ Head(Inbox(w)).kind = "malformed"
  /\ counters' = [counters EXCEPT !.rejected = @ + 1]
  /\ Leave(w, IF Connected(w) THEN 1 ELSE 0)
  /\ UNCHANGED <<shutdown, stopped, backlog, delta, failures, histVars>>

\* The client closed, or `shutdown` made the connection only to wake us.
ReadClosed(w) ==
  /\ pc[w] = "reading"
  /\ Inbox(w) = <<>>
  /\ ~Connected(w)
  /\ Leave(w, 0)
  /\ UNCHANGED <<shutdown, stopped, backlog, delta, counters, failures, histVars>>

\* Fault: no read timeout is set on the stream.
ReadForever(w) ==
  /\ pc[w] = "reading"
  /\ FALSE
  /\ UNCHANGED vars

\* READ_TIMEOUT passes in silence.
ReadTimeout(w) ==
  /\ pc[w] = "reading"
  /\ Inbox(w) = <<>>
  /\ Connected(w)
  /\ Leave(w, 0)
  /\ UNCHANGED <<shutdown, stopped, backlog, delta, counters, failures, histVars>>

Kind(w) == job[w].request.kind

RouteOther(w) ==
  /\ pc[w] = "route" /\ Kind(w) = "other"
  /\ Goto(w, "fold")
  /\ UNCHANGED <<shutdown, stopped, connVars, job, delta, counters, failures,
                 histVars>>

RouteRead(w) ==
  /\ pc[w] = "route" /\ Kind(w) = "read"
  /\ ReadStorage(w)
  /\ job' = [job EXCEPT ![w].reads = @ + 1]
  /\ Goto(w, "fold")
  /\ UNCHANGED <<shutdown, stopped, connVars, counters, failures, receipts>>

\* Fault: a difference, taken the wrong way round.
FoldDifference(w) == [counters.storage EXCEPT ![w] = delta[w] - @]

\* A worker's reads are moved to the shared total, once.
FoldInto(w) == [counters.storage EXCEPT ![w] = @ + delta[w]]

Shown(storage) ==
  [requests |-> counters.requests, queries |-> counters.queries,
   storage |-> storage]

RouteStats(w) ==
  /\ pc[w] = "route" /\ Kind(w) = "stats"
  /\ delta' = [delta EXCEPT ![w] = 0]
  /\ counters' = [counters EXCEPT !.storage = FoldInto(w)]
  /\ job' = [job EXCEPT ![w].body = Shown(FoldInto(w))]
  /\ Goto(w, "fold")
  /\ UNCHANGED <<shutdown, stopped, connVars, failures, histVars>>

RouteSearch(w) ==
  /\ pc[w] = "route" /\ Kind(w) \in {"search", "badBody"}
  /\ \/ /\ Kind(w) = "search"
        /\ Goto(w, "query")
        /\ UNCHANGED counters
     \/ /\ Kind(w) = "badBody"
        /\ counters' = [counters EXCEPT !.rejected = @ + 1]
        /\ Goto(w, "fold")
  /\ UNCHANGED <<shutdown, stopped, connVars, job, delta, failures, histVars>>

\* Fault: a worker gives up its batch when the flag is set.
QueryUnlessShutdown(w) ==
  /\ pc[w] = "query"
  /\ \/ /\ shutdown
        /\ Leave(w, 0)
        /\ UNCHANGED <<delta, performed>>
     \/ /\ ~shutdown
        /\ ReadStorage(w)
        /\ job' = [job EXCEPT ![w].reads = @ + 1, ![w].answered = @ + 1]
        /\ Goto(w, IF job[w].answered + 1 = job[w].request.size THEN "tally"
                   ELSE "query")
        /\ UNCHANGED conn
  /\ UNCHANGED <<shutdown, stopped, backlog, counters, failures, receipts>>

\* The next query of the batch is answered, or fails, before or after reading,
\* and with it the whole request.
Query(w) ==
  /\ pc[w] = "query"
  /\ \/ /\ ReadStorage(w)
        /\ job' = [job EXCEPT ![w].reads = @ + 1, ![w].answered = @ + 1]
        /\ Goto(w, IF job[w].answered + 1 = job[w].request.size THEN "tally"
                   ELSE "query")
     \/ /\ ReadStorage(w)
        /\ job' = [job EXCEPT ![w].reads = @ + 1, ![w].failed = TRUE]
        /\ Goto(w, "fold")
     \/ /\ job' = [job EXCEPT ![w].failed = TRUE]
        /\ Goto(w, "fold")
        /\ UNCHANGED <<delta, performed>>
  /\ UNCHANGED <<shutdown, stopped, connVars, counters, failures, receipts>>

\* Fault: a batch is counted as one query.
TallyOne(w) ==
  /\ pc[w] = "tally"
  /\ counters' = [counters EXCEPT !.queries = @ + 1]
  /\ Goto(w, "fold")
  /\ UNCHANGED <<shutdown, stopped, connVars, job, delta, failures, histVars>>

\* The batch is counted, under the mutex.
Tally(w) ==
  /\ pc[w] = "tally"
  /\ counters' = [counters EXCEPT !.queries = @ + job[w].answered]
  /\ Goto(w, "fold")
  /\ UNCHANGED <<shutdown, stopped, connVars, job, delta, failures, histVars>>

\* Faults: storage is left with the worker, as it was before it was shared;
\* the worker's reads are added and not reset.
FoldRequest(w) ==
  /\ pc[w] = "fold"
  /\ counters' = [counters EXCEPT !.requests = @ + 1]
  /\ Goto(w, "write")
  /\ UNCHANGED <<shutdown, stopped, connVars, job, delta, failures, histVars>>

FoldTwice(w) ==
  /\ pc[w] = "fold"
  /\ counters' = [counters EXCEPT !.requests = @ + 1, !.storage = FoldInto(w)]
  /\ Goto(w, "write")
  /\ UNCHANGED <<shutdown, stopped, connVars, job, delta, failures, histVars>>

Fold(w) ==
  /\ pc[w] = "fold"
  /\ counters' = [counters EXCEPT !.requests = @ + 1, !.storage = FoldInto(w)]
  /\ delta' = [delta EXCEPT ![w] = 0]
  /\ Goto(w, "write")
  /\ UNCHANGED <<shutdown, stopped, connVars, job, failures, histVars>>

\* The response is flushed, or the client does not take it before it is gone
\* or WRITE_TIMEOUT passes.
Receipt(w) ==
  [receipts EXCEPT !.requests = @ + 1,
                   !.queries = @ + (IF job[w].failed THEN 0 ELSE job[w].answered),
                   !.storage[w] = @ + job[w].reads]

\* Fault: the error of the write is returned out of the loop.
WriteReturns(w) ==
  /\ pc[w] = "write"
  /\ \/ /\ ~Connected(w)
        /\ Goto(w, "exited")
        /\ UNCHANGED <<conn, job, receipts>>
     \/ /\ Connected(w)
        /\ receipts' = Receipt(w)
        /\ \/ /\ job[w].keep
              /\ Goto(w, "reading")
              /\ job' = [job EXCEPT ![w] = Job(@.conn, @.from, NoRequest, FALSE)]
              /\ Answer(w)
           \/ /\ ~job[w].keep
              /\ Leave(w, 1)
  /\ UNCHANGED <<shutdown, stopped, backlog, delta, counters, failures,
                 performed>>

Write(w) ==
  /\ pc[w] = "write"
  /\ \/ /\ ~Connected(w)
        /\ Leave(w, 0)
        /\ UNCHANGED receipts
     \/ /\ Connected(w)
        /\ receipts' = Receipt(w)
        /\ \/ /\ job[w].keep
              /\ Goto(w, "reading")
              /\ job' = [job EXCEPT ![w] = Job(@.conn, @.from, NoRequest, FALSE)]
              /\ Answer(w)
           \/ /\ ~job[w].keep
              /\ Leave(w, 1)
  /\ UNCHANGED <<shutdown, stopped, backlog, delta, counters, failures,
                 performed>>

Step(w) ==
  \/ Open(w) \/ PollUnix(w) \/ PollTcp(w)
  \/ Read(w) \/ Reject(w) \/ ReadClosed(w)
  \/ RouteOther(w) \/ RouteRead(w) \/ RouteStats(w) \/ RouteSearch(w)
  \/ Query(w) \/ Tally(w) \/ Fold(w) \/ Write(w)

---------------------------------------------------------------------------
(***************************************************************************)
(* Clients, shutdown, and the end of `run`.                                *)
(***************************************************************************)
Connect(c) ==
  /\ conn[c].state = "off"
  /\ ~stopped
  /\ conn' = [conn EXCEPT ![c].state = "queued"]
  /\ backlog' = [backlog EXCEPT ![Transport[c]] = Append(@, c)]
  /\ UNCHANGED <<shutdown, stopped, workVars, counters, failures, histVars>>

\* A client may send its next request before it has the last answer.
Send(c, kind, size, keep) ==
  /\ conn[c].state \in {"queued", "open"}
  /\ ~conn[c].gone
  /\ MapThenSumSet(LAMBDA d : conn[d].sent, Connections) < MaxRequests
  /\ LET floor == IF kind = "stats" THEN receipts ELSE NoTally IN
       conn' = [conn EXCEPT
                  ![c].sent = @ + 1,
                  ![c].inbox = Append(@, Request(kind, size, keep, floor))]
  /\ UNCHANGED <<shutdown, stopped, backlog, workVars, counters, failures,
                 histVars>>

\* The client closes its end, or stops reading for longer than WRITE_TIMEOUT.
Hangup(c) ==
  /\ conn[c].state \in {"queued", "open"}
  /\ ~conn[c].gone
  /\ conn' = [conn EXCEPT ![c].gone = TRUE]
  /\ UNCHANGED <<shutdown, stopped, backlog, workVars, counters, failures,
                 histVars>>

\* The flag is set and each listener is connected to, once.
Shutdown ==
  /\ ~shutdown
  /\ ~stopped
  /\ shutdown' = TRUE
  /\ backlog' = [l \in Listener |-> Append(backlog[l], Wake)]
  /\ UNCHANGED <<stopped, conn, workVars, counters, failures, histVars>>

\* Every worker is joined: `run` returns, and with the server its listeners
\* and its socket file go.
Stop ==
  /\ ~stopped
  /\ \A w \in Workers : pc[w] = "exited"
  /\ stopped' = TRUE
  /\ backlog' = [l \in Listener |-> <<>>]
  /\ conn' = [c \in Connections |->
                IF conn[c].state = "queued"
                THEN [conn[c] EXCEPT !.state = "closed", !.inbox = <<>>]
                ELSE conn[c]]
  /\ UNCHANGED <<shutdown, workVars, counters, failures, histVars>>

Sizes(kind) == IF kind = "search" THEN 1 .. MaxBatch ELSE {0}

Next ==
  \/ \E w \in Workers : Step(w)
  \/ \E w \in Workers : ReadTimeout(w)
  \/ \E c \in Connections : Connect(c)
  \/ \E c \in Connections, kind \in Kinds, keep \in BOOLEAN :
       \E size \in Sizes(kind) : Send(c, kind, size, keep)
  \/ \E c \in Connections : Hangup(c)
  \/ Shutdown
  \/ Stop

Spec == Init /\ [][Next]_vars

\* The kernel schedules every thread, a silent stream times out, and the main
\* thread joins the workers.
FairSpec ==
  /\ Spec
  /\ \A w \in Workers : WF_vars(Step(w)) /\ WF_vars(ReadTimeout(w))
  /\ WF_vars(Stop)

---------------------------------------------------------------------------
(***************************************************************************)
(* Properties.                                                             *)
(***************************************************************************)
PcLabel == {"opening", "unix", "tcp", "reading", "route", "query", "tally",
            "fold", "write", "exited"}

TallyRecord == [requests : Nat, queries : Nat, storage : [Workers -> Nat]]

RequestRecord == [kind : RequestKind \cup {"none"}, size : Nat, keep : BOOLEAN,
                  floor : TallyRecord]

JobRecord == [conn : Connections \cup {Wake}, from : Listener,
              request : RequestRecord, keep : BOOLEAN, answered : Nat,
              reads : Nat, failed : BOOLEAN, body : TallyRecord]

ConnectionRecord == [state : {"off", "queued", "open", "closed"},
                     inbox : Seq(RequestRecord), sent : Nat, gone : BOOLEAN,
                     got : Nat]

\* The variables keep their types.
TypeOK ==
  /\ shutdown \in BOOLEAN
  /\ stopped \in BOOLEAN
  /\ backlog \in [Listener -> Seq(Connections \cup {Wake})]
  /\ conn \in [Connections -> ConnectionRecord]
  /\ pc \in [Workers -> PcLabel]
  /\ job \in [Workers -> JobRecord]
  /\ delta \in [Workers -> Nat]
  /\ counters \in [requests : Nat, queries : Nat, rejected : Nat,
                   storage : [Workers -> Nat]]
  /\ failures \in Nat
  /\ performed \in [Workers -> Nat]
  /\ receipts \in TallyRecord

\* No read is lost from the storage total or counted twice: what a worker has
\* folded and what it still holds is what it has read (server.rs, the comment
\* on folding storage deltas).
StorageConserved ==
  \A w \in Workers : counters.storage[w] + delta[w] = performed[w]

\* A /stats body accounts for every response any client had when the request
\* was sent, whichever worker serves it, and for nothing that did not happen
\* (api.rs, `Storage`: a scrape must not land on an idle worker and report 0).
AtMost(a, b) ==
  /\ a.requests <= b.requests
  /\ a.queries <= b.queries
  /\ \A w \in Workers : a.storage[w] <= b.storage[w]

StatsExact ==
  \A w \in Workers :
    pc[w] \in {"fold", "write"} /\ Kind(w) = "stats" =>
      /\ AtMost(job[w].request.floor, job[w].body)
      /\ AtMost(job[w].body, [requests |-> counters.requests,
                              queries |-> counters.queries,
                              storage |-> performed])

\* A request a worker has read is not cut short: it is left only with the
\* response written, unless the client does not take it (server.rs, "must not
\* cut a query in half").
Serving == {"route", "query", "tally", "fold", "write"}

InFlightAnswered ==
  [][\A w \in Workers :
       pc[w] \in Serving /\ pc'[w] \notin Serving /\ Connected(w) =>
         conn'[job[w].conn].got = conn[job[w].conn].got + 1]_vars

\* After the flag is set the daemon ends: every worker leaves its loop, though
\* each listener is woken only once (server.rs, `serve_loop`).
ShutdownStops == shutdown ~> stopped

\* A connection in a backlog is taken by a worker, though silent clients hold
\* every worker, or the daemon stops (server.rs, "The timeout is the bound that
\* makes a fixed pool safe").  It is owed only while the other clients' requests
\* are finitely many, which MaxRequests sees to: one that sends a request within
\* every 30 s on a kept-alive connection keeps its worker for ever.
QueuedServed ==
  \A c \in Connections : conn[c].state = "queued" ~> conn[c].state # "queued"

\* The daemon serves until it is asked to stop: no failed request, refused
\* parse or vanished client ends a worker, and one that could open the volume
\* goes on alone (server.rs, `run`, "Serve until shutdown").
StopsWhenAsked == stopped => shutdown \/ failures = Cardinality(Workers)

=============================================================================
