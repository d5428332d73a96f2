---------------------------- MODULE DaemonProofs ----------------------------
(***************************************************************************)
(* Theorems about Daemon, for any workers, clients and bounds.             *)
(***************************************************************************)
EXTENDS Daemon, FiniteSetTheorems, TLAPS

---------------------------------------------------------------------------
(***************************************************************************)
(* Type correctness.                                                       *)
(***************************************************************************)
LEMMA NoTallyType == NoTally \in TallyRecord
BY DEF NoTally, NoReads, TallyRecord

LEMMA NoRequestType == NoRequest \in RequestRecord
BY NoTallyType DEF NoRequest, Request, RequestRecord

\* What a worker starts on a connection with.
LEMMA JobType ==
  ASSUME NEW c \in Connections \cup {Wake}, NEW l \in Listener,
         NEW r \in RequestRecord, NEW keep \in BOOLEAN
  PROVE  Job(c, l, r, keep) \in JobRecord
BY NoTallyType DEF Job, JobRecord

LEMMA JobFields ==
  ASSUME TypeOK, NEW w \in Workers
  PROVE  /\ job[w] \in JobRecord
         /\ job[w].conn \in Connections \cup {Wake}
         /\ job[w].from \in Listener
         /\ job[w].request \in RequestRecord
         /\ job[w].request.keep \in BOOLEAN
         /\ job[w].answered \in Nat
         /\ job[w].reads \in Nat
<1>1. job[w] \in JobRecord
  BY DEF TypeOK
<1>2. QED
  BY <1>1 DEF JobRecord, RequestRecord

LEMMA ConnFields ==
  ASSUME TypeOK, NEW c \in Connections
  PROVE  /\ conn[c] \in ConnectionRecord
         /\ conn[c].inbox \in Seq(RequestRecord)
         /\ conn[c].got \in Nat
         /\ conn[c].sent \in Nat
<1>1. conn[c] \in ConnectionRecord
  BY DEF TypeOK
<1>2. QED
  BY <1>1 DEF ConnectionRecord

\* A connection with other fields of the right kind.
LEMMA ConnUpdate ==
  ASSUME NEW r \in ConnectionRecord, NEW inbox \in Seq(RequestRecord), NEW n \in Nat
  PROVE  /\ [r EXCEPT !.sent = n, !.inbox = inbox] \in ConnectionRecord
         /\ [r EXCEPT !.inbox = inbox] \in ConnectionRecord
         /\ [r EXCEPT !.got = n] \in ConnectionRecord
         /\ [r EXCEPT !.state = "closed", !.inbox = inbox] \in ConnectionRecord
         /\ [r EXCEPT !.state = "closed", !.inbox = inbox, !.got = n] \in ConnectionRecord
<1> DEFINE S == Seq(RequestRecord)
<1>1. inbox \in S
  OBVIOUS
<1>2. ConnectionRecord = [state : {"off", "queued", "open", "closed"}, inbox : S,
                          sent : Nat, gone : BOOLEAN, got : Nat]
  BY DEF ConnectionRecord
<1> HIDE DEF S
<1>3. QED
  BY <1>1, <1>2

LEMMA Empty == <<>> \in Seq(RequestRecord) /\ <<>> \in Seq(Connections \cup {Wake})
OBVIOUS

LEMMA LeaveType ==
  ASSUME TypeOK, NEW w \in Workers, NEW got \in {0, 1}, Leave(w, got)
  PROVE  /\ pc' \in [Workers -> PcLabel]
         /\ job' \in [Workers -> JobRecord]
         /\ conn' \in [Connections -> ConnectionRecord]
<1>1. NoJob \in JobRecord
  BY NoRequestType, JobType DEF NoJob, Listener
<1>2. conn' \in [Connections -> ConnectionRecord]
  <2>1. ASSUME NEW c \in Connections
        PROVE  [conn[c] EXCEPT !.state = "closed", !.inbox = <<>>,
                               !.got = @ + got] \in ConnectionRecord
    <3>1. conn[c] \in ConnectionRecord /\ conn[c].got + got \in Nat
      BY ConnFields
    <3>2. QED
      BY <3>1, ConnUpdate, Empty
  <2>2. QED
    BY <2>1, ConnFields DEF Leave
<1>3. QED
  BY <1>1, <1>2 DEF Leave, TypeOK, Goto, PcLabel

LEMMA TakeFirstType ==
  ASSUME TypeOK, NEW w \in Workers, NEW l \in Listener, TakeFirst(w, l)
  PROVE  /\ pc' \in [Workers -> PcLabel]
         /\ job' \in [Workers -> JobRecord]
         /\ conn' \in [Connections -> ConnectionRecord]
         /\ backlog' \in [Listener -> Seq(Connections \cup {Wake})]
<1>1. /\ backlog[l] \in Seq(Connections \cup {Wake})
      /\ backlog[l] # <<>>
  BY DEF TypeOK, TakeFirst
<1>2. /\ Head(backlog[l]) \in Connections \cup {Wake}
      /\ Tail(backlog[l]) \in Seq(Connections \cup {Wake})
  BY <1>1
<1>3. Job(Head(backlog[l]), l, NoRequest, FALSE) \in JobRecord
  BY <1>2, NoRequestType, JobType
<1>4. conn' \in [Connections -> ConnectionRecord]
  <2>1. ASSUME NEW c \in Connections
        PROVE  [conn[c] EXCEPT !.state = "open"] \in ConnectionRecord
    BY ConnFields DEF ConnectionRecord
  <2>2. QED
    BY <2>1, ConnFields DEF TakeFirst
<1>5. QED
  BY <1>2, <1>3, <1>4 DEF TakeFirst, TypeOK, Goto, PcLabel

LEMMA AcceptType ==
  ASSUME TypeOK, NEW w \in Workers, NEW l \in Listener, NEW next \in {"unix", "tcp"},
         Accept(w, l, next)
  PROVE  /\ pc' \in [Workers -> PcLabel]
         /\ job' \in [Workers -> JobRecord]
         /\ conn' \in [Connections -> ConnectionRecord]
         /\ backlog' \in [Listener -> Seq(Connections \cup {Wake})]
<1>1. CASE TakeFirst(w, l)
  BY <1>1, TakeFirstType
<1>2. CASE Goto(w, next) /\ UNCHANGED <<job, connVars>>
  BY <1>2 DEF TypeOK, Goto, PcLabel, connVars
<1>3. QED
  BY <1>1, <1>2 DEF Accept

LEMMA ReadStorageType ==
  ASSUME TypeOK, NEW w \in Workers, ReadStorage(w)
  PROVE  delta' \in [Workers -> Nat] /\ performed' \in [Workers -> Nat]
BY DEF TypeOK, ReadStorage

CounterRecord == [requests : Nat, queries : Nat, rejected : Nat,
                  storage : [Workers -> Nat]]

LEMMA CounterFields ==
  ASSUME TypeOK
  PROVE  /\ counters \in CounterRecord
         /\ counters.requests \in Nat /\ counters.queries \in Nat
         /\ counters.rejected \in Nat /\ counters.storage \in [Workers -> Nat]
<1>1. counters \in CounterRecord
  BY DEF TypeOK, CounterRecord
<1>2. QED
  BY <1>1 DEF CounterRecord

LEMMA FoldType ==
  ASSUME TypeOK, NEW w \in Workers
  PROVE  FoldInto(w) \in [Workers -> Nat]
<1>1. counters.storage \in [Workers -> Nat] /\ delta[w] \in Nat
  BY CounterFields DEF TypeOK
<1>2. QED
  BY <1>1 DEF FoldInto

LEMMA DaemonTypeInit == Init => TypeOK
<1> SUFFICES ASSUME Init PROVE TypeOK
  OBVIOUS
<1>1. NoJob \in JobRecord
  BY NoRequestType, JobType DEF NoJob, Listener
<1>2. NewConnection \in ConnectionRecord
  BY Empty DEF NewConnection, ConnectionRecord
<1>3. NoCounters \in CounterRecord
  BY DEF NoCounters, NoReads, CounterRecord
<1>4. backlog \in [Listener -> Seq(Connections \cup {Wake})]
  BY Empty DEF Init
<1>5. /\ conn \in [Connections -> ConnectionRecord]
      /\ job \in [Workers -> JobRecord]
      /\ pc \in [Workers -> PcLabel]
  BY <1>1, <1>2 DEF Init, PcLabel
<1>6. counters \in CounterRecord /\ receipts \in TallyRecord
  BY <1>3, NoTallyType DEF Init
<1>7. QED
  BY <1>4, <1>5, <1>6 DEF Init, TypeOK, NoReads, CounterRecord

\* The actions of a worker, one step each.
LEMMA WorkerTypeStep ==
  ASSUME TypeOK, NEW w \in Workers, Step(w) \/ ReadTimeout(w)
  PROVE  TypeOK'
<1> USE DEF connVars, histVars, CounterRecord
<1>1. CASE Open(w)
  <2>1. failures \in Nat /\ pc \in [Workers -> PcLabel]
    BY DEF TypeOK
  <2>2. failures' \in Nat
    BY <1>1, <2>1 DEF Open
  <2>3. pc' \in [Workers -> PcLabel]
    BY <1>1, <2>1 DEF Open, Goto, PcLabel
  <2>4. QED
    BY <1>1, <2>2, <2>3 DEF Open, TypeOK
<1>2. CASE PollUnix(w)
  <2>1. CASE Accept(w, "unix", "tcp")
    BY <1>2, <2>1, AcceptType DEF PollUnix, TypeOK, Listener
  <2>2. CASE ~Accept(w, "unix", "tcp")
    BY <1>2, <2>2 DEF PollUnix, TypeOK, Goto, PcLabel
  <2>3. QED
    BY <2>1, <2>2
<1>3. CASE PollTcp(w)
  BY <1>3, AcceptType DEF PollTcp, TypeOK, Listener
<1>4. CASE Read(w)
  <2> DEFINE request == Head(Inbox(w))
             c == job[w].conn
  <2>1. c \in Connections /\ Inbox(w) = conn[c].inbox
    BY <1>4 DEF Read, Inbox
  <2>2. request \in RequestRecord /\ Tail(conn[c].inbox) \in Seq(RequestRecord)
    BY <1>4, <2>1, ConnFields DEF Read
  <2>3. KeepAlive(request) \in BOOLEAN
    BY <2>2 DEF KeepAlive, RequestRecord
  <2>4. Job(c, job[w].from, request, KeepAlive(request)) \in JobRecord
    BY <2>1, <2>2, <2>3, JobFields, JobType
  <2>5. [conn[c] EXCEPT !.inbox = Tail(@)] \in ConnectionRecord
    BY <2>1, <2>2, ConnFields DEF ConnectionRecord
  <2>6. job' \in [Workers -> JobRecord] /\ conn' \in [Connections -> ConnectionRecord]
    BY <1>4, <2>1, <2>4, <2>5 DEF Read, TypeOK
  <2>7. QED
    BY <1>4, <2>6 DEF Read, TypeOK, Goto, PcLabel
<1>5. CASE Reject(w)
  <2>1. [counters EXCEPT !.rejected = @ + 1] \in CounterRecord
    BY CounterFields
  <2>2. QED
    BY <1>5, <2>1, LeaveType DEF Reject, TypeOK
<1>6. CASE ReadClosed(w) \/ ReadTimeout(w)
  BY <1>6, LeaveType DEF ReadClosed, ReadTimeout, TypeOK
<1>7. CASE RouteOther(w)
  BY <1>7 DEF RouteOther, TypeOK, Goto, PcLabel
<1>8. CASE RouteRead(w)
  <2>1. [job[w] EXCEPT !.reads = @ + 1] \in JobRecord
    BY JobFields DEF JobRecord
  <2>2. job' \in [Workers -> JobRecord]
    BY <1>8, <2>1 DEF RouteRead, TypeOK
  <2>3. QED
    BY <1>8, <2>2, ReadStorageType DEF RouteRead, TypeOK, Goto, PcLabel
<1>9. CASE RouteStats(w)
  <2>1. Shown(FoldInto(w)) \in TallyRecord
    BY FoldType, CounterFields DEF Shown, TallyRecord
  <2>2. [job[w] EXCEPT !.body = Shown(FoldInto(w))] \in JobRecord
    BY <2>1, JobFields DEF JobRecord
  <2>3. job' \in [Workers -> JobRecord]
    BY <1>9, <2>2 DEF RouteStats, TypeOK
  <2>4. counters' \in CounterRecord
    BY <1>9, FoldType, CounterFields DEF RouteStats
  <2>5. QED
    BY <1>9, <2>3, <2>4 DEF RouteStats, TypeOK, Goto, PcLabel
<1>10. CASE RouteSearch(w)
  <2>1. [counters EXCEPT !.rejected = @ + 1] \in CounterRecord
    BY CounterFields
  <2>2. QED
    BY <1>10, <2>1 DEF RouteSearch, TypeOK, Goto, PcLabel
<1>11. CASE Query(w)
  <2>1. /\ [job[w] EXCEPT !.reads = @ + 1, !.answered = @ + 1] \in JobRecord
        /\ [job[w] EXCEPT !.reads = @ + 1, !.failed = TRUE] \in JobRecord
        /\ [job[w] EXCEPT !.failed = TRUE] \in JobRecord
    <3>1. /\ job[w] \in JobRecord
          /\ job[w].reads + 1 \in Nat
          /\ job[w].answered + 1 \in Nat
      BY JobFields
    <3>2. QED
      BY <3>1 DEF JobRecord
  <2>2. job' \in [Workers -> JobRecord]
    BY <1>11, <2>1 DEF Query, TypeOK
  <2>3. delta' \in [Workers -> Nat] /\ performed' \in [Workers -> Nat]
    BY <1>11, ReadStorageType DEF Query, TypeOK
  <2>4. pc' \in [Workers -> PcLabel]
    BY <1>11 DEF Query, TypeOK, Goto, PcLabel
  <2>5. QED
    BY <1>11, <2>2, <2>3, <2>4 DEF Query, TypeOK
<1>12. CASE Tally(w)
  <2>1. counters \in CounterRecord /\ counters.queries + job[w].answered \in Nat
    BY CounterFields, JobFields
  <2>2. counters' \in CounterRecord
    BY <1>12, <2>1 DEF Tally
  <2>3. QED
    BY <1>12, <2>2 DEF Tally, TypeOK, Goto, PcLabel
<1>13. CASE Fold(w)
  <2>1. /\ counters \in CounterRecord /\ counters.requests + 1 \in Nat
        /\ FoldInto(w) \in [Workers -> Nat]
    BY FoldType, CounterFields
  <2>2. counters' \in CounterRecord
    BY <1>13, <2>1 DEF Fold
  <2>3. QED
    BY <1>13, <2>2 DEF Fold, TypeOK, Goto, PcLabel
<1>14. CASE Write(w)
  <2>1. Receipt(w) \in TallyRecord
    <3>1. /\ receipts \in TallyRecord /\ receipts.storage \in [Workers -> Nat]
          /\ receipts.requests \in Nat /\ receipts.queries \in Nat
      BY DEF TypeOK, TallyRecord
    <3>2. /\ receipts.requests + 1 \in Nat
          /\ receipts.queries + (IF job[w].failed THEN 0 ELSE job[w].answered) \in Nat
          /\ receipts.storage[w] + job[w].reads \in Nat
      BY <3>1, JobFields
    <3>3. QED
      BY <3>1, <3>2 DEF Receipt, TallyRecord
  <2>2. CASE Leave(w, 0) \/ Leave(w, 1)
    BY <1>14, <2>1, <2>2, LeaveType DEF Write, TypeOK
  <2>3. CASE ~Leave(w, 0) /\ ~Leave(w, 1)
    <3> DEFINE c == job[w].conn
    <3>1. c \in Connections
      BY <1>14, <2>3 DEF Write, Connected
    <3>2. Job(c, job[w].from, NoRequest, FALSE) \in JobRecord
      BY JobFields, NoRequestType, JobType
    <3>3. [conn[c] EXCEPT !.got = @ + 1] \in ConnectionRecord
      BY <3>1, ConnFields DEF ConnectionRecord
    <3>4. job' \in [Workers -> JobRecord] /\ conn' \in [Connections -> ConnectionRecord]
      BY <1>14, <2>3, <3>1, <3>2, <3>3 DEF Write, Answer, TypeOK
    <3>5. QED
      BY <1>14, <2>1, <2>3, <3>4 DEF Write, TypeOK, Goto, PcLabel
  <2>4. QED
    BY <2>2, <2>3
<1>15. QED
  BY <1>1, <1>2, <1>3, <1>4, <1>5, <1>6, <1>7, <1>8, <1>9, <1>10, <1>11, <1>12,
     <1>13, <1>14 DEF Step

LEMMA DaemonTypeStep == TypeOK /\ [Next]_vars => TypeOK'
<1> SUFFICES ASSUME TypeOK, [Next]_vars PROVE TypeOK'
  OBVIOUS
<1> USE DEF connVars, workVars, histVars
<1>1. ASSUME NEW w \in Workers, Step(w) \/ ReadTimeout(w) PROVE TypeOK'
  BY <1>1, WorkerTypeStep
<1>2. ASSUME NEW c \in Connections, Connect(c) PROVE TypeOK'
  <2>1. [conn[c] EXCEPT !.state = "queued"] \in ConnectionRecord
    BY ConnFields DEF ConnectionRecord
  <2>2. Transport[c] \in Listener
    BY TransportAssumption
  <2>3. backlog' \in [Listener -> Seq(Connections \cup {Wake})]
    BY <1>2, <2>2 DEF Connect, TypeOK
  <2>4. conn' \in [Connections -> ConnectionRecord]
    BY <1>2, <2>1 DEF Connect, TypeOK
  <2>5. QED
    BY <1>2, <2>3, <2>4 DEF Connect, TypeOK
<1>3. ASSUME NEW c \in Connections, NEW kind \in Kinds, NEW keep \in BOOLEAN,
             NEW size \in Sizes(kind), Send(c, kind, size, keep)
      PROVE  TypeOK'
  <2>1. size \in Nat /\ kind \in RequestKind
    BY BoundsAssumption, KindsAssumption DEF Sizes
  <2>2. PICK floor \in TallyRecord :
          conn' = [conn EXCEPT
                     ![c].sent = @ + 1,
                     ![c].inbox = Append(@, Request(kind, size, keep, floor))]
    BY <1>3, NoTallyType DEF Send, TypeOK
  <2>3. Request(kind, size, keep, floor) \in RequestRecord
    BY <2>1 DEF Request, RequestRecord
  <2>4. Append(conn[c].inbox, Request(kind, size, keep, floor)) \in Seq(RequestRecord)
    BY <2>3, ConnFields
  <2>5. [conn[c] EXCEPT !.sent = @ + 1,
                        !.inbox = Append(@, Request(kind, size, keep, floor))]
          \in ConnectionRecord
    <3>1. conn[c] \in ConnectionRecord /\ conn[c].sent + 1 \in Nat
      BY ConnFields
    <3>2. QED
      BY <2>4, <3>1, ConnUpdate
  <2>6. conn' \in [Connections -> ConnectionRecord]
    BY <2>2, <2>5 DEF TypeOK
  <2>7. QED
    BY <1>3, <2>6 DEF Send, TypeOK
<1>4. ASSUME NEW c \in Connections, Hangup(c) PROVE TypeOK'
  <2>1. [conn[c] EXCEPT !.gone = TRUE] \in ConnectionRecord
    BY ConnFields DEF ConnectionRecord
  <2>2. conn' \in [Connections -> ConnectionRecord]
    BY <1>4, <2>1 DEF Hangup, TypeOK
  <2>3. QED
    BY <1>4, <2>2 DEF Hangup, TypeOK
<1>5. CASE Shutdown
  <2>1. backlog' \in [Listener -> Seq(Connections \cup {Wake})]
    BY <1>5 DEF Shutdown, TypeOK
  <2>2. QED
    BY <1>5, <2>1 DEF Shutdown, TypeOK
<1>6. CASE Stop
  <2>1. ASSUME NEW c \in Connections
        PROVE  [conn[c] EXCEPT !.state = "closed", !.inbox = <<>>] \in ConnectionRecord
    BY ConnFields, ConnUpdate, Empty
  <2>2. conn' \in [Connections -> ConnectionRecord]
    BY <1>6, <2>1, ConnFields DEF Stop
  <2>3. backlog' \in [Listener -> Seq(Connections \cup {Wake})]
    BY <1>6, Empty DEF Stop
  <2>4. QED
    BY <1>6, <2>2, <2>3 DEF Stop, TypeOK
<1>7. CASE UNCHANGED vars
  BY <1>7 DEF vars, TypeOK
<1>8. QED
  BY <1>1, <1>2, <1>3, <1>4, <1>5, <1>6, <1>7 DEF Next

\* Every variable of the daemon keeps its type, for any number of workers,
\* connections and requests: no counter goes below zero, no job outlives its
\* connection's record (server.rs).
THEOREM DaemonTypeCorrect == Spec => []TypeOK
BY DaemonTypeInit, DaemonTypeStep, PTL DEF Spec

---------------------------------------------------------------------------
(***************************************************************************)
(* The storage total.  With the types the equation is inductive: a read is *)
(* added to both sides, a fold moves it, nothing else touches either.      *)
(***************************************************************************)
StorageStays ==
  delta' = delta /\ performed' = performed /\ counters'.storage = counters.storage

LEMMA StaysConserved == StorageConserved /\ StorageStays => StorageConserved'
BY DEF StorageConserved, StorageStays

\* Only four actions touch what the equation is about.
LEMMA MostStay ==
  ASSUME TypeOK, NEW w \in Workers,
         Step(w) \/ ReadTimeout(w),
         ~(RouteRead(w) \/ RouteStats(w) \/ Query(w) \/ Fold(w))
  PROVE  StorageStays
<1> USE CounterFields DEF StorageStays, histVars, CounterRecord
<1>1. CASE Open(w) \/ PollUnix(w) \/ PollTcp(w) \/ Read(w) \/ Write(w)
  BY <1>1 DEF Open, PollUnix, PollTcp, Read, Write
<1>2. CASE ReadClosed(w) \/ ReadTimeout(w) \/ RouteOther(w)
  BY <1>2 DEF ReadClosed, ReadTimeout, RouteOther
<1>3. CASE Reject(w) \/ RouteSearch(w) \/ Tally(w)
  BY <1>3 DEF Reject, RouteSearch, Tally
<1>4. QED
  BY <1>1, <1>2, <1>3 DEF Step

LEMMA ReadConserves ==
  ASSUME TypeOK, StorageConserved, NEW w \in Workers, ReadStorage(w),
         counters'.storage = counters.storage
  PROVE  StorageConserved'
<1> SUFFICES ASSUME NEW v \in Workers
             PROVE  counters.storage[v] + delta'[v] = performed'[v]
  BY DEF StorageConserved
<1>1. /\ counters.storage[v] \in Nat /\ delta[v] \in Nat /\ performed[v] \in Nat
      /\ counters.storage[v] + delta[v] = performed[v]
  BY CounterFields DEF TypeOK, StorageConserved
<1>2. QED
  BY <1>1 DEF TypeOK, ReadStorage

LEMMA FoldConserves ==
  ASSUME TypeOK, StorageConserved, NEW w \in Workers,
         delta' = [delta EXCEPT ![w] = 0], performed' = performed,
         counters'.storage = FoldInto(w)
  PROVE  StorageConserved'
<1> SUFFICES ASSUME NEW v \in Workers
             PROVE  counters'.storage[v] + delta'[v] = performed[v]
  BY DEF StorageConserved
<1>1. /\ counters.storage \in [Workers -> Nat] /\ delta \in [Workers -> Nat]
      /\ performed[v] \in Nat
      /\ counters.storage[v] + delta[v] = performed[v]
  BY CounterFields DEF TypeOK, StorageConserved
<1>2. QED
  BY <1>1 DEF FoldInto

LEMMA WorkerConserves ==
  ASSUME TypeOK, StorageConserved, NEW w \in Workers, Step(w) \/ ReadTimeout(w)
  PROVE  StorageConserved'
<1> USE DEF histVars, CounterRecord
<1>1. CASE RouteRead(w)
  BY <1>1, ReadConserves DEF RouteRead
<1>2. CASE RouteStats(w)
  <2>1. counters'.storage = FoldInto(w)
    BY <1>2, CounterFields DEF RouteStats
  <2>2. QED
    BY <1>2, <2>1, FoldConserves DEF RouteStats
<1>3. CASE Query(w)
  <2>1. CASE ReadStorage(w)
    BY <1>3, <2>1, ReadConserves DEF Query
  <2>2. CASE UNCHANGED <<delta, performed>>
    BY <1>3, <2>2, StaysConserved DEF Query, StorageStays
  <2>3. QED
    BY <1>3, <2>1, <2>2 DEF Query
<1>4. CASE Fold(w)
  <2>1. counters'.storage = FoldInto(w)
    BY <1>4, CounterFields DEF Fold
  <2>2. QED
    BY <1>4, <2>1, FoldConserves DEF Fold
<1>5. CASE ~(RouteRead(w) \/ RouteStats(w) \/ Query(w) \/ Fold(w))
  BY <1>5, MostStay, StaysConserved
<1>6. QED
  BY <1>1, <1>2, <1>3, <1>4, <1>5

LEMMA StorageInit == Init => StorageConserved
BY DEF Init, StorageConserved, NoCounters, NoReads

LEMMA StorageStep == TypeOK /\ StorageConserved /\ [Next]_vars => StorageConserved'
<1> SUFFICES ASSUME TypeOK, StorageConserved, [Next]_vars PROVE StorageConserved'
  OBVIOUS
<1>1. ASSUME NEW w \in Workers, Step(w) \/ ReadTimeout(w) PROVE StorageConserved'
  BY <1>1, WorkerConserves
<1>2. CASE ~\E w \in Workers : Step(w) \/ ReadTimeout(w)
  BY <1>2, StaysConserved
     DEF Next, Connect, Send, Hangup, Shutdown, Stop, vars, workVars, histVars,
         StorageStays
<1>3. QED
  BY <1>1, <1>2

\* No read of storage is lost from the shared total or counted twice, however
\* the workers' folds and scrapes interleave (server.rs, the comment on folding
\* storage deltas).
THEOREM StorageNeverLost == Spec => []StorageConserved
BY DaemonTypeInit, DaemonTypeStep, StorageInit, StorageStep, PTL DEF Spec

---------------------------------------------------------------------------
(***************************************************************************)
(* The end of `run`.  It needs that a worker past its loop never comes     *)
(* back, and that before the flag is set only a failed open ends one.      *)
(***************************************************************************)
Exited == {w \in Workers : pc[w] = "exited"}

StopInv ==
  /\ stopped => Exited = Workers
  /\ shutdown \/ failures = Cardinality(Exited)

LEMMA StopInit == Init => StopInv
<1> SUFFICES ASSUME Init PROVE StopInv
  OBVIOUS
<1>1. Exited = {}
  BY DEF Init, Exited
<1>2. Cardinality(Exited) = 0
  BY <1>1, FS_EmptySet
<1>3. QED
  BY <1>2 DEF Init, StopInv

\* A worker's step that ends no worker.
LEMMA GoesOn ==
  ASSUME TypeOK, StopInv, NEW w \in Workers, pc[w] # "exited", pc'[w] # "exited",
         \A v \in Workers \ {w} : pc'[v] = pc[v],
         shutdown' = shutdown, stopped' = stopped, failures' = failures
  PROVE  StopInv'
<1>1. Exited' = Exited
  BY DEF Exited
<1>2. QED
  BY <1>1 DEF StopInv

LEMMA Moves ==
  ASSUME TypeOK, NEW w \in Workers, NEW label, label # "exited", Goto(w, label)
  PROVE  /\ pc'[w] # "exited"
         /\ \A v \in Workers \ {w} : pc'[v] = pc[v]
BY DEF TypeOK, Goto

LEMMA LeaveMoves ==
  ASSUME TypeOK, NEW w \in Workers, NEW got, Leave(w, got)
  PROVE  /\ pc'[w] # "exited"
         /\ \A v \in Workers \ {w} : pc'[v] = pc[v]
BY DEF TypeOK, Goto, Leave

LEMMA AcceptMoves ==
  ASSUME TypeOK, NEW w \in Workers, NEW l, NEW next \in {"unix", "tcp"}, Accept(w, l, next)
  PROVE  /\ pc'[w] # "exited"
         /\ \A v \in Workers \ {w} : pc'[v] = pc[v]
BY Moves DEF Accept, TakeFirst

LEMMA WorkerStops ==
  ASSUME TypeOK, StopInv, NEW w \in Workers, Step(w) \/ ReadTimeout(w)
  PROVE  StopInv'
<1>1. CASE Open(w)
  <2>1. CASE Goto(w, "unix") /\ failures' = failures
    BY <1>1, <2>1, Moves, GoesOn DEF Open
  <2>2. CASE Goto(w, "exited") /\ failures' = failures + 1
    <3>1. w \notin Exited /\ Exited' = Exited \cup {w}
      BY <1>1, <2>2 DEF Open, Goto, TypeOK, Exited
    <3>2. IsFiniteSet(Exited)
      BY WorkersAssumption, FS_Subset DEF Exited
    <3>3. Cardinality(Exited') = Cardinality(Exited) + 1
      BY <3>1, <3>2, FS_AddElement
    <3>4. ~stopped
      BY <3>1 DEF StopInv
    <3>5. QED
      BY <1>1, <2>2, <3>3, <3>4 DEF Open, StopInv
  <2>3. QED
    BY <1>1, <2>1, <2>2 DEF Open
<1>2. CASE PollUnix(w)
  <2>1. CASE shutdown
    <3>1. w \notin Exited /\ Exited' = Exited \cup {w}
      BY <1>2, <2>1 DEF PollUnix, Goto, TypeOK, Exited
    <3>2. QED
      BY <1>2, <2>1, <3>1 DEF PollUnix, StopInv
  <2>2. CASE ~shutdown
    BY <1>2, <2>2, AcceptMoves, GoesOn DEF PollUnix
  <2>3. QED
    BY <2>1, <2>2
<1>3. CASE PollTcp(w)
  BY <1>3, AcceptMoves, GoesOn DEF PollTcp
<1>4. CASE Read(w) \/ RouteOther(w) \/ RouteRead(w) \/ RouteStats(w) \/ Tally(w) \/ Fold(w)
  BY <1>4, Moves, GoesOn DEF Read, RouteOther, RouteRead, RouteStats, Tally, Fold
<1>5. CASE Reject(w) \/ ReadClosed(w) \/ ReadTimeout(w)
  BY <1>5, LeaveMoves, GoesOn DEF Reject, ReadClosed, ReadTimeout
<1>6. CASE RouteSearch(w) \/ Query(w)
  BY <1>6, Moves, GoesOn DEF RouteSearch, Query
<1>7. CASE Write(w)
  <2>1. CASE Leave(w, 0) \/ Leave(w, 1)
    BY <1>7, <2>1, LeaveMoves, GoesOn DEF Write
  <2>2. CASE Goto(w, "reading")
    BY <1>7, <2>2, Moves, GoesOn DEF Write
  <2>3. QED
    BY <1>7, <2>1, <2>2 DEF Write
<1>8. QED
  BY <1>1, <1>2, <1>3, <1>4, <1>5, <1>6, <1>7 DEF Step

LEMMA StopStep == TypeOK /\ StopInv /\ [Next]_vars => StopInv'
<1> SUFFICES ASSUME TypeOK, StopInv, [Next]_vars PROVE StopInv'
  OBVIOUS
<1>1. ASSUME NEW w \in Workers, Step(w) \/ ReadTimeout(w) PROVE StopInv'
  BY <1>1, WorkerStops
<1>2. CASE Stop
  <2>1. Exited = Workers /\ Exited' = Exited
    BY <1>2 DEF Stop, Exited, workVars
  <2>2. QED
    BY <1>2, <2>1 DEF Stop, StopInv
<1>3. CASE ~Stop /\ ~\E w \in Workers : Step(w) \/ ReadTimeout(w)
  <2>1. /\ pc' = pc /\ stopped' = stopped /\ failures' = failures
        /\ shutdown => shutdown'
    BY <1>3 DEF Next, Connect, Send, Hangup, Shutdown, vars, workVars, TypeOK
  <2>2. Exited' = Exited
    BY <2>1 DEF Exited
  <2>3. QED
    BY <2>1, <2>2 DEF StopInv
<1>4. QED
  BY <1>1, <1>2, <1>3

\* `run` returns only when asked, or when no worker at all could open the
\* volume: whatever clients send, refuse or abandon ends no worker.
THEOREM OnlyShutdownStops == Spec => []StopsWhenAsked
<1>1. StopInv => StopsWhenAsked
  BY DEF StopInv, StopsWhenAsked
<1>2. QED
  BY <1>1, DaemonTypeInit, DaemonTypeStep, StopInit, StopStep, PTL DEF Spec

---------------------------------------------------------------------------
(***************************************************************************)
(* Answers.                                                                *)
(***************************************************************************)

\* Only the write of the response takes a worker from serving to not serving.
LEMMA ServingEnds ==
  ASSUME TypeOK, [Next]_vars, NEW w \in Workers, pc[w] \in Serving, pc'[w] \notin Serving
  PROVE  Write(w)
<1>1. ASSUME NEW v \in Workers, Step(v) \/ ReadTimeout(v) PROVE Write(w)
  <2>1. v = w
    <3> SUFFICES ASSUME v # w PROVE pc'[w] = pc[w]
      OBVIOUS
    <3>1. CASE Open(v) \/ PollUnix(v) \/ PollTcp(v)
      BY <3>1 DEF Open, PollUnix, PollTcp, Accept, TakeFirst, Goto, TypeOK
    <3>2. CASE Read(v) \/ Reject(v) \/ ReadClosed(v) \/ ReadTimeout(v) \/ Write(v)
      BY <3>2 DEF Read, Reject, ReadClosed, ReadTimeout, Write, Leave, Goto, TypeOK
    <3>3. CASE RouteOther(v) \/ RouteRead(v) \/ RouteStats(v) \/ RouteSearch(v)
               \/ Query(v) \/ Tally(v) \/ Fold(v)
      BY <3>3 DEF RouteOther, RouteRead, RouteStats, RouteSearch, Query, Tally, Fold,
         Goto, TypeOK
    <3>4. QED
      BY <1>1, <3>1, <3>2, <3>3 DEF Step
  <2>2. ~(Open(w) \/ PollUnix(w) \/ PollTcp(w) \/ Read(w) \/ Reject(w)
          \/ ReadClosed(w) \/ ReadTimeout(w))
    BY DEF Serving, Open, PollUnix, PollTcp, Read, Reject, ReadClosed, ReadTimeout
  <2>3. ~(RouteOther(w) \/ RouteRead(w) \/ RouteStats(w) \/ RouteSearch(w)
          \/ Query(w) \/ Tally(w) \/ Fold(w))
    BY DEF Serving, RouteOther, RouteRead, RouteStats, RouteSearch, Query, Tally,
       Fold, Goto, TypeOK
  <2>4. QED
    BY <1>1, <2>1, <2>2, <2>3 DEF Step
<1>2. CASE ~\E v \in Workers : Step(v) \/ ReadTimeout(v)
  BY <1>2 DEF Next, Connect, Send, Hangup, Shutdown, Stop, vars, workVars
<1>3. QED
  BY <1>1, <1>2

LEMMA WriteAnswers ==
  ASSUME TypeOK, NEW w \in Workers, Write(w), Connected(w)
  PROVE  conn'[job[w].conn].got = conn[job[w].conn].got + 1
<1> DEFINE c == job[w].conn
<1>1. c \in Connections /\ conn[c] \in ConnectionRecord
      /\ conn \in [Connections -> ConnectionRecord]
  BY ConnFields DEF Connected, TypeOK
<1>2. CASE Leave(w, 1)
  BY <1>1, <1>2 DEF Leave, ConnectionRecord
<1>3. CASE Answer(w)
  BY <1>1, <1>3 DEF Answer, ConnectionRecord
<1>4. QED
  BY <1>2, <1>3 DEF Write

\* A request a worker has read is answered before the worker lets go of it, be
\* the flag set or not, unless its client has gone (server.rs, "must not cut a
\* query in half").
THEOREM NoQueryCutShort == Spec => InFlightAnswered
<1>1. TypeOK /\ [Next]_vars =>
        [\A w \in Workers :
           pc[w] \in Serving /\ pc'[w] \notin Serving /\ Connected(w) =>
             conn'[job[w].conn].got = conn[job[w].conn].got + 1]_vars
  BY ServingEnds, WriteAnswers
<1>2. QED
  BY <1>1, DaemonTypeInit, DaemonTypeStep, PTL DEF Spec, InFlightAnswered

---------------------------------------------------------------------------
(***************************************************************************)
(* What /stats shows.  Receipts are bounded by the counters only if what   *)
(* the workers have counted and not yet written is allowed for: a worker   *)
(* about to write has its request, its queries and its reads counted.      *)
(***************************************************************************)

\* A job on which no read was made and no query answered.
Fresh(w) == job[w].answered = 0 /\ job[w].reads = 0 /\ ~job[w].failed

\* Queries counted whose response is not written, one element to each.
Tallied(w) == pc[w] \in {"fold", "write"} /\ ~job[w].failed

Unwritten(w) == {w} \X (IF Tallied(w) THEN 1 .. job[w].answered ELSE {})

UnwrittenQueries == UNION {Unwritten(w) : w \in Workers}

Writing == {w \in Workers : pc[w] = "write"}

JobsInv ==
  \A w \in Workers :
    /\ pc[w] \in {"route"} => Fresh(w)
    /\ pc[w] \in {"query", "tally"} => Kind(w) = "search" /\ ~job[w].failed
    /\ pc[w] = "write" => delta[w] = 0

ReceiptsInv ==
  /\ receipts.requests + Cardinality(Writing) <= counters.requests
  /\ receipts.queries + Cardinality(UnwrittenQueries) <= counters.queries
  /\ \A w \in Workers :
       /\ receipts.storage[w] <= counters.storage[w]
       /\ pc[w] \in Serving => receipts.storage[w] + job[w].reads <= performed[w]

\* No request asks for more than was received when it was sent.
FloorsInv ==
  /\ \A c \in Connections : \A i \in 1 .. Len(conn[c].inbox) :
       AtMost(conn[c].inbox[i].floor, receipts)
  /\ \A w \in Workers : AtMost(job[w].request.floor, receipts)

StatsInv == JobsInv /\ ReceiptsInv /\ FloorsInv /\ StatsExact

LEMMA TallyFields ==
  ASSUME TypeOK, NEW w \in Workers
  PROVE  /\ receipts \in TallyRecord
         /\ receipts.requests \in Nat /\ receipts.queries \in Nat
         /\ receipts.storage \in [Workers -> Nat]
         /\ receipts.storage[w] \in Nat /\ counters.storage[w] \in Nat
         /\ performed[w] \in Nat /\ delta[w] \in Nat
         /\ job[w].request.floor \in TallyRecord
         /\ job[w].body \in TallyRecord
         /\ job[w].failed \in BOOLEAN
<1>1. receipts \in TallyRecord /\ performed \in [Workers -> Nat]
      /\ delta \in [Workers -> Nat]
  BY DEF TypeOK
<1>2. job[w] \in JobRecord /\ job[w].request \in RequestRecord
  BY JobFields
<1>3. job[w].request.floor \in TallyRecord
  BY <1>2 DEF RequestRecord
<1>4. job[w].body \in TallyRecord /\ job[w].failed \in BOOLEAN
  BY <1>2 DEF JobRecord
<1>5. QED
  BY <1>1, <1>3, <1>4, CounterFields DEF TallyRecord

LEMMA AtMostTransitive ==
  ASSUME NEW a \in TallyRecord, NEW b \in TallyRecord, NEW c \in TallyRecord,
         AtMost(a, b), AtMost(b, c)
  PROVE  AtMost(a, c)
<1>1. ASSUME NEW w \in Workers PROVE a.storage[w] <= c.storage[w]
  <2>1. a.storage[w] \in Nat /\ b.storage[w] \in Nat /\ c.storage[w] \in Nat
    BY DEF TallyRecord
  <2>2. QED
    BY <2>1 DEF AtMost
<1>2. a.requests \in Nat /\ b.requests \in Nat /\ c.requests \in Nat
      /\ a.queries \in Nat /\ b.queries \in Nat /\ c.queries \in Nat
  BY DEF TallyRecord
<1>3. QED
  BY <1>1, <1>2 DEF AtMost

LEMMA AtMostNoTally == ASSUME NEW a \in TallyRecord PROVE AtMost(NoTally, a)
BY DEF AtMost, NoTally, NoReads, TallyRecord

\* A worker's step leaves the other workers and what they read alone.
Apart(w) ==
  \A v \in Workers \ {w} :
    /\ pc'[v] = pc[v] /\ job'[v] = job[v] /\ delta'[v] = delta[v]
    /\ performed'[v] = performed[v]
    /\ counters'.storage[v] = counters.storage[v]
    /\ receipts'.storage[v] = receipts.storage[v]

LEMMA LeaveApart ==
  ASSUME TypeOK, NEW w \in Workers, NEW got, Leave(w, got)
  PROVE  \A v \in Workers \ {w} : pc'[v] = pc[v] /\ job'[v] = job[v]
BY DEF TypeOK, Leave, Goto

LEMMA AcceptApart ==
  ASSUME TypeOK, NEW w \in Workers, NEW l, NEW next, Accept(w, l, next)
  PROVE  \A v \in Workers \ {w} : pc'[v] = pc[v] /\ job'[v] = job[v]
BY DEF TypeOK, Accept, TakeFirst, Goto

LEMMA FoldApart ==
  ASSUME TypeOK, NEW w \in Workers
  PROVE  /\ FoldInto(w) \in [Workers -> Nat]
         /\ FoldInto(w)[w] = counters.storage[w] + delta[w]
         /\ \A v \in Workers \ {w} : FoldInto(w)[v] = counters.storage[v]
BY CounterFields, FoldType DEF FoldInto

LEMMA WorkerApart ==
  ASSUME TypeOK, NEW w \in Workers, Step(w) \/ ReadTimeout(w)
  PROVE  Apart(w)
<1> USE DEF histVars, connVars, CounterRecord
<1> USE CounterFields
<1>1. CASE Open(w) \/ RouteOther(w)
  BY <1>1 DEF Open, RouteOther, Goto, Apart, TypeOK
<1>2. CASE PollUnix(w) \/ PollTcp(w)
  BY <1>2, AcceptApart DEF PollUnix, PollTcp, Goto, Apart, TypeOK
<1>3. CASE Read(w)
  BY <1>3 DEF Read, Goto, Apart, TypeOK
<1>4. CASE Reject(w) \/ ReadClosed(w) \/ ReadTimeout(w)
  BY <1>4, LeaveApart DEF Reject, ReadClosed, ReadTimeout, Apart
<1>5. CASE RouteRead(w) \/ RouteSearch(w) \/ Query(w)
  BY <1>5 DEF RouteRead, RouteSearch, Query, ReadStorage, Goto, Apart, TypeOK
<1>6. CASE RouteStats(w) \/ Fold(w)
  <2>1. counters'.storage = FoldInto(w)
    BY <1>6 DEF RouteStats, Fold
  <2>2. QED
    BY <1>6, <2>1, FoldApart DEF RouteStats, Fold, Goto, Apart, TypeOK
<1>7. CASE Tally(w)
  BY <1>7 DEF Tally, Goto, Apart, TypeOK
<1>8. CASE Write(w)
  <2>1. \A v \in Workers \ {w} : receipts'.storage[v] = receipts.storage[v]
    <3>1. CASE receipts' = receipts
      BY <3>1
    <3>2. CASE receipts' = Receipt(w)
      BY <3>2, TallyFields DEF Receipt, TallyRecord
    <3>3. QED
      BY <1>8, <3>1, <3>2 DEF Write
  <2>2. \A v \in Workers \ {w} : pc'[v] = pc[v] /\ job'[v] = job[v]
    BY <1>8, LeaveApart DEF Write, Goto, TypeOK
  <2>3. QED
    BY <1>8, <2>1, <2>2 DEF Write, Apart
<1>9. QED
  BY <1>1, <1>2, <1>3, <1>4, <1>5, <1>6, <1>7, <1>8 DEF Step

---------------------------------------------------------------------------
(* Sums over the workers, as cardinalities. *)

UnwrittenBut(w) == UNION {Unwritten(v) : v \in Workers \ {w}}

Answered(w) == IF Tallied(w) THEN job[w].answered ELSE 0

LEMMA IntervalSize ==
  ASSUME NEW n \in Nat
  PROVE  IsFiniteSet(1 .. n) /\ Cardinality(1 .. n) = n
<1>1. 1 \in Int /\ n \in Int
  OBVIOUS
<1>2. /\ IsFiniteSet(1 .. n)
      /\ Cardinality(1 .. n) = IF 1 > n THEN 0 ELSE n - 1 + 1
  BY <1>1, FS_Interval, Zenon
<1>3. (IF 1 > n THEN 0 ELSE n - 1 + 1) = n
  OBVIOUS
<1>4. QED
  BY <1>2, <1>3

LEMMA UnwrittenSize ==
  ASSUME TypeOK, NEW w \in Workers
  PROVE  IsFiniteSet(Unwritten(w)) /\ Cardinality(Unwritten(w)) = Answered(w)
<1> DEFINE I == IF Tallied(w) THEN 1 .. job[w].answered ELSE {}
<1>1. job[w].answered \in Nat
  BY JobFields
<1>2. IsFiniteSet(I) /\ Cardinality(I) = Answered(w)
  <2>1. CASE Tallied(w)
    BY <1>1, <2>1, IntervalSize DEF Answered
  <2>2. CASE ~Tallied(w)
    BY <2>2, FS_EmptySet DEF Answered
  <2>3. QED
    BY <2>1, <2>2
<1>3. IsFiniteSet({w}) /\ Cardinality({w}) = 1
  BY FS_Singleton
<1>4. Answered(w) \in Nat
  BY <1>1 DEF Answered
<1> HIDE DEF I
<1>5. IsFiniteSet({w} \X I) /\ Cardinality({w} \X I) = 1 * Answered(w)
  BY <1>2, <1>3, FS_Product
<1>6. QED
  BY <1>4, <1>5 DEF Unwritten, I

LEMMA UnwrittenSplit ==
  ASSUME TypeOK, NEW w \in Workers
  PROVE  /\ IsFiniteSet(UnwrittenBut(w))
         /\ Cardinality(UnwrittenBut(w)) \in Nat
         /\ Cardinality(UnwrittenQueries) = Cardinality(UnwrittenBut(w)) + Answered(w)
<1> DEFINE F == {Unwritten(v) : v \in Workers \ {w}}
<1>1. IsFiniteSet(F)
  <2>1. IsFiniteSet(Workers \ {w})
    BY WorkersAssumption, FS_Difference
  <2> DEFINE f == [v \in Workers \ {w} |-> Unwritten(v)]
  <2>2. f \in Surjection(Workers \ {w}, F)
    BY DEF Surjection
  <2> HIDE DEF f, F
  <2>3. QED
    BY <2>1, <2>2, FS_Surjection
<1>2. IsFiniteSet(UnwrittenBut(w))
  <2>1. \A T \in F : IsFiniteSet(T)
    BY UnwrittenSize
  <2> HIDE DEF F
  <2>2. IsFiniteSet(UNION F)
    BY <1>1, <2>1, FS_UNION
  <2>3. QED
    BY <2>2 DEF F, UnwrittenBut
<1>3. UnwrittenQueries = UnwrittenBut(w) \cup Unwritten(w)
  BY DEF UnwrittenQueries, UnwrittenBut
<1>4. UnwrittenBut(w) \cap Unwritten(w) = {}
  BY DEF UnwrittenBut, Unwritten
<1>5. Cardinality(UnwrittenBut(w)) \in Nat /\ Answered(w) \in Nat
  BY <1>2, FS_CardinalityType, UnwrittenSize
<1>6. Cardinality(UnwrittenBut(w) \cup Unwritten(w))
        = Cardinality(UnwrittenBut(w)) + Cardinality(Unwritten(w)) - Cardinality({})
  BY <1>2, <1>4, UnwrittenSize, FS_Union
<1>7. QED
  BY <1>2, <1>3, <1>5, <1>6, UnwrittenSize, FS_EmptySet

Writes(w) == IF pc[w] = "write" THEN 1 ELSE 0

LEMMA WritingSplit ==
  ASSUME NEW w \in Workers
  PROVE  /\ Cardinality(Writing \ {w}) \in Nat
         /\ Cardinality(Writing) = Cardinality(Writing \ {w}) + Writes(w)
<1>1. IsFiniteSet(Writing)
  BY WorkersAssumption, FS_Subset DEF Writing
<1>2. Cardinality(Writing) \in Nat
  BY <1>1, FS_CardinalityType
<1>3. IsFiniteSet(Writing \ {w}) /\ Cardinality(Writing \ {w}) \in Nat
  BY <1>1, FS_RemoveElement, FS_CardinalityType
<1>4. QED
  BY <1>1, <1>2, <1>3, FS_RemoveElement DEF Writes, Writing

\* The same of a state and of the next.
AccountsSplit ==
  \A w \in Workers :
    /\ Cardinality(Writing) = Cardinality(Writing \ {w}) + Writes(w)
    /\ Cardinality(UnwrittenQueries) = Cardinality(UnwrittenBut(w)) + Answered(w)

LEMMA SplitInvariant == TypeOK => AccountsSplit
BY WritingSplit, UnwrittenSplit DEF AccountsSplit

\* A worker's step keeps the accounts if what it adds to the receipts and has
\* yet to write is no more than what it adds to the counters.
LEMMA Accounts ==
  ASSUME TypeOK, TypeOK', ReceiptsInv, NEW w \in Workers, Apart(w),
         receipts'.requests + Writes(w)' + counters.requests
           <= receipts.requests + Writes(w) + counters'.requests,
         receipts'.queries + Answered(w)' + counters.queries
           <= receipts.queries + Answered(w) + counters'.queries,
         receipts'.storage[w] <= counters'.storage[w],
         pc'[w] \in Serving => receipts'.storage[w] + job'[w].reads <= performed'[w]
  PROVE  ReceiptsInv'
<1>1. (Writing \ {w})' = Writing \ {w} /\ UnwrittenBut(w)' = UnwrittenBut(w)
  BY DEF Apart, Writing, UnwrittenBut, Unwritten, Tallied
<1>2. /\ Cardinality(Writing') = Cardinality(Writing \ {w}) + Writes(w)'
      /\ Cardinality(UnwrittenQueries') = Cardinality(UnwrittenBut(w)) + Answered(w)'
  <2>1. AccountsSplit'
    BY SplitInvariant, PTL
  <2>2. QED
    BY <1>1, <2>1 DEF AccountsSplit
<1>3. /\ Cardinality(Writing) = Cardinality(Writing \ {w}) + Writes(w)
      /\ Cardinality(UnwrittenQueries) = Cardinality(UnwrittenBut(w)) + Answered(w)
      /\ Cardinality(Writing \ {w}) \in Nat /\ Cardinality(UnwrittenBut(w)) \in Nat
  BY WritingSplit, UnwrittenSplit
<1>4. /\ Writes(w) \in Nat /\ Answered(w) \in Nat
      /\ Writes(w)' \in Nat /\ Answered(w)' \in Nat
  <2>1. job[w].answered \in Nat
    BY JobFields
  <2>2. job'[w].answered \in Nat
    BY DEF TypeOK, JobRecord
  <2>3. QED
    BY <2>1, <2>2 DEF Writes, Answered
<1>5. /\ receipts.requests \in Nat /\ receipts.queries \in Nat
      /\ counters.requests \in Nat /\ counters.queries \in Nat
  BY TallyFields, CounterFields
<1>6. /\ receipts'.requests \in Nat /\ receipts'.queries \in Nat
      /\ counters'.requests \in Nat /\ counters'.queries \in Nat
  BY DEF TypeOK, TallyRecord
<1>7. receipts'.requests + Cardinality(Writing') <= counters'.requests
  BY <1>2, <1>3, <1>4, <1>5, <1>6 DEF ReceiptsInv
<1>8. receipts'.queries + Cardinality(UnwrittenQueries') <= counters'.queries
  BY <1>2, <1>3, <1>4, <1>5, <1>6 DEF ReceiptsInv
<1>9. ASSUME NEW v \in Workers
      PROVE  /\ receipts'.storage[v] <= counters'.storage[v]
             /\ pc'[v] \in Serving => receipts'.storage[v] + job'[v].reads <= performed'[v]
  BY DEF Apart, ReceiptsInv
<1>10. QED
  BY <1>7, <1>8, <1>9 DEF ReceiptsInv

---------------------------------------------------------------------------
(* The steps. *)

\* A worker that goes back to its listeners, or has not read a request yet.
LEMMA NotServing ==
  ASSUME TypeOK, TypeOK', ReceiptsInv, NEW w \in Workers, Apart(w),
         pc'[w] \notin Serving, receipts' = receipts,
         counters'.requests = counters.requests, counters'.queries = counters.queries,
         counters'.storage = counters.storage
  PROVE  ReceiptsInv'
<1>1. Writes(w)' = 0 /\ Answered(w)' = 0
  BY DEF Writes, Answered, Tallied, Serving
<1>2. /\ Writes(w) \in Nat /\ Answered(w) \in Nat
      /\ receipts.requests \in Nat /\ receipts.queries \in Nat
      /\ counters.requests \in Nat /\ counters.queries \in Nat
  BY JobFields, TallyFields, CounterFields DEF Writes, Answered
<1>3. receipts'.storage[w] <= counters'.storage[w]
  BY DEF ReceiptsInv
<1> QED
  BY <1>1, <1>2, <1>3, Accounts

LEMMA AcceptGoes ==
  ASSUME TypeOK, NEW w \in Workers, NEW l, NEW next \in {"unix", "tcp"}, Accept(w, l, next)
  PROVE  pc'[w] \in {"unix", "tcp", "reading"}
BY DEF TypeOK, Accept, TakeFirst, Goto

LEMMA LeaveGoes ==
  ASSUME TypeOK, NEW w \in Workers, NEW got, Leave(w, got)
  PROVE  pc'[w] \in {"unix", "tcp"} /\ job'[w] = NoJob
BY DEF TypeOK, Leave, Goto

LEMMA JobsApart ==
  ASSUME JobsInv, NEW w \in Workers, Apart(w),
         pc'[w] = "route" => Fresh(w)',
         pc'[w] \in {"query", "tally"} => Kind(w)' = "search" /\ ~job'[w].failed,
         pc'[w] = "write" => delta'[w] = 0
  PROVE  JobsInv'
<1> SUFFICES ASSUME NEW v \in Workers
             PROVE  /\ pc'[v] \in {"route"} => Fresh(v)'
                    /\ pc'[v] \in {"query", "tally"} => Kind(v)' = "search" /\ ~job'[v].failed
                    /\ pc'[v] = "write" => delta'[v] = 0
  BY DEF JobsInv
<1>1. CASE v = w
  BY <1>1
<1>2. CASE v # w
  BY <1>2 DEF JobsInv, Apart, Fresh, Kind
<1>3. QED
  BY <1>1, <1>2

\* The actions in which no request is in hand, or the connection is left.
LEMMA OutsideRequest ==
  ASSUME TypeOK, TypeOK', JobsInv, ReceiptsInv, NEW w \in Workers, Apart(w),
         \/ Open(w) \/ PollUnix(w) \/ PollTcp(w)
         \/ Reject(w) \/ ReadClosed(w) \/ ReadTimeout(w)
         \/ Write(w) /\ ~Connected(w)
  PROVE  JobsInv' /\ ReceiptsInv'
<1> USE DEF histVars, connVars, CounterRecord
<1>1. /\ receipts' = receipts
      /\ counters'.requests = counters.requests /\ counters'.queries = counters.queries
      /\ counters'.storage = counters.storage
  BY CounterFields DEF Open, PollUnix, PollTcp, Reject, ReadClosed, ReadTimeout, Write
<1>2. pc'[w] \in {"unix", "tcp", "reading", "exited"}
  <2>1. CASE Open(w) \/ PollUnix(w) \/ PollTcp(w)
    BY <2>1, AcceptGoes DEF Open, PollUnix, PollTcp, Goto, TypeOK
  <2>2. CASE Reject(w) \/ ReadClosed(w) \/ ReadTimeout(w) \/ (Write(w) /\ ~Connected(w))
    BY <2>2, LeaveGoes DEF Reject, ReadClosed, ReadTimeout, Write
  <2>3. QED
    BY <2>1, <2>2
<1>3. ReceiptsInv'
  BY <1>1, <1>2, NotServing DEF Serving
<1>4. QED
  BY <1>2, <1>3, JobsApart

\* The actions that serve a request.
LEMMA InsideRequest ==
  ASSUME TypeOK, TypeOK', StorageConserved, StorageConserved', JobsInv, ReceiptsInv,
         NEW w \in Workers, Apart(w),
         \/ Read(w) \/ RouteOther(w) \/ RouteRead(w) \/ RouteStats(w) \/ RouteSearch(w)
         \/ Query(w) \/ Tally(w) \/ Fold(w)
  PROVE  JobsInv' /\ ReceiptsInv'
<1> USE DEF histVars, connVars, CounterRecord
<1>1. /\ receipts.requests \in Nat /\ receipts.queries \in Nat
      /\ counters.requests \in Nat /\ counters.queries \in Nat
      /\ receipts.storage[w] \in Nat /\ counters.storage[w] \in Nat
      /\ performed[w] \in Nat /\ delta[w] \in Nat
      /\ job[w].answered \in Nat /\ job[w].reads \in Nat
  BY JobFields, TallyFields, CounterFields
<1>2. /\ receipts.storage[w] <= counters.storage[w]
      /\ counters.storage[w] + delta[w] = performed[w]
      /\ pc[w] \in Serving => receipts.storage[w] + job[w].reads <= performed[w]
  BY DEF ReceiptsInv, StorageConserved
<1>3. receipts' = receipts
  BY DEF Read, RouteOther, RouteRead, RouteStats, RouteSearch, Query, Tally, Fold
<1>4. job[w] \in JobRecord /\ job \in [Workers -> JobRecord] /\ pc \in [Workers -> PcLabel]
      /\ delta \in [Workers -> Nat] /\ performed \in [Workers -> Nat]
      /\ counters \in CounterRecord /\ counters.storage \in [Workers -> Nat]
  BY CounterFields DEF TypeOK
<1>5. CASE Read(w)
  <2>1. pc[w] = "reading" /\ pc'[w] = "route" /\ counters' = counters /\ Fresh(w)'
    BY <1>4, <1>5 DEF Read, Goto, Fresh, Job
  <2>2. /\ Writes(w)' = 0 /\ Answered(w)' = 0 /\ Writes(w) = 0 /\ Answered(w) = 0
    BY <2>1 DEF Writes, Answered, Tallied
  <2>3. receipts'.storage[w] + job'[w].reads <= performed'[w]
    BY <1>1, <1>2, <1>3, <1>5, <2>1 DEF Read, Fresh
  <2>4. ReceiptsInv'
    BY <1>1, <1>2, <1>3, <2>1, <2>2, <2>3, Accounts
  <2>5. QED
    BY <2>1, <2>4, JobsApart
<1>6. CASE RouteOther(w) \/ RouteRead(w) \/ RouteSearch(w)
  <2>1. pc[w] = "route" /\ Fresh(w) /\ pc'[w] \in {"fold", "query"}
    BY <1>4, <1>6 DEF RouteOther, RouteRead, RouteSearch, Goto, JobsInv
  <2>2. /\ counters'.requests = counters.requests /\ counters'.queries = counters.queries
        /\ counters'.storage = counters.storage
    BY <1>4, <1>6 DEF RouteOther, RouteRead, RouteSearch
  <2>3. job'[w].answered = 0 /\ job'[w].failed = FALSE
    BY <1>4, <1>6, <2>1 DEF RouteOther, RouteRead, RouteSearch, Fresh, JobRecord
  <2>4. /\ Writes(w)' = 0 /\ Answered(w)' = 0 /\ Writes(w) = 0 /\ Answered(w) = 0
    BY <2>1, <2>3 DEF Writes, Answered, Tallied
  <2>5. receipts.storage[w] + job'[w].reads <= performed'[w]
    <3>1. CASE RouteRead(w)
      <4>1. performed'[w] = performed[w] + 1 /\ job'[w].reads = job[w].reads + 1
        BY <1>4, <3>1 DEF RouteRead, ReadStorage, JobRecord
      <4>2. QED
        BY <1>1, <1>2, <2>1, <4>1 DEF Serving
    <3>2. CASE RouteOther(w) \/ RouteSearch(w)
      BY <1>2, <2>1, <3>2 DEF RouteOther, RouteSearch, Serving
    <3>3. QED
      BY <1>6, <3>1, <3>2
  <2>6. ReceiptsInv'
    BY <1>1, <1>2, <1>3, <2>2, <2>4, <2>5, Accounts
  <2>7. pc'[w] = "query" => Kind(w)' = "search"
    BY <1>4, <1>6, <2>1 DEF RouteOther, RouteRead, RouteSearch, Goto, Kind
  <2>8. QED
    BY <2>1, <2>3, <2>6, <2>7, JobsApart
<1>7. CASE RouteStats(w)
  <2>1. pc[w] = "route" /\ Fresh(w) /\ pc'[w] = "fold"
    BY <1>4, <1>7 DEF RouteStats, Goto, JobsInv
  <2>2. /\ counters'.requests = counters.requests /\ counters'.queries = counters.queries
        /\ counters'.storage[w] = counters.storage[w] + delta[w]
    BY <1>4, <1>7, FoldApart DEF RouteStats
  <2>3. job'[w].answered = 0 /\ job'[w].reads = job[w].reads
    BY <1>4, <1>7, <2>1 DEF RouteStats, Fresh, JobRecord
  <2>4. /\ Writes(w)' = 0 /\ Answered(w)' = 0 /\ Writes(w) = 0 /\ Answered(w) = 0
    BY <2>1, <2>3 DEF Writes, Answered, Tallied
  <2>5. receipts.storage[w] + job'[w].reads <= performed'[w]
    BY <1>2, <1>7, <2>1, <2>3 DEF RouteStats, Serving
  <2>6. receipts.storage[w] <= counters'.storage[w]
    BY <1>1, <1>2, <2>2
  <2>7. ReceiptsInv'
    BY <1>1, <1>3, <2>2, <2>4, <2>5, <2>6, Accounts
  <2>8. QED
    BY <2>1, <2>7, JobsApart
<1>8. CASE Query(w)
  <2>1. /\ pc[w] = "query" /\ pc'[w] \in {"query", "tally", "fold"}
        /\ Kind(w) = "search" /\ ~job[w].failed
    BY <1>4, <1>8 DEF Query, Goto, JobsInv
  <2>2. counters' = counters
    BY <1>8 DEF Query
  <2>3. /\ job'[w].request = job[w].request
        /\ pc'[w] = "fold" => job'[w].failed
        /\ pc'[w] \in {"query", "tally"} => job'[w].failed = job[w].failed
    BY <1>4, <1>8 DEF Query, Goto, JobRecord
  <2>4. /\ Writes(w)' = 0 /\ Answered(w)' = 0 /\ Writes(w) = 0 /\ Answered(w) = 0
    BY <2>1, <2>3 DEF Writes, Answered, Tallied
  <2>5. \/ performed'[w] = performed[w] + 1 /\ job'[w].reads = job[w].reads + 1
        \/ performed'[w] = performed[w] /\ job'[w].reads = job[w].reads
    BY <1>4, <1>8 DEF Query, ReadStorage, JobRecord
  <2>6. receipts.storage[w] + job'[w].reads <= performed'[w]
    BY <1>1, <1>2, <2>1, <2>5 DEF Serving
  <2>7. ReceiptsInv'
    BY <1>1, <1>2, <1>3, <2>2, <2>4, <2>6, Accounts
  <2>8. QED
    BY <2>1, <2>3, <2>7, JobsApart DEF Kind
<1>9. CASE Tally(w)
  <2>1. pc[w] = "tally" /\ pc'[w] = "fold" /\ job' = job /\ ~job[w].failed
        /\ performed' = performed
    BY <1>4, <1>9 DEF Tally, Goto, JobsInv
  <2>2. /\ counters'.requests = counters.requests
        /\ counters'.queries = counters.queries + job[w].answered
        /\ counters'.storage = counters.storage
    BY <1>4, <1>9 DEF Tally
  <2>3. /\ Writes(w)' = 0 /\ Answered(w)' = job[w].answered
        /\ Writes(w) = 0 /\ Answered(w) = 0
    BY <2>1 DEF Writes, Answered, Tallied
  <2>4. ReceiptsInv'
    BY <1>1, <1>2, <1>3, <2>1, <2>2, <2>3, Accounts DEF Serving
  <2>5. QED
    BY <2>1, <2>4, JobsApart
<1>10. CASE Fold(w)
  <2>1. pc[w] = "fold" /\ pc'[w] = "write" /\ job' = job /\ performed' = performed
        /\ delta'[w] = 0
    BY <1>4, <1>10 DEF Fold, Goto
  <2>2. /\ counters'.requests = counters.requests + 1
        /\ counters'.queries = counters.queries
        /\ counters'.storage[w] = counters.storage[w] + delta[w]
    BY <1>4, <1>10, FoldApart DEF Fold
  <2>3. /\ Writes(w)' = 1 /\ Answered(w)' = Answered(w)
        /\ Writes(w) = 0 /\ Answered(w) \in Nat
    BY <1>1, <2>1 DEF Writes, Answered, Tallied
  <2>4. receipts.storage[w] <= counters'.storage[w]
    BY <1>1, <1>2, <2>2
  <2>5. ReceiptsInv'
    BY <1>1, <1>2, <1>3, <2>1, <2>2, <2>3, <2>4, Accounts DEF Serving
  <2>6. QED
    BY <2>1, <2>5, JobsApart
<1>11. QED
  BY <1>5, <1>6, <1>7, <1>8, <1>9, <1>10

\* The response is taken.
LEMMA WriteTaken ==
  ASSUME TypeOK, TypeOK', StorageConserved, JobsInv, ReceiptsInv,
         NEW w \in Workers, Apart(w), Write(w), Connected(w)
  PROVE  JobsInv' /\ ReceiptsInv'
<1>1. /\ receipts.requests \in Nat /\ receipts.queries \in Nat
      /\ counters.requests \in Nat /\ counters.queries \in Nat
      /\ receipts.storage[w] \in Nat /\ counters.storage[w] \in Nat
      /\ performed[w] \in Nat
      /\ job[w].answered \in Nat /\ job[w].reads \in Nat
      /\ receipts \in TallyRecord
  BY JobFields, TallyFields, CounterFields
<1>2. pc[w] = "write" /\ delta[w] = 0
  BY DEF Write, JobsInv
<1>3. receipts' = Receipt(w) /\ counters' = counters /\ performed' = performed
  BY DEF Write
<1>4. /\ receipts'.requests = receipts.requests + 1
      /\ receipts'.queries = receipts.queries + Answered(w)
      /\ receipts'.storage[w] = receipts.storage[w] + job[w].reads
  BY <1>1, <1>2, <1>3 DEF Receipt, TallyRecord, Answered, Tallied
<1>5. /\ pc'[w] \in {"unix", "tcp", "reading"}
      /\ pc'[w] = "reading" \/ job'[w] = NoJob
  <2>1. CASE Leave(w, 1)
    BY <2>1, LeaveGoes
  <2>2. CASE Goto(w, "reading")
    BY <2>2 DEF Goto, TypeOK
  <2>3. QED
    BY <2>1, <2>2 DEF Write
<1>6. /\ Writes(w)' = 0 /\ Answered(w)' = 0 /\ Writes(w) = 1 /\ Answered(w) \in Nat
  BY <1>1, <1>2, <1>5 DEF Writes, Answered, Tallied
<1>7. receipts'.storage[w] <= counters'.storage[w]
  <2>1. receipts.storage[w] + job[w].reads <= performed[w]
        /\ counters.storage[w] + delta[w] = performed[w]
    BY <1>2 DEF ReceiptsInv, StorageConserved, Serving
  <2>2. QED
    BY <1>1, <1>2, <1>3, <1>4, <2>1
<1>8. ReceiptsInv'
  BY <1>1, <1>3, <1>4, <1>5, <1>6, <1>7, Accounts DEF Serving
<1>9. QED
  BY <1>5, <1>8, JobsApart

LEMMA WorkerAccounts ==
  ASSUME TypeOK, TypeOK', StorageConserved, StorageConserved', JobsInv, ReceiptsInv,
         NEW w \in Workers, Step(w) \/ ReadTimeout(w)
  PROVE  JobsInv' /\ ReceiptsInv'
<1>1. Apart(w)
  BY WorkerApart
<1>2. QED
  BY <1>1, OutsideRequest, InsideRequest, WriteTaken DEF Step

\* Clients, shutdown and the join touch no job and no account.
Elsewhere ==
  /\ pc' = pc /\ job' = job /\ delta' = delta /\ counters' = counters
  /\ performed' = performed /\ receipts' = receipts

LEMMA ElsewhereSteps ==
  ASSUME [Next]_vars, ~\E w \in Workers : Step(w) \/ ReadTimeout(w)
  PROVE  Elsewhere
BY DEF Next, Connect, Send, Hangup, Shutdown, Stop, vars, workVars, histVars, Elsewhere

LEMMA AccountsStep ==
  ASSUME TypeOK, TypeOK', StorageConserved, StorageConserved', JobsInv, ReceiptsInv,
         [Next]_vars
  PROVE  JobsInv' /\ ReceiptsInv'
<1>1. ASSUME NEW w \in Workers, Step(w) \/ ReadTimeout(w) PROVE JobsInv' /\ ReceiptsInv'
  BY <1>1, WorkerAccounts
<1>2. CASE Elsewhere
  <2>1. JobsInv'
    BY <1>2 DEF Elsewhere, JobsInv, Fresh, Kind
  <2>2. Writing' = Writing /\ UnwrittenQueries' = UnwrittenQueries
    BY <1>2 DEF Elsewhere, Writing, UnwrittenQueries, Unwritten, Tallied
  <2>3. ReceiptsInv'
    BY <1>2, <2>2 DEF Elsewhere, ReceiptsInv
  <2>4. QED
    BY <2>1, <2>3
<1>3. QED
  BY <1>1, <1>2, ElsewhereSteps

---------------------------------------------------------------------------
(* Floors, and what is shown. *)

\* Only writes change the receipts, and they add to them.
LEMMA ReceiptsGrow ==
  ASSUME TypeOK, [Next]_vars
  PROVE  AtMost(receipts, receipts')
<1>1. CASE receipts' = receipts
  <2>1. receipts \in TallyRecord
    BY DEF TypeOK
  <2>2. QED
    BY <1>1, <2>1 DEF AtMost, TallyRecord
<1>2. ASSUME NEW w \in Workers, Write(w), receipts' = Receipt(w)
      PROVE  AtMost(receipts, receipts')
  <2>1. /\ receipts \in TallyRecord
        /\ job[w].answered \in Nat /\ job[w].reads \in Nat
    BY JobFields, TallyFields
  <2>2. QED
    BY <1>2, <2>1 DEF AtMost, Receipt, TallyRecord
<1>3. ASSUME NEW w \in Workers, Step(w) \/ ReadTimeout(w), ~Write(w)
      PROVE  receipts' = receipts
  BY <1>3 DEF Step, histVars, Open, PollUnix, PollTcp, Read, Reject, ReadClosed, ReadTimeout,
     RouteOther, RouteRead, RouteStats, RouteSearch, Query, Tally, Fold
<1>4. ASSUME NEW w \in Workers, Write(w) PROVE receipts' = receipts \/ receipts' = Receipt(w)
  BY <1>4 DEF Write
<1>5. CASE \E w \in Workers : Step(w) \/ ReadTimeout(w)
  BY <1>1, <1>2, <1>3, <1>4, <1>5
<1>6. QED
  BY <1>1, <1>5, ElsewhereSteps DEF Elsewhere

\* A worker's step takes requests out of an inbox, and puts none in.
LEMMA InboxShrinks ==
  ASSUME TypeOK, NEW w \in Workers, Step(w) \/ ReadTimeout(w), NEW c \in Connections
  PROVE  \/ conn'[c].inbox = conn[c].inbox
         \/ conn'[c].inbox = <<>>
         \/ conn[c].inbox # <<>> /\ conn'[c].inbox = Tail(conn[c].inbox)
<1> USE DEF connVars
<1>0. conn[c] \in ConnectionRecord /\ conn \in [Connections -> ConnectionRecord]
  BY DEF TypeOK
<1>1. CASE Leave(w, 0) \/ Leave(w, 1) \/ Answer(w) \/ conn' = conn
  <2>1. ASSUME NEW got, Leave(w, got)
        PROVE  conn'[c].inbox = conn[c].inbox \/ conn'[c].inbox = <<>>
    <3>1. \/ conn'[c] = conn[c]
          \/ conn'[c] = [conn[c] EXCEPT !.state = "closed", !.inbox = <<>>, !.got = @ + got]
      BY <2>1 DEF Leave
    <3>2. [conn[c] EXCEPT !.state = "closed", !.inbox = <<>>, !.got = @ + got].inbox = <<>>
      BY <1>0 DEF ConnectionRecord
    <3>3. QED
      BY <3>1, <3>2
  <2>2. ASSUME Answer(w) PROVE conn'[c].inbox = conn[c].inbox
    <3>1. conn'[c] = conn[c] \/ conn'[c] = [conn[c] EXCEPT !.got = @ + 1]
      BY <1>0, <2>2 DEF Answer
    <3>2. [conn[c] EXCEPT !.got = @ + 1].inbox = conn[c].inbox
      BY <1>0 DEF ConnectionRecord
    <3>3. QED
      BY <3>1, <3>2
  <2>3. QED
    BY <1>1, <2>1, <2>2
<1>2. CASE Read(w)
  BY <1>0, <1>2 DEF Read, Inbox, ConnectionRecord
<1>3. ASSUME NEW l, TakeFirst(w, l)
      PROVE  conn'[c].inbox = conn[c].inbox
  BY <1>0, <1>3 DEF TakeFirst, ConnectionRecord
<1>4. CASE Open(w) \/ PollUnix(w) \/ PollTcp(w)
  BY <1>1, <1>3, <1>4 DEF Open, PollUnix, PollTcp, Accept
<1>5. CASE Reject(w) \/ ReadClosed(w) \/ ReadTimeout(w) \/ Write(w)
  BY <1>1, <1>5 DEF Reject, ReadClosed, ReadTimeout, Write
<1>6. CASE RouteOther(w) \/ RouteRead(w) \/ RouteStats(w) \/ RouteSearch(w)
           \/ Query(w) \/ Tally(w) \/ Fold(w)
  BY <1>1, <1>6 DEF RouteOther, RouteRead, RouteStats, RouteSearch, Query, Tally, Fold
<1>7. QED
  BY <1>2, <1>4, <1>5, <1>6 DEF Step

LEMMA FloorsStep ==
  ASSUME TypeOK, TypeOK', FloorsInv, [Next]_vars
  PROVE  FloorsInv'
<1>1. receipts \in TallyRecord /\ receipts' \in TallyRecord /\ AtMost(receipts, receipts')
  BY ReceiptsGrow DEF TypeOK
\* The floors there are stay below what has been received.
<1>2. ASSUME NEW f \in TallyRecord, AtMost(f, receipts) PROVE AtMost(f, receipts')
  BY <1>1, <1>2, AtMostTransitive
<1>3. \A c \in Connections : /\ conn[c].inbox \in Seq(RequestRecord)
                             /\ conn'[c].inbox \in Seq(RequestRecord)
  BY DEF TypeOK, ConnectionRecord
<1>4. \A r \in RequestRecord : r.floor \in TallyRecord
  BY DEF RequestRecord
<1>5. ASSUME NEW c \in Connections, NEW i \in 1 .. Len(conn'[c].inbox)
      PROVE  AtMost(conn'[c].inbox[i].floor, receipts')
  <2>1. CASE \E w \in Workers : Step(w) \/ ReadTimeout(w)
    <3>1. \E j \in 1 .. Len(conn[c].inbox) : conn'[c].inbox[i] = conn[c].inbox[j]
      <4>1. CASE conn'[c].inbox = conn[c].inbox
        BY <4>1
      <4>2. CASE conn'[c].inbox = <<>>
        BY <4>2
      <4>3. CASE conn[c].inbox # <<>> /\ conn'[c].inbox = Tail(conn[c].inbox)
        <5>1. i + 1 \in 1 .. Len(conn[c].inbox) /\ conn'[c].inbox[i] = conn[c].inbox[i + 1]
          BY <1>3, <4>3
        <5>2. QED
          BY <5>1
      <4>4. QED
        BY <2>1, <4>1, <4>2, <4>3, InboxShrinks
    <3>2. QED
      BY <1>2, <1>3, <1>4, <3>1 DEF FloorsInv
  <2>2. ASSUME NEW d \in Connections, NEW kind \in Kinds, NEW keep \in BOOLEAN,
               NEW size \in Sizes(kind), Send(d, kind, size, keep)
        PROVE  AtMost(conn'[c].inbox[i].floor, receipts')
    <3>1. PICK floor \in {NoTally, receipts} :
            conn' = [conn EXCEPT ![d].sent = @ + 1,
                                 ![d].inbox = Append(@, Request(kind, size, keep, floor))]
      BY <2>2 DEF Send
    <3>2. floor \in TallyRecord /\ AtMost(floor, receipts)
      <4>1. AtMost(receipts, receipts)
        BY <1>1 DEF AtMost, TallyRecord
      <4>2. QED
        BY <1>1, <4>1, NoTallyType, AtMostNoTally
    <3>3. CASE c # d
      <4>1. conn'[c] = conn[c]
        BY <3>1, <3>3 DEF TypeOK
      <4>2. QED
        BY <1>2, <1>3, <1>4, <4>1 DEF FloorsInv
    <3>4. CASE c = d
      <4>1. conn'[c].inbox = Append(conn[c].inbox, Request(kind, size, keep, floor))
        <5>1. conn[c] \in ConnectionRecord /\ conn \in [Connections -> ConnectionRecord]
          BY DEF TypeOK
        <5>2. conn'[c] = [conn[c] EXCEPT !.sent = @ + 1,
                            !.inbox = Append(@, Request(kind, size, keep, floor))]
          BY <3>1, <3>4, <5>1
        <5>3. QED
          BY <5>1, <5>2 DEF ConnectionRecord
      <4>2. CASE i \in 1 .. Len(conn[c].inbox)
        <5>1. conn'[c].inbox[i] = conn[c].inbox[i]
          BY <1>3, <4>1, <4>2
        <5>2. QED
          BY <1>2, <1>3, <1>4, <4>2, <5>1 DEF FloorsInv
      <4>3. CASE i \notin 1 .. Len(conn[c].inbox)
        <5>1. conn'[c].inbox[i] = Request(kind, size, keep, floor)
          BY <1>3, <4>1, <4>3
        <5>2. QED
          BY <1>2, <3>2, <5>1 DEF Request
      <4>4. QED
        BY <4>2, <4>3
    <3>5. QED
      BY <3>3, <3>4
  <2>3. CASE Stop \/ Shutdown \/ UNCHANGED vars
             \/ \E d \in Connections : Connect(d) \/ Hangup(d)
    <3>1. conn'[c].inbox = conn[c].inbox \/ conn'[c].inbox = <<>>
      <4>1. conn[c] \in ConnectionRecord /\ conn \in [Connections -> ConnectionRecord]
        BY DEF TypeOK
      <4>2. /\ [conn[c] EXCEPT !.state = "queued"].inbox = conn[c].inbox
            /\ [conn[c] EXCEPT !.gone = TRUE].inbox = conn[c].inbox
            /\ [conn[c] EXCEPT !.state = "closed", !.inbox = <<>>].inbox = <<>>
        BY <4>1 DEF ConnectionRecord
      <4>3. \/ conn'[c] = conn[c]
            \/ conn'[c] = [conn[c] EXCEPT !.state = "queued"]
            \/ conn'[c] = [conn[c] EXCEPT !.gone = TRUE]
            \/ conn'[c] = [conn[c] EXCEPT !.state = "closed", !.inbox = <<>>]
        BY <2>3, <4>1 DEF Stop, Shutdown, Connect, Hangup, vars, connVars
      <4>4. QED
        BY <4>2, <4>3
    <3>2. QED
      BY <1>2, <1>3, <1>4, <3>1 DEF FloorsInv
  <2>4. QED
    BY <2>1, <2>2, <2>3 DEF Next
<1>6. ASSUME NEW w \in Workers PROVE AtMost(job'[w].request.floor, receipts')
  <2>1. CASE job'[w].request = job[w].request
    <3>1. job[w].request.floor \in TallyRecord
      BY TallyFields
    <3>2. QED
      BY <1>2, <2>1, <3>1 DEF FloorsInv
  <2>2. CASE job'[w].request = NoRequest
    BY <1>1, <2>2, AtMostNoTally DEF NoRequest, Request
  <2>3. CASE Read(w)
    <3>1. /\ job[w].conn \in Connections /\ Inbox(w) = conn[job[w].conn].inbox
          /\ Inbox(w) # <<>> /\ job'[w].request = Head(Inbox(w))
      BY <2>3 DEF Read, Inbox, TypeOK, Job
    <3>2. 1 \in 1 .. Len(Inbox(w)) /\ Head(Inbox(w)) = Inbox(w)[1]
          /\ Inbox(w)[1] \in RequestRecord
      BY <1>3, <3>1
    <3>3. QED
      BY <1>2, <1>4, <3>1, <3>2 DEF FloorsInv
  <2>4. ASSUME Step(w) \/ ReadTimeout(w), ~Read(w)
        PROVE  job'[w].request = job[w].request \/ job'[w].request = NoRequest
    <3>1. job[w] \in JobRecord /\ job \in [Workers -> JobRecord]
      BY DEF TypeOK
    <3>2. NoJob.request = NoRequest
      BY DEF NoJob, Job
    <3>3. CASE Open(w) \/ RouteOther(w) \/ RouteSearch(w) \/ Tally(w) \/ Fold(w)
      BY <3>3 DEF Open, RouteOther, RouteSearch, Tally, Fold
    <3>4. CASE RouteRead(w) \/ RouteStats(w) \/ Query(w)
      BY <3>1, <3>4 DEF RouteRead, RouteStats, Query, JobRecord
    <3>5. CASE PollUnix(w) \/ PollTcp(w)
      BY <3>1, <3>5 DEF PollUnix, PollTcp, Accept, TakeFirst, Job
    <3>6. CASE Reject(w) \/ ReadClosed(w) \/ ReadTimeout(w)
      BY <3>2, <3>6, LeaveGoes DEF Reject, ReadClosed, ReadTimeout
    <3>7. CASE Write(w)
      BY <3>1, <3>2, <3>7, LeaveGoes DEF Write, Job
    <3>8. QED
      BY <2>4, <3>3, <3>4, <3>5, <3>6, <3>7 DEF Step
  <2>5. ASSUME ~(Step(w) \/ ReadTimeout(w)) PROVE job'[w] = job[w]
    <3>1. ASSUME NEW v \in Workers, Step(v) \/ ReadTimeout(v) PROVE job'[w] = job[w]
      BY <2>5, <3>1, WorkerApart DEF Apart
    <3>2. QED
      BY <3>1, ElsewhereSteps DEF Elsewhere
  <2>6. QED
    BY <2>1, <2>2, <2>3, <2>4, <2>5
<1>7. QED
  BY <1>5, <1>6 DEF FloorsInv

---------------------------------------------------------------------------
(* What is shown. *)

\* All that has happened.
Happened == [requests |-> counters.requests, queries |-> counters.queries,
             storage |-> performed]

LEMMA HappenedGrows ==
  ASSUME TypeOK, [Next]_vars
  PROVE  AtMost(Happened, Happened')
<1> USE DEF AtMost, Happened, histVars, CounterRecord
<1>1. /\ counters \in CounterRecord /\ counters.requests \in Nat /\ counters.queries \in Nat
      /\ performed \in [Workers -> Nat]
  BY CounterFields DEF TypeOK
<1>2. CASE performed' = performed /\ counters' = counters
  BY <1>1, <1>2
<1>3. ASSUME NEW w \in Workers, Step(w) \/ ReadTimeout(w)
      PROVE  AtMost(Happened, Happened')
  <2>0. job[w].answered \in Nat
    BY JobFields
  <2>1. CASE Open(w) \/ PollUnix(w) \/ PollTcp(w) \/ Read(w) \/ ReadClosed(w)
             \/ ReadTimeout(w) \/ RouteOther(w) \/ Write(w)
    BY <1>2, <2>1 DEF Open, PollUnix, PollTcp, Read, ReadClosed, ReadTimeout, RouteOther, Write
  <2>2. CASE Reject(w) \/ RouteSearch(w)
    BY <1>1, <2>2 DEF Reject, RouteSearch
  <2>3. CASE RouteRead(w) \/ Query(w)
    BY <1>1, <2>3 DEF RouteRead, Query, ReadStorage
  <2>4. CASE RouteStats(w) \/ Fold(w)
    <3>1. /\ performed' = performed /\ counters'.queries = counters.queries
          /\ counters'.requests \in {counters.requests, counters.requests + 1}
      BY <1>1, <2>4 DEF RouteStats, Fold
    <3>2. QED
      BY <1>1, <3>1
  <2>5. CASE Tally(w)
    <3>1. /\ performed' = performed /\ counters'.requests = counters.requests
          /\ counters'.queries = counters.queries + job[w].answered
      BY <1>1, <2>5 DEF Tally
    <3>2. QED
      BY <1>1, <2>0, <3>1
  <2>6. QED
    BY <1>3, <2>1, <2>2, <2>3, <2>4, <2>5 DEF Step
<1>4. QED
  BY <1>2, <1>3, ElsewhereSteps DEF Elsewhere

LEMMA HappenedType == TypeOK => Happened \in TallyRecord
BY CounterFields DEF TypeOK, Happened, TallyRecord

\* What a worker writes into a /stats body is exact.
LEMMA ShownExact ==
  ASSUME TypeOK, StorageConserved, ReceiptsInv, FloorsInv, NEW w \in Workers
  PROVE  /\ Shown(FoldInto(w)) \in TallyRecord
         /\ AtMost(job[w].request.floor, Shown(FoldInto(w)))
         /\ AtMost(Shown(FoldInto(w)), Happened)
<1> DEFINE body == Shown(FoldInto(w))
<1>1. body \in TallyRecord
  BY CounterFields, FoldType DEF Shown, TallyRecord
<1>2. IsFiniteSet(Writing) /\ IsFiniteSet(UnwrittenQueries)
  <2>1. IsFiniteSet(Writing)
    BY WorkersAssumption, FS_Subset DEF Writing
  <2>2. UnwrittenQueries = UnwrittenBut(w) \cup Unwritten(w)
    BY DEF UnwrittenQueries, UnwrittenBut
  <2>3. IsFiniteSet(UnwrittenQueries)
    BY <2>2, UnwrittenSize, UnwrittenSplit, FS_Union
  <2>4. QED
    BY <2>1, <2>3
<1>3. Cardinality(Writing) \in Nat /\ Cardinality(UnwrittenQueries) \in Nat
  BY <1>2, FS_CardinalityType
<1>4. receipts.requests <= counters.requests /\ receipts.queries <= counters.queries
  BY <1>3, TallyFields, CounterFields DEF ReceiptsInv
<1>5. ASSUME NEW v \in Workers
      PROVE  /\ receipts.storage[v] <= FoldInto(w)[v]
             /\ FoldInto(w)[v] <= performed[v]
  <2>1. /\ receipts.storage[v] <= counters.storage[v]
        /\ counters.storage[v] + delta[v] = performed[v]
    BY DEF ReceiptsInv, StorageConserved
  <2>2. /\ receipts.storage[v] \in Nat /\ counters.storage[v] \in Nat
        /\ performed[v] \in Nat /\ delta[v] \in Nat
    BY TallyFields
  <2>3. QED
    BY <2>1, <2>2, FoldApart
<1>6. AtMost(receipts, body)
  BY <1>4, <1>5 DEF AtMost, Shown
<1>7. AtMost(body, Happened)
  BY <1>5, CounterFields DEF AtMost, Shown, Happened
<1>8. AtMost(job[w].request.floor, body)
  BY <1>1, <1>6, TallyFields, AtMostTransitive DEF FloorsInv
<1>9. QED
  BY <1>1, <1>7, <1>8

\* A worker with a /stats body has just made it, or had it before.
LEMMA BodyKept ==
  ASSUME TypeOK, JobsInv, [Next]_vars, NEW w \in Workers,
         pc'[w] \in {"fold", "write"}, Kind(w)' = "stats"
  PROVE  \/ RouteStats(w)
         \/ pc[w] \in {"fold", "write"} /\ job'[w] = job[w]
<1> USE DEF Goto, TypeOK, Kind
<1>1. CASE Step(w) \/ ReadTimeout(w)
  <2>1. ~(Open(w) \/ PollUnix(w) \/ PollTcp(w) \/ Read(w) \/ Reject(w) \/ ReadClosed(w)
          \/ ReadTimeout(w) \/ Write(w))
    <3>1. ASSUME NEW got, Leave(w, got) PROVE FALSE
      BY <3>1, LeaveGoes
    <3>2. ASSUME NEW l, NEW next \in {"unix", "tcp"}, Accept(w, l, next) PROVE FALSE
      BY <3>2, AcceptGoes
    <3>3. QED
      BY <3>1, <3>2 DEF Open, PollUnix, PollTcp, Read, Reject, ReadClosed, ReadTimeout, Write
  <2>2. ~(RouteOther(w) \/ RouteRead(w) \/ RouteSearch(w) \/ Query(w) \/ Tally(w))
    <3>1. /\ job[w] \in JobRecord /\ job \in [Workers -> JobRecord]
          /\ pc \in [Workers -> PcLabel]
      OBVIOUS
    <3> HIDE DEF TypeOK
    <3>2. RouteOther(w) \/ RouteSearch(w) \/ Tally(w) => FALSE
      BY <3>1 DEF RouteOther, RouteSearch, Tally, JobsInv
    <3>3. RouteRead(w) \/ Query(w) => job'[w].request = job[w].request
      BY <3>1 DEF RouteRead, Query, JobRecord
    <3>4. RouteRead(w) \/ Query(w) => Kind(w) \in {"read", "search"}
      BY DEF RouteRead, Query, JobsInv
    <3>5. QED
      BY <3>2, <3>3, <3>4
  <2>3. CASE Fold(w)
    BY <2>3 DEF Fold
  <2>4. QED
    BY <1>1, <2>1, <2>2, <2>3 DEF Step
<1>2. ASSUME NEW v \in Workers, v # w, Step(v) \/ ReadTimeout(v)
      PROVE  pc[w] \in {"fold", "write"} /\ job'[w] = job[w]
  BY <1>2, WorkerApart DEF Apart
<1>3. CASE Elsewhere
  BY <1>3 DEF Elsewhere
<1>4. QED
  BY <1>1, <1>2, <1>3, ElsewhereSteps

LEMMA StatsStep ==
  ASSUME TypeOK, TypeOK', StorageConserved, StatsInv, [Next]_vars
  PROVE  StatsExact'
<1> USE DEF StatsInv
<1>1. SUFFICES ASSUME NEW w \in Workers, pc'[w] \in {"fold", "write"}, Kind(w)' = "stats"
               PROVE  /\ AtMost(job'[w].request.floor, job'[w].body)
                      /\ AtMost(job'[w].body, Happened')
  BY DEF StatsExact, Happened
<1>2. /\ Happened \in TallyRecord /\ Happened' \in TallyRecord
      /\ AtMost(Happened, Happened')
  BY HappenedType, HappenedGrows DEF TypeOK, Happened, TallyRecord
<1>3. CASE RouteStats(w)
  <2> DEFINE body == Shown(FoldInto(w))
  <2>1. /\ body \in TallyRecord
        /\ AtMost(job[w].request.floor, body)
        /\ AtMost(body, Happened)
    BY ShownExact
  <2>2. job'[w].request = job[w].request /\ job'[w].body = body
    BY <1>3 DEF RouteStats, TypeOK, JobRecord
  <2> HIDE DEF body
  <2>3. QED
    BY <1>2, <2>1, <2>2, AtMostTransitive
<1>4. CASE pc[w] \in {"fold", "write"} /\ job'[w] = job[w]
  <2>1. /\ AtMost(job[w].request.floor, job[w].body)
        /\ AtMost(job[w].body, Happened)
    BY <1>1, <1>4 DEF StatsExact, Happened, Kind
  <2>2. QED
    BY <1>2, <1>4, <2>1, TallyFields, AtMostTransitive
<1>5. QED
  BY <1>3, <1>4, <1>1, BodyKept

LEMMA StatsInit == Init => StatsInv
<1> SUFFICES ASSUME Init PROVE StatsInv
  OBVIOUS
<1> USE DEF Init
<1>1. Writing = {} /\ UnwrittenQueries = {}
  BY DEF Writing, UnwrittenQueries, Unwritten, Tallied
<1>2. Cardinality({}) = 0
  BY FS_EmptySet
<1>3. JobsInv /\ StatsExact
  BY DEF JobsInv, StatsExact
<1>4. ReceiptsInv
  BY <1>1, <1>2 DEF ReceiptsInv, Serving, NoTally, NoCounters, NoReads
<1>5. FloorsInv
  BY NoTallyType, AtMostNoTally DEF FloorsInv, NewConnection, NoJob, Job, NoRequest, Request
<1>6. QED
  BY <1>3, <1>4, <1>5 DEF StatsInv

\* A /stats body shows every response any client had taken when it asked, and
\* nothing that did not happen, whichever worker answers and however the folds,
\* the batches and the other scrapes interleave (api.rs, `Storage`).
THEOREM StatsAreExact == Spec => []StatsExact
<1>1. TypeOK /\ TypeOK' /\ StorageConserved /\ StorageConserved' /\ StatsInv /\ [Next]_vars
        => StatsInv'
  BY AccountsStep, FloorsStep, StatsStep DEF StatsInv
<1>2. StatsInv => StatsExact
  BY DEF StatsInv
<1>3. QED
  BY <1>1, <1>2, DaemonTypeInit, DaemonTypeStep, StorageInit, StorageStep, StatsInit, PTL
     DEF Spec
=============================================================================
