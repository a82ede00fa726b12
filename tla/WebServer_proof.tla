--------------------------- MODULE WebServer_proof ---------------------------
(***************************************************************************)
(* The jobs of the web server's executor, for any number of requests and   *)
(* viewers and any size of the queues: a request that ended left none      *)
(* behind, and every stream that frames may come for is registered.        *)
(***************************************************************************)
EXTENDS WebServer, TLAPS

USE WebAssumption

In(x, q) == \E i \in DOMAIN q : q[i] = x

\* x is in q at most once.
Single(x, q) == \A i, j \in DOMAIN q : q[i] = x /\ q[j] = x => i = j

ExecType ==
  /\ rpc \in [Requests -> RpcStates]
  /\ jobs \in Seq(Jobs)
  /\ busy \in Jobs \cup {NoJob}

Has(job)  == In(job, jobs) \/ busy = job
Once(job) == Single(job, jobs) /\ (busy = job => ~In(job, jobs))

\* Which jobs the executor may have for r, by where the handler of r is: a put that it gave
\* up may still run, but does not wait.  And r is registered only while it is handled.
Pending(r) ==
  /\ Once(Job("insert", r)) /\ Once(Job("put", r)) /\ Once(Job("pop", r))
  /\ Has(Job("insert", r)) => rpc[r] = "insert"
  /\ Has(Job("pop", r)) => rpc[r] \in {"popAnswer", "popTimeout"}
  /\ In(Job("put", r), jobs) => rpc[r] = "send"
  /\ busy = Job("put", r) => rpc[r] \in {"send", "popTimeout"}
  /\ r \in dispatch => rpc[r] \notin {"idle", "insert", "answered", "timeout"}

ExecInv == ExecType /\ \A r \in Requests : Pending(r)

-----------------------------------------------------------------------------
(* The work queue *)

LEMMA AppendIn ==
  ASSUME NEW S, NEW q \in Seq(S), NEW y \in S, NEW x
  PROVE  /\ Append(q, y) \in Seq(S)
         /\ In(x, Append(q, y)) <=> In(x, q) \/ x = y
         /\ Single(x, q) /\ (x = y => ~In(x, q)) => Single(x, Append(q, y))
  <1>1. /\ Append(q, y) \in Seq(S) /\ Len(Append(q, y)) = Len(q) + 1
        /\ \A i \in 1..Len(q) : Append(q, y)[i] = q[i]
        /\ Append(q, y)[Len(q) + 1] = y
        /\ DOMAIN q = 1..Len(q) /\ DOMAIN Append(q, y) = 1..(Len(q) + 1)
        /\ Len(q) \in Nat
    OBVIOUS
  <1>2. DOMAIN Append(q, y) = DOMAIN q \cup {Len(q) + 1} /\ Len(q) + 1 \notin DOMAIN q
    BY <1>1
  <1>3. QED
    BY <1>1, <1>2 DEF In, Single

LEMMA TailIn ==
  ASSUME NEW S, NEW q \in Seq(S), q # <<>>, NEW x
  PROVE  /\ Tail(q) \in Seq(S) /\ Head(q) \in S /\ In(Head(q), q)
         /\ In(x, Tail(q)) => In(x, q)
         /\ Single(x, q) => Single(x, Tail(q)) /\ (x = Head(q) => ~In(x, Tail(q)))
  <1>1. /\ Tail(q) \in Seq(S) /\ Head(q) \in S /\ Head(q) = q[1]
        /\ Len(q) \in Nat /\ Len(q) >= 1 /\ Len(Tail(q)) = Len(q) - 1
        /\ \A i \in 1..(Len(q) - 1) : Tail(q)[i] = q[i + 1]
        /\ DOMAIN q = 1..Len(q) /\ DOMAIN Tail(q) = 1..(Len(q) - 1)
    OBVIOUS
  <1>2. 1 \in DOMAIN q /\ \A i \in DOMAIN Tail(q) : i \in Nat /\ i + 1 \in DOMAIN q /\ i + 1 # 1
    BY <1>1
  <1>3. \A i \in DOMAIN Tail(q) : Tail(q)[i] = q[i + 1]
    BY <1>1
  <1>4. \A i, j \in DOMAIN Tail(q) : i + 1 = j + 1 => i = j
    BY <1>2
  <1>5. QED
    BY <1>1, <1>2, <1>3, <1>4 DEF In, Single

LEMMA CancelledIn ==
  ASSUME jobs \in Seq(Jobs), NEW r \in Requests
  PROVE  /\ Cancelled(Job("put", r)) \in Seq(Jobs)
         /\ ~In(Job("put", r), Cancelled(Job("put", r)))
         /\ \A op \in {"insert", "put", "pop"}, x \in Requests \cup Streams :
              /\ In(Job(op, x), Cancelled(Job("put", r))) => In(Job(op, x), jobs)
              /\ Single(Job(op, x), jobs) => Single(Job(op, x), Cancelled(Job("put", r)))
  <1> DEFINE q == Cancelled(Job("put", r))
  <1>1. /\ DOMAIN q = DOMAIN jobs
        /\ \A i \in DOMAIN jobs : q[i] = IF jobs[i] = Job("put", r) THEN Job("skip", r) ELSE jobs[i]
    BY DEF Cancelled, Job
  <1>2. q \in Seq(Jobs)
    BY DEF Cancelled, Job, Jobs
  <1>3. \A op \in {"insert", "put", "pop"}, x \in Requests \cup Streams : Job("skip", r) # Job(op, x)
    BY DEF Job
  <1>4. \A op \in {"insert", "put", "pop"}, x \in Requests \cup Streams, i \in DOMAIN jobs :
          q[i] = Job(op, x) => jobs[i] = Job(op, x)
    BY <1>1, <1>3
  <1>5. ~In(Job("put", r), q)
    BY <1>1, <1>3 DEF In
  <1> HIDE DEF q
  <1>6. QED
    BY <1>1, <1>2, <1>4, <1>5 DEF In, Single, q

Ops == {"insert", "put", "pop"}

LEMMA JobsDiffer ==
  /\ \A op, op2, x, y : Job(op, x) = Job(op2, y) <=> op = op2 /\ x = y
  /\ \A op \in Ops, x \in Requests \cup Streams : NoJob # Job(op, x) /\ Job("skip", x) # NoJob
  /\ \A op \in Ops, r \in Requests : Job(op, r) \in Jobs
  /\ \A s \in Streams : Job("put", s) \in Jobs /\ s \notin Requests
  BY DEF Job, Jobs, Ops

\* Submit(): the job is behind all others.
LEMMA Submitted ==
  ASSUME jobs \in Seq(Jobs), NEW op \in Ops, NEW y \in Requests \cup Streams,
         Job(op, y) \in Jobs, Submit(Job(op, y))
  PROVE  /\ jobs' \in Seq(Jobs)
         /\ \A op2 \in Ops, x \in Requests \cup Streams :
              /\ In(Job(op2, x), jobs') <=> In(Job(op2, x), jobs) \/ (op2 = op /\ x = y)
              /\ Single(Job(op2, x), jobs) /\ (op2 = op /\ x = y => ~In(Job(op2, x), jobs))
                   => Single(Job(op2, x), jobs')
  BY AppendIn, JobsDiffer DEF Submit

-----------------------------------------------------------------------------
(* ExecInv *)

LEMMA ExecInit == WebInit => ExecInv
  <1> SUFFICES ASSUME WebInit PROVE ExecInv
    OBVIOUS
  <1>1. ExecType
    BY DEF WebInit, ExecType, RpcStates
  <1>2. ASSUME NEW r \in Requests PROVE Pending(r)
    <2>1. \A op \in Ops : ~In(Job(op, r), jobs) /\ Single(Job(op, r), jobs) /\ busy # Job(op, r)
      BY JobsDiffer DEF WebInit, In, Single
    <2>2. QED
      BY <2>1 DEF WebInit, Pending, Has, Once, Ops
  <1>3. QED
    BY <1>1, <1>2 DEF ExecInv

\* Steps of the threads that do not touch the executor.
LEMMA Aside ==
  ASSUME ExecInv, UNCHANGED <<rpc, execVars>>, dispatch' \subseteq dispatch
  PROVE  ExecInv'
  BY DEF ExecInv, ExecType, Pending, Has, Once, execVars

\* Request, Send and Receive submit one job and move the handler on.
LEMMA HandlerSubmits ==
  ASSUME ExecInv, NEW r \in Requests, Request(r) \/ Send(r) \/ Receive(r)
  PROVE  ExecInv'
  <1>0. PICK op \in Ops, from \in RpcStates, to \in RpcStates :
          /\ \/ op = "insert" /\ from = "idle" /\ to = "insert"
             \/ op = "put" /\ from = "inserted" /\ to = "send"
             \/ op = "pop" /\ from = "await" /\ to = "popAnswer"
          /\ rpc[r] = from /\ rpc' = [rpc EXCEPT ![r] = to]
          /\ Submit(Job(op, r)) /\ UNCHANGED <<dispatch, busy>>
    <2>1. CASE Request(r)
      BY <2>1 DEF Request, Ops, RpcStates
    <2>2. CASE Send(r)
      BY <2>2 DEF Send, Ops, RpcStates
    <2>3. CASE Receive(r)
      BY <2>3 DEF Receive, Ops, RpcStates
    <2>4. QED
      BY <2>1, <2>2, <2>3
  <1>1. ExecType /\ \A x \in Requests : Pending(x)
    BY DEF ExecInv
  <1>2. /\ jobs' \in Seq(Jobs)
        /\ \A op2 \in Ops, x \in Requests \cup Streams :
             /\ In(Job(op2, x), jobs') <=> In(Job(op2, x), jobs) \/ (op2 = op /\ x = r)
             /\ Single(Job(op2, x), jobs) /\ (op2 = op /\ x = r => ~In(Job(op2, x), jobs))
                  => Single(Job(op2, x), jobs')
    BY <1>0, <1>1, JobsDiffer, Submitted DEF ExecType
  <1>3. ExecType'
    BY <1>0, <1>1, <1>2 DEF ExecType, RpcStates
  <1>4. ASSUME NEW x \in Requests PROVE Pending(x)'
    <2>1. CASE x # r
      BY <1>0, <1>1, <1>2, <2>1 DEF Pending, Has, Once, ExecType, Ops
    <2>2. CASE x = r
      <3>1. ~Has(Job(op, r)) /\ rpc'[r] = to
        BY <1>0, <1>1 DEF Pending, Has, ExecType, Ops
      <3>2. QED
        BY <1>0, <1>1, <1>2, <2>2, <3>1 DEF Pending, Has, Once, Ops
    <2>3. QED
      BY <2>1, <2>2
  <1>5. QED
    BY <1>3, <1>4 DEF ExecInv

\* Timeout cancels the put, if it waits, and submits the pop.
LEMMA TimeoutKeeps ==
  ASSUME ExecInv, NEW r \in Requests, Timeout(r)
  PROVE  ExecInv'
  <1>1. ExecType /\ \A x \in Requests : Pending(x)
    BY DEF ExecInv
  <1> DEFINE q == Cancelled(Job("put", r))
  <1>2. /\ q \in Seq(Jobs) /\ ~In(Job("put", r), q)
        /\ \A op \in Ops, x \in Requests \cup Streams :
             /\ In(Job(op, x), q) => In(Job(op, x), jobs)
             /\ Single(Job(op, x), jobs) => Single(Job(op, x), q)
    BY <1>1, CancelledIn DEF ExecType, Ops
  <1>3. jobs' = Append(q, Job("pop", r)) /\ UNCHANGED <<dispatch, busy>>
    BY DEF Timeout
  <1> HIDE DEF q
  <1>4. /\ jobs' \in Seq(Jobs)
        /\ \A op \in Ops, x \in Requests \cup Streams :
             /\ In(Job(op, x), jobs') <=> In(Job(op, x), q) \/ (op = "pop" /\ x = r)
             /\ Single(Job(op, x), q) /\ (op = "pop" /\ x = r => ~In(Job(op, x), q))
                  => Single(Job(op, x), jobs')
    BY <1>2, <1>3, AppendIn, JobsDiffer DEF Ops
  <1>5. rpc[r] \in {"send", "await"} /\ rpc' = [rpc EXCEPT ![r] = "popTimeout"]
    BY DEF Timeout
  <1>6. ExecType'
    BY <1>1, <1>3, <1>4, <1>5 DEF ExecType, RpcStates
  <1>7. ASSUME NEW x \in Requests PROVE Pending(x)'
    <2>1. CASE x # r
      <3>1. rpc'[x] = rpc[x] /\ (x \in dispatch' <=> x \in dispatch)
        BY <1>1, <1>3, <1>5, <2>1 DEF ExecType
      <3>2. ASSUME NEW op \in Ops
            PROVE  /\ In(Job(op, x), jobs') => In(Job(op, x), jobs)
                   /\ Single(Job(op, x), jobs) => Single(Job(op, x), jobs')
        BY <1>2, <1>4, <2>1
      <3>3. ASSUME NEW op \in Ops
            PROVE  /\ Once(Job(op, x)) => Once(Job(op, x))'
                   /\ Has(Job(op, x))' => Has(Job(op, x))
        BY <3>2, <1>3 DEF Once, Has
      <3>4. busy' = busy
        BY <1>3
      <3>5. QED
        BY <1>1, <3>1, <3>2, <3>3, <3>4 DEF Pending, Ops
    <2>2. CASE x = r
      <3>1. rpc'[x] = "popTimeout"
        BY <1>1, <1>5, <2>2 DEF ExecType
      <3>2. ~Has(Job("pop", x)) /\ ~Has(Job("insert", x))
        BY <1>1, <1>5, <2>2 DEF Pending
      <3>3. ~In(Job("put", x), jobs')
        BY <1>2, <1>4, <2>2 DEF Ops
      <3>4. ~In(Job("insert", x), jobs) /\ ~In(Job("pop", x), q)
        BY <1>2, <2>2, <3>2 DEF Ops, Has
      <3>5. ~In(Job("insert", x), jobs')
        BY <1>2, <1>4, <2>2, <3>4 DEF Ops
      <3>6. ASSUME NEW op \in Ops PROVE Single(Job(op, x), jobs) => Single(Job(op, x), jobs')
        BY <1>2, <1>4, <2>2, <3>4
      <3>7. Once(Job("insert", x))'
        BY <1>1, <1>3, <3>2, <3>5, <3>6 DEF Pending, Once, Has, Ops
      <3>8. Once(Job("put", x))'
        BY <1>1, <1>3, <3>3, <3>6 DEF Pending, Once, Ops
      <3>9. Once(Job("pop", x))'
        BY <1>1, <1>3, <3>2, <3>6 DEF Pending, Once, Has, Ops
      <3>10. ~Has(Job("insert", x))'
        BY <1>3, <3>2, <3>5 DEF Has
      <3>11. QED
        BY <3>1, <3>3, <3>7, <3>8, <3>9, <3>10 DEF Pending
    <2>3. QED
      BY <2>1, <2>2
  <1>8. QED
    BY <1>6, <1>7 DEF ExecInv

\* TakeJob moves the first job to the thread, or drops it if it was cancelled.
LEMMA TakeJobKeeps ==
  ASSUME ExecInv, TakeJob
  PROVE  ExecInv'
  <1>1. ExecType /\ \A x \in Requests : Pending(x)
    BY DEF ExecInv
  <1>2. /\ busy = NoJob /\ jobs # <<>> /\ jobs' = Tail(jobs)
        /\ busy' \in {NoJob, Head(jobs)} /\ UNCHANGED <<rpc, dispatch>>
    BY DEF TakeJob, rpcVars
  <1>3. /\ jobs' \in Seq(Jobs) /\ Head(jobs) \in Jobs
        /\ \A j : /\ In(j, jobs') => In(j, jobs)
                  /\ Single(j, jobs) => Single(j, jobs') /\ (j = Head(jobs) => ~In(j, jobs'))
        /\ In(Head(jobs), jobs)
    BY <1>1, <1>2, TailIn DEF ExecType
  <1>4. ExecType'
    BY <1>1, <1>2, <1>3 DEF ExecType
  <1>5. ASSUME NEW x \in Requests PROVE Pending(x)'
    <2>1. ASSUME NEW op \in Ops
          PROVE  /\ Once(Job(op, x)) => Once(Job(op, x))'
                 /\ Has(Job(op, x))' => In(Job(op, x), jobs)
                 /\ In(Job(op, x), jobs') => In(Job(op, x), jobs)
                 /\ busy' = Job(op, x) => In(Job(op, x), jobs)
      <3>1. NoJob # Job(op, x)
        BY JobsDiffer
      <3>2. QED
        BY <1>2, <1>3, <3>1 DEF Once, Has
    <2>2. QED
      BY <1>1, <1>2, <2>1 DEF Pending, Has, Ops
  <1>6. QED
    BY <1>4, <1>5 DEF ExecInv

\* The job of r is done, and its handler goes on.
LEMMA RunRequestKeeps ==
  ASSUME ExecInv, NEW r \in Requests, RunInsert(r) \/ RunPop(r) \/ RunPutRequest(r)
  PROVE  ExecInv'
  <1>1. ExecType /\ \A x \in Requests : Pending(x)
    BY DEF ExecInv
  <1>2. /\ busy' = NoJob /\ UNCHANGED jobs /\ \E op \in Ops : busy = Job(op, r)
        /\ \A x \in Requests \ {r} : rpc'[x] = rpc[x] /\ (x \in dispatch' <=> x \in dispatch)
    BY <1>1 DEF RunInsert, RunPop, RunPutRequest, Ops, ExecType
  <1>3. ExecType'
    BY <1>1, <1>2 DEF ExecType, RunInsert, RunPop, RunPutRequest, RpcStates
  <1>4. \A x \in Requests, op \in Ops : busy' # Job(op, x)
    BY <1>2, JobsDiffer
  <1>5. ASSUME NEW x \in Requests \ {r} PROVE Pending(x)'
    BY <1>1, <1>2, <1>4, <1>5 DEF Pending, Has, Once, Ops
  <1>6. Pending(r)'
    <2>1. CASE RunInsert(r)
      <3>1. rpc[r] = "insert" /\ rpc'[r] = "inserted" /\ ~In(Job("insert", r), jobs)
        BY <1>1, <2>1 DEF RunInsert, ExecType, Pending, Has, Once
      <3>2. QED
        BY <1>1, <1>2, <1>4, <3>1 DEF Pending, Has, Once, Ops
    <2>2. CASE RunPop(r)
      <3>1. /\ rpc[r] \in {"popAnswer", "popTimeout"} /\ rpc'[r] \in {"answered", "timeout"}
            /\ ~In(Job("pop", r), jobs) /\ r \notin dispatch'
        BY <1>1, <2>2 DEF RunPop, ExecType, Pending, Has, Once
      <3>2. QED
        BY <1>1, <1>2, <1>4, <3>1 DEF Pending, Has, Once, Ops
    <2>3. CASE RunPutRequest(r)
      <3>1. /\ rpc[r] \in {"send", "popTimeout"} /\ UNCHANGED dispatch
            /\ rpc'[r] = IF rpc[r] = "send" THEN "await" ELSE rpc[r]
            /\ ~In(Job("put", r), jobs)
        BY <1>1, <2>3 DEF RunPutRequest, ExecType, Pending, Has, Once
      <3>2. QED
        BY <1>1, <1>2, <1>4, <3>1 DEF Pending, Has, Once, Ops
    <2>4. QED
      BY <2>1, <2>2, <2>3
  <1>7. QED
    BY <1>3, <1>5, <1>6 DEF ExecInv

\* Jobs for a stream are none of a request's.
LEMMA StreamJobsKeep ==
  ASSUME ExecInv, NEW s \in Streams, RunPutCtl(s) \/ \E v \in Viewers : Offer(v, s)
  PROVE  ExecInv'
  <1>1. ExecType /\ \A x \in Requests : Pending(x)
    BY DEF ExecInv
  <1>2. UNCHANGED <<rpc, dispatch>>
    BY DEF RunPutCtl, Offer, rpcVars
  <1>3. /\ jobs' \in Seq(Jobs) /\ busy' \in {busy, NoJob}
        /\ \A op \in Ops, x \in Requests :
             /\ In(Job(op, x), jobs') => In(Job(op, x), jobs)
             /\ Single(Job(op, x), jobs) => Single(Job(op, x), jobs')
    <2>1. CASE RunPutCtl(s)
      BY <1>1, <2>1 DEF RunPutCtl, ExecType
    <2>2. CASE \E v \in Viewers : Offer(v, s)
      <3>1. busy' = busy /\ (jobs' = jobs \/ Submit(Job("put", s)))
        BY <2>2 DEF Offer
      <3>2. CASE jobs' = jobs
        BY <1>1, <3>1, <3>2 DEF ExecType
      <3>3. CASE Submit(Job("put", s))
        BY <1>1, <3>1, <3>3, Submitted, JobsDiffer DEF ExecType, Ops
      <3>4. QED
        BY <3>1, <3>2, <3>3
    <2>3. QED
      BY <2>1, <2>2
  <1>4. \A op \in Ops, x \in Requests : busy' = Job(op, x) => busy = Job(op, x)
    BY <1>3, JobsDiffer
  <1>5. ExecType'
    BY <1>1, <1>2, <1>3 DEF ExecType
  <1>6. ASSUME NEW x \in Requests PROVE Pending(x)'
    BY <1>1, <1>2, <1>3, <1>4 DEF Pending, Has, Once, Ops
  <1>7. QED
    BY <1>5, <1>6 DEF ExecInv

LEMMA ExecNext == ExecInv /\ [WebNext]_vars => ExecInv'
  <1> SUFFICES ASSUME ExecInv, [WebNext]_vars PROVE ExecInv'
    OBVIOUS
  <1>1. CASE LoopStep
    BY <1>1, HandlerSubmits, TimeoutKeeps DEF LoopStep
  <1>2. CASE TakeJob
    BY <1>2, TakeJobKeeps
  <1>3. CASE RunJob
    BY <1>3, RunRequestKeeps, StreamJobsKeep DEF RunJob
  <1>4. CASE ReadAnswer
    BY <1>4, Aside DEF ReadAnswer, rpcVars
  <1>5. CASE SetResult
    BY <1>5, Aside DEF SetResult
  <1>6. CASE MainStep
    BY <1>6, Aside DEF MainStep, Respond, ListStreams, StreamCtl, rpcVars
  <1>7. ASSUME NEW v \in Viewers, (\E s \in Streams : Offer(v, s)) \/ Leave(v) \/ Recv(v)
        PROVE  ExecInv'
    BY <1>7, StreamJobsKeep, Aside DEF Leave, Recv, rpcVars
  <1>8. ASSUME NEW s \in Streams, Enable(s) \/ RestartWorker(s) \/ Frame(s)
        PROVE  ExecInv'
    BY <1>8, Aside DEF Enable, RestartWorker, Frame, rpcVars
  <1>9. CASE ReadFrame
    BY <1>9, Aside DEF ReadFrame, rpcVars
  <1>10. CASE UNCHANGED vars
    BY <1>10, Aside DEF vars, rpcVars
  <1>11. QED
    BY <1>1, <1>2, <1>3, <1>4, <1>5, <1>6, <1>7, <1>8, <1>9, <1>10 DEF WebNext

\* Whatever times out, is cancelled or runs late: an ended request left no future and no job
\* (WebServer.request, ResponseDispatcher.insert).
THEOREM NothingLeftBehindHolds == WebSafeSpec => []NothingLeftBehind
  <1>1. ExecInv => NothingLeftBehind
    <2> SUFFICES ASSUME ExecInv, NEW r \in Requests, Ended(r)
                 PROVE  /\ r \notin dispatch
                        /\ \A job \in RangeOf(jobs) \cup {busy} :
                             job \notin {Job(op, r) : op \in {"insert", "put", "pop"}}
      BY DEF NothingLeftBehind
    <2>1. Pending(r) /\ rpc[r] \in {"answered", "timeout"}
      BY DEF ExecInv, Ended
    <2>2. \A op \in Ops : ~In(Job(op, r), jobs) /\ busy # Job(op, r)
      BY <2>1 DEF Pending, Has, Ops
    <2>3. \A job \in RangeOf(jobs) : In(job, jobs)
      BY DEF RangeOf, In
    <2>4. QED
      BY <2>1, <2>2, <2>3 DEF Pending, Ops
  <1>2. QED
    BY <1>1, ExecInit, ExecNext, PTL DEF WebSafeSpec

-----------------------------------------------------------------------------
(* Streams *)

\* Whatever is under way for a stream, from the order to enable it to a frame, the stream is
\* registered.
StreamsInv ==
  /\ msgq \in Seq(Requests \cup Streams) /\ vidq \in Seq(Streams)
  /\ camCmds \cup enabled \subseteq streams
  /\ \A s \in Streams :
       In(s, msgq) \/ In(s, vidq) \/ Has(Job("put", s)) => s \in streams

\* Only an offer submits a job for a stream.
LEMMA StreamJobsFromOffers ==
  ASSUME ExecInv, [WebNext]_vars, NEW s \in Streams, Has(Job("put", s))'
  PROVE  Has(Job("put", s)) \/ \E v \in Viewers : Offer(v, s)
  <1>1. jobs \in Seq(Jobs) /\ NoJob # Job("put", s)
    BY JobsDiffer DEF ExecInv, ExecType, Ops
  <1>2. ASSUME NEW r \in Requests, Request(r) \/ Send(r) \/ Receive(r)
        PROVE  Has(Job("put", s))
    <2>1. PICK op \in Ops : Submit(Job(op, r)) /\ busy' = busy
      BY <1>2 DEF Request, Send, Receive, Ops
    <2>2. In(Job("put", s), jobs') => In(Job("put", s), jobs)
      BY <1>1, <2>1, Submitted, JobsDiffer DEF Ops
    <2>3. QED
      BY <2>1, <2>2 DEF Has
  <1>3. ASSUME NEW r \in Requests, Timeout(r)
        PROVE  Has(Job("put", s))
    <2>1. /\ Cancelled(Job("put", r)) \in Seq(Jobs)
          /\ In(Job("put", s), Cancelled(Job("put", r))) => In(Job("put", s), jobs)
      BY <1>1, CancelledIn
    <2>2. jobs' = Append(Cancelled(Job("put", r)), Job("pop", r)) /\ busy' = busy
      BY <1>3 DEF Timeout
    <2>3. In(Job("put", s), jobs') => In(Job("put", s), jobs)
      BY <2>1, <2>2, AppendIn, JobsDiffer DEF Ops
    <2>4. QED
      BY <2>2, <2>3 DEF Has
  <1>4. CASE TakeJob
    <2>1. jobs # <<>> /\ jobs' = Tail(jobs) /\ busy' \in {NoJob, Head(jobs)}
      BY <1>4 DEF TakeJob
    <2>2. In(Head(jobs), jobs) /\ (In(Job("put", s), jobs') => In(Job("put", s), jobs))
      BY <1>1, <2>1, TailIn
    <2>3. QED
      BY <1>1, <2>1, <2>2 DEF Has
  <1>5. CASE RunJob
    BY <1>1, <1>5 DEF RunJob, RunInsert, RunPop, RunPutRequest, RunPutCtl, Has
  <1>6. ASSUME NEW v \in Viewers, NEW s2 \in Streams, Offer(v, s2)
        PROVE  Has(Job("put", s)) \/ Offer(v, s)
    <2>1. CASE s2 = s
      BY <1>6, <2>1
    <2>2. CASE s2 # s
      <3>1. busy' = busy /\ (jobs' = jobs \/ Submit(Job("put", s2)))
        BY <1>6 DEF Offer
      <3>2. In(Job("put", s), jobs') => In(Job("put", s), jobs)
        BY <1>1, <2>2, <3>1, Submitted, JobsDiffer DEF Ops
      <3>3. QED
        BY <3>1, <3>2 DEF Has
    <2>3. QED
      BY <2>1, <2>2
  <1>7. CASE UNCHANGED execVars
    BY <1>7 DEF execVars, Has
  <1>8. QED
    <2>1. CASE LoopStep
      BY <1>2, <1>3, <2>1 DEF LoopStep
    <2>2. CASE ReadAnswer \/ SetResult \/ MainStep \/ ReadFrame \/ UNCHANGED vars
      BY <1>7, <2>2 DEF ReadAnswer, SetResult, MainStep, Respond, ListStreams, StreamCtl,
                        ReadFrame, vars
    <2>3. ASSUME NEW v \in Viewers, Leave(v) \/ Recv(v)
          PROVE  Has(Job("put", s))
      BY <1>7, <2>3 DEF Leave, Recv, execVars, Has
    <2>4. ASSUME NEW s2 \in Streams, Enable(s2) \/ RestartWorker(s2) \/ Frame(s2)
          PROVE  Has(Job("put", s))
      BY <2>4 DEF Enable, RestartWorker, Frame, execVars, Has
    <2>5. QED
      BY <1>4, <1>5, <1>6, <2>1, <2>2, <2>3, <2>4 DEF WebNext

\* msg_queue: a stream is put there by its job only.
LEMMA MessagesFromJobs ==
  ASSUME StreamsInv, [WebNext]_vars
  PROVE  /\ msgq' \in Seq(Requests \cup Streams)
         /\ \A s \in Streams : In(s, msgq') => In(s, msgq) \/ Has(Job("put", s))
  <1>1. msgq \in Seq(Requests \cup Streams) /\ Requests \cap Streams = {}
    BY DEF StreamsInv
  <1>2. ASSUME NEW r \in Requests, RunPutRequest(r)
        PROVE  /\ msgq' \in Seq(Requests \cup Streams)
               /\ \A s \in Streams : In(s, msgq') => In(s, msgq)
    BY <1>1, <1>2, AppendIn DEF RunPutRequest
  <1>3. ASSUME NEW t \in Streams, RunPutCtl(t)
        PROVE  /\ msgq' \in Seq(Requests \cup Streams)
               /\ \A s \in Streams : In(s, msgq') => In(s, msgq) \/ s = t
               /\ Has(Job("put", t))
    BY <1>1, <1>3, AppendIn DEF RunPutCtl, Has
  <1>4. CASE MainStep
    <2>1. PICK x \in Requests \cup Streams : Received(x)
      BY <1>4 DEF MainStep, Respond, ListStreams, StreamCtl
    <2>2. QED
      BY <1>1, <2>1, TailIn DEF Received
  <1>5. CASE UNCHANGED msgq
    BY <1>1, <1>5
  <1>6. QED
    <2>1. CASE LoopStep \/ TakeJob \/ ReadAnswer \/ SetResult \/ ReadFrame \/ UNCHANGED vars
      BY <1>5, <2>1 DEF LoopStep, Request, Send, Receive, Timeout, TakeJob, ReadAnswer,
                        SetResult, ReadFrame, vars
    <2>2. CASE RunJob
      BY <1>2, <1>3, <1>5, <2>2 DEF RunJob, RunInsert, RunPop
    <2>3. ASSUME NEW v \in Viewers, (\E s \in Streams : Offer(v, s)) \/ Leave(v) \/ Recv(v)
          PROVE  UNCHANGED msgq
      BY <2>3 DEF Offer, Leave, Recv
    <2>4. ASSUME NEW s \in Streams, Enable(s) \/ RestartWorker(s) \/ Frame(s)
          PROVE  UNCHANGED msgq
      BY <2>4 DEF Enable, RestartWorker, Frame
    <2>5. QED
      BY <1>4, <1>5, <2>1, <2>2, <2>3, <2>4 DEF WebNext

LEMMA StreamsInit == WebInit => StreamsInv
  <1> SUFFICES ASSUME WebInit PROVE StreamsInv
    OBVIOUS
  <1>1. \A s \in Streams : ~Has(Job("put", s))
    BY JobsDiffer DEF WebInit, Has, In, Ops
  <1>2. QED
    BY <1>1 DEF WebInit, StreamsInv, In

LEMMA StreamsNext ==
  ASSUME ExecInv, StreamsInv, [WebNext]_vars
  PROVE  StreamsInv'
  <1>1. streams \subseteq streams' /\ \A v \in Viewers, s \in Streams : Offer(v, s) => s \in streams'
    <2>1. streams' = streams \/ \E v \in Viewers, s \in Streams : Offer(v, s)
      <3>1. CASE LoopStep \/ TakeJob \/ RunJob \/ ReadAnswer \/ SetResult \/ MainStep \/ ReadFrame
                 \/ UNCHANGED vars
        BY <3>1 DEF LoopStep, Request, Send, Receive, Timeout, TakeJob, RunJob, RunInsert, RunPop,
                    RunPutRequest, RunPutCtl, ReadAnswer, SetResult, MainStep, Respond,
                    ListStreams, StreamCtl, ReadFrame, vars, viewVars
      <3>2. ASSUME NEW v \in Viewers, Leave(v) \/ Recv(v)
            PROVE  streams' = streams
        BY <3>2 DEF Leave, Recv, viewVars
      <3>3. ASSUME NEW s \in Streams, Enable(s) \/ RestartWorker(s) \/ Frame(s)
            PROVE  streams' = streams
        BY <3>3 DEF Enable, RestartWorker, Frame, viewVars
      <3>4. QED
        BY <3>1, <3>2, <3>3 DEF WebNext
    <2>2. QED
      BY <2>1 DEF Offer
  <1>2. /\ msgq' \in Seq(Requests \cup Streams)
        /\ \A s \in Streams : In(s, msgq') => s \in streams'
    BY <1>1, MessagesFromJobs DEF StreamsInv
  <1>3. \A s \in Streams : Has(Job("put", s))' => s \in streams'
    BY <1>1, StreamJobsFromOffers DEF StreamsInv
  <1>4. /\ vidq' \in Seq(Streams)
        /\ \A s \in Streams : In(s, vidq') => In(s, vidq) \/ s \in enabled
    <2>1. ASSUME NEW t \in Streams, Frame(t)
          PROVE  /\ vidq' \in Seq(Streams)
                 /\ \A s \in Streams : In(s, vidq') => In(s, vidq) \/ s \in enabled
      BY <2>1, AppendIn DEF Frame, StreamsInv
    <2>2. CASE ReadFrame
      BY <2>2, TailIn DEF ReadFrame, StreamsInv
    <2>3. CASE UNCHANGED vidq
      BY <2>3 DEF StreamsInv
    <2>4. CASE LoopStep \/ TakeJob \/ RunJob \/ ReadAnswer \/ SetResult \/ MainStep
               \/ UNCHANGED vars
      BY <2>3, <2>4 DEF LoopStep, Request, Send, Receive, Timeout, TakeJob, RunJob, RunInsert,
                        RunPop, RunPutRequest, RunPutCtl, ReadAnswer, SetResult, MainStep,
                        Respond, ListStreams, StreamCtl, vars, videoVars
    <2>5. ASSUME NEW v \in Viewers, (\E s \in Streams : Offer(v, s)) \/ Leave(v) \/ Recv(v)
          PROVE  UNCHANGED vidq
      BY <2>5 DEF Offer, Leave, Recv, videoVars
    <2>6. ASSUME NEW s \in Streams, Enable(s) \/ RestartWorker(s)
          PROVE  UNCHANGED vidq
      BY <2>6 DEF Enable, RestartWorker, videoVars
    <2>7. QED
      BY <2>1, <2>2, <2>3, <2>4, <2>5, <2>6 DEF WebNext
  <1>5. camCmds' \cup enabled' \subseteq streams
    <2>1. ASSUME NEW s \in Streams, StreamCtl(s)
          PROVE  camCmds' \cup enabled' \subseteq streams
      <3>1. In(s, msgq)
        BY <2>1, TailIn DEF StreamCtl, Received, StreamsInv
      <3>2. QED
        BY <2>1, <3>1 DEF StreamCtl, StreamsInv
    <2>2. ASSUME NEW s \in Streams, Enable(s) \/ RestartWorker(s) \/ Frame(s)
          PROVE  camCmds' \cup enabled' \subseteq streams
      BY <2>2 DEF Enable, RestartWorker, Frame, cameraVars, StreamsInv
    <2>3. CASE UNCHANGED cameraVars
      BY <2>3 DEF cameraVars, StreamsInv
    <2>4. CASE LoopStep \/ TakeJob \/ RunJob \/ ReadAnswer \/ SetResult \/ ReadFrame
               \/ UNCHANGED vars
      BY <2>3, <2>4 DEF LoopStep, Request, Send, Receive, Timeout, TakeJob, RunJob, RunInsert,
                        RunPop, RunPutRequest, RunPutCtl, ReadAnswer, SetResult, ReadFrame, vars
    <2>5. CASE MainStep
      BY <2>1, <2>3, <2>5 DEF MainStep, Respond, ListStreams
    <2>6. ASSUME NEW v \in Viewers, (\E s \in Streams : Offer(v, s)) \/ Leave(v) \/ Recv(v)
          PROVE  UNCHANGED cameraVars
      BY <2>6 DEF Offer, Leave, Recv
    <2>7. QED
      BY <2>2, <2>3, <2>4, <2>5, <2>6 DEF WebNext
  <1>6. QED
    BY <1>1, <1>2, <1>3, <1>4, <1>5 DEF StreamsInv

\* A worker is asked for frames after the stream was registered, and no stream is forgotten:
\* read_frame finds the handler of every frame (get_stream, read_frame).
THEOREM FramesHaveHandlerHolds == WebSafeSpec => []FramesHaveHandler
  <1>1. StreamsInv => FramesHaveHandler
    <2> SUFFICES ASSUME StreamsInv PROVE RangeOf(vidq) \cup enabled \subseteq streams
      BY DEF FramesHaveHandler
    <2>1. ASSUME NEW i \in DOMAIN vidq PROVE vidq[i] \in streams
      <3>1. vidq[i] \in Streams
        BY DEF StreamsInv
      <3>2. QED
        BY <3>1 DEF StreamsInv, In
    <2>2. QED
      BY <2>1 DEF StreamsInv, RangeOf
  <1>2. ExecInv /\ StreamsInv /\ [WebNext]_vars => ExecInv' /\ StreamsInv'
    BY ExecNext, StreamsNext
  <1>3. WebInit => ExecInv /\ StreamsInv
    BY ExecInit, StreamsInit
  <1>4. QED
    BY <1>1, <1>2, <1>3, PTL DEF WebSafeSpec
=============================================================================
