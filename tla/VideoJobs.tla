----------------------------- MODULE VideoJobs ------------------------------
(***************************************************************************)
(* Video requests and the local media cache they write to                  *)
(* (app/products/openai/video.py over app/platform/storage).               *)
(*                                                                         *)
(* A request is a job (POST /v1/videos), which runs in a background task   *)
(* and is polled, or a streamed chat completion, whose generation runs in  *)
(* a task that feeds a progress queue.  Both reserve an account, create a  *)
(* post, generate the video segment by segment and settle the account.  A  *)
(* job downloads the video under its account and saves it afterwards, on   *)
(* the event loop: while it waits for the cache its whole process waits.   *)
(* A stream saves in a thread, under its account, and falls back to the    *)
(* upstream URL when anything goes wrong.                                  *)
(*                                                                         *)
(* Worker processes crash and restart; an administrator clears the cache,  *)
(* deletes a file or changes the limit, which a worker sees only when it   *)
(* next loads its configuration.                                           *)
(***************************************************************************)
EXTENDS MediaCache, Sequences

CONSTANTS Workers, Requests, Admin,
          Home,        \* [Requests \cup {Admin} -> Workers]
          Jobs,        \* the requests that are jobs
          File,        \* [Requests -> Names]
          Segments,    \* [Requests -> Nat], _build_segment_lengths of each
          Readings,    \* progress values the upstream reports
          MaxInflight, \* accounts.max_inflight over the one account
          Leftovers,   \* what the directory may hold at first
          Limits,      \* values of cache.local.video_max_mb
          MaxAdmin,    \* bound: administrator's operations
          Mortal,      \* bound: the workers that may crash, and
          MaxCrashes,  \* how often in all
          MaxQueued    \* bound: progress values waiting in a queue

ASSUME VideoAssumption ==
    /\ Ops = Requests \cup Workers \cup {Admin}
    /\ IsFiniteSet(Requests) /\ Admin \notin Requests
    /\ Workers \cap (Requests \cup {Admin}) = {}
    /\ Home \in [Requests \cup {Admin} -> Workers]
    /\ Jobs \subseteq Requests /\ File \in [Requests -> Names]
    /\ Segments \in [Requests -> Nat \ {0}] /\ Readings \subseteq 0..100
    /\ Leftovers \subseteq [Names -> 0..Cardinality(Names)]
    /\ \A left \in Leftovers, m, n \in Names : left[m] = left[n] /\ left[m] > 0 => m = n
    /\ MaxInflight \in Nat /\ Limits \subseteq Nat
    /\ MaxAdmin \in Nat /\ MaxCrashes \in Nat /\ Mortal \subseteq Workers /\ MaxQueued \in Nat

VARIABLES
    up,          \* "starting" | "up" | "down", by worker
    crashes,
    load,        \* the account's in-flight count in each worker
    limit,       \* the limit each worker last loaded
    configured,  \* the limit in the configuration store
    lax,         \* since the last reconcile a file was saved under another
                 \* limit than the configured one
    adminStep, adminOps,
    stage,       \* where each request is
    segment,     \* the segment it generates
    ok,          \* whether the generation succeeded
    job,         \* status and progress of a job, NoJob when it is not listed
    queue,       \* progress values its stream has not shown
    shown,       \* the highest progress its stream has shown
    reached,     \* the highest progress reported to its queue
    reply        \* how its stream ended

jobVars    == <<stage, segment, ok, job>>
streamVars == <<queue, shown, reached, reply>>
adminVars  == <<configured, adminStep, adminOps>>
vars == <<disk, rows, clock, guard, tx, victims, up, crashes, load, limit, lax,
          configured, adminStep, adminOps, stage, segment, ok, job,
          queue, shown, reached, reply>>

NoJob == [status |-> "none", progress |-> 0]

Stages == {"new", "start", "reserve", "post", "segment", "output", "settle",
           "save", "guarded", "saving", "saved", "done", "lost"}

ServiceTypeOK ==
    /\ up \in [Workers -> {"starting", "up", "down"}]
    /\ crashes \in 0..MaxCrashes
    /\ load \in [Workers -> 0..MaxInflight]
    /\ limit \in [Workers -> Limits] /\ configured \in Limits
    /\ lax \in BOOLEAN
    /\ adminStep \in {"idle", "reconcile", "guarded"}
    /\ adminOps \in 0..MaxAdmin

JobTypeOK ==
    /\ stage \in [Requests -> Stages]
    /\ segment \in [Requests -> Nat \ {0}]
    /\ \A r \in Requests : segment[r] <= Segments[r]
    /\ ok \in [Requests -> BOOLEAN]
    /\ job \in [Requests -> [status : {"none", "queued", "in_progress",
                                       "completed", "failed"},
                             progress : 0..100]]

StreamTypeOK ==
    /\ queue \in [Requests -> Seq(0..100)]
    /\ shown \in [Requests -> 0..101] /\ reached \in [Requests -> 0..101]
    /\ reply \in [Requests -> {"none", "content", "error", "left", "lost"}]

TypeOK == CacheTypeOK /\ ServiceTypeOK /\ JobTypeOK /\ StreamTypeOK

\* The service starts over the files and rows an earlier one left.
Init ==
    /\ clock = Cardinality(Names)
    /\ disk \in Leftovers
    /\ rows = NoRows
    /\ guard = NoOp /\ tx = NoRows /\ victims = {}
    /\ up = [w \in Workers |-> "starting"] /\ crashes = 0
    /\ load = [w \in Workers |-> 0]
    /\ configured \in Limits /\ limit = [w \in Workers |-> configured]
    /\ lax = TRUE
    /\ adminStep = "idle" /\ adminOps = 0
    /\ stage = [r \in Requests |-> "new"]
    /\ segment = [r \in Requests |-> 1]
    /\ ok = [r \in Requests |-> FALSE]
    /\ job = [r \in Requests |-> NoJob]
    /\ queue = [r \in Requests |-> <<>>]
    /\ shown = [r \in Requests |-> 0] /\ reached = [r \in Requests |-> 0]
    /\ reply = [r \in Requests |-> "none"]

(***************************************************************************)
(* A job saves inside a coroutine, so its worker's event loop stands still *)
(* from there until the save has returned.                                 *)
(***************************************************************************)
Blocked(w) ==
    \E r \in Jobs : Home[r] = w /\ stage[r] \in {"save", "guarded", "saving"}

Runs(w) == up[w] = "up" /\ ~Blocked(w)

MovesTo(r, s) == stage' = [stage EXCEPT ![r] = s]

\* create_video and completions: the record is listed, the task is created.
Create(r) ==
    /\ Runs(Home[r])
    /\ stage[r] = "new"
    /\ MovesTo(r, IF r \in Jobs THEN "start" ELSE "reserve")
    /\ job' = IF r \in Jobs
              THEN [job EXCEPT ![r] = [status |-> "queued", progress |-> 0]]
              ELSE job
    /\ UNCHANGED <<cacheVars, up, crashes, load, limit, lax, adminVars,
                   segment, ok, streamVars>>

\* _set_job_status; a job that has expired is written but not listed.
JobStatus(r, status, progress) ==
    IF job[r] = NoJob THEN job
    ELSE [job EXCEPT ![r] = [status |-> status, progress |-> progress]]

Start(r) ==
    /\ Runs(Home[r])
    /\ stage[r] = "start"
    /\ MovesTo(r, "reserve")
    /\ job' = JobStatus(r, "in_progress", 1)
    /\ UNCHANGED <<cacheVars, up, crashes, load, limit, lax, adminVars,
                   segment, ok, streamVars>>

\* The run raised: except Exception in _run_video_job; a stream's task
\* keeps the exception for the stream to raise.
Failed(r) ==
    /\ MovesTo(r, "done")
    /\ ok' = [ok EXCEPT ![r] = FALSE]
    /\ job' = IF r \in Jobs THEN JobStatus(r, "failed", job[r].progress) ELSE job

Reserve(r) ==
    /\ Runs(Home[r])
    /\ stage[r] = "reserve"
    /\ \/ /\ load[Home[r]] < MaxInflight
          /\ load' = [load EXCEPT ![Home[r]] = @ + 1]
          /\ MovesTo(r, "post")
          /\ UNCHANGED <<ok, job>>
       \/ /\ load[Home[r]] >= MaxInflight
          /\ Failed(r)
          /\ UNCHANGED load
    /\ UNCHANGED <<cacheVars, up, crashes, limit, lax, adminVars,
                   segment, streamVars>>

\* create_media_post, or the upload of the reference images.
Post(r) ==
    /\ Runs(Home[r])
    /\ stage[r] = "post"
    /\ \E s \in {"segment", "settle"} : MovesTo(r, s)
    /\ UNCHANGED <<cacheVars, up, crashes, load, limit, lax, adminVars,
                   segment, ok, job, streamVars>>

\* The progress of one segment as the progress of the video.
Scaled(k, reading, of) == ((k - 1) * 100 + reading) \div of

Larger(a, b) == IF a > b THEN a ELSE b

Report(r) ==
    /\ Runs(Home[r])
    /\ stage[r] = "segment"
    /\ \E reading \in Readings :
          LET p == Scaled(segment[r], reading, Segments[r])
          IN  IF r \in Jobs
              THEN /\ job' = JobStatus(r, "in_progress", Larger(1, p))
                   /\ UNCHANGED <<queue, reached>>
              ELSE /\ Len(queue[r]) < MaxQueued /\ reply[r] = "none"
                   /\ queue' = [queue EXCEPT ![r] = Append(@, p)]
                   /\ reached' = [reached EXCEPT ![r] = Larger(@, p + 1)]
                   /\ UNCHANGED job
    /\ UNCHANGED <<cacheVars, up, crashes, load, limit, lax, adminVars,
                   stage, segment, ok, shown, reply>>

\* A segment ends with its URL; the next one extends it.
EndSegment(r) ==
    /\ Runs(Home[r])
    /\ stage[r] = "segment"
    /\ \/ /\ segment[r] < Segments[r]
          /\ segment' = [segment EXCEPT ![r] = @ + 1]
          /\ UNCHANGED stage
       \/ /\ segment[r] = Segments[r]
          /\ MovesTo(r, "output")
          /\ UNCHANGED segment
    /\ UNCHANGED <<cacheVars, up, crashes, load, limit, lax, adminVars,
                   ok, job, streamVars>>

\* The upstream refuses the segment, breaks off, or sends no URL.
SegmentFails(r) ==
    /\ Runs(Home[r])
    /\ stage[r] = "segment"
    /\ MovesTo(r, "settle")
    /\ UNCHANGED <<cacheVars, up, crashes, load, limit, lax, adminVars,
                   segment, ok, job, streamVars>>

(***************************************************************************)
(* A job must download its video.  A stream may be configured to hand out  *)
(* the upstream URL, and hands it out too when the download fails.         *)
(***************************************************************************)
Output(r) ==
    /\ Runs(Home[r])
    /\ stage[r] = "output"
    /\ \E fetched \in BOOLEAN :
          /\ ok' = [ok EXCEPT ![r] = r \notin Jobs \/ fetched]
          /\ MovesTo(r, IF r \notin Jobs /\ fetched THEN "save" ELSE "settle")
    /\ UNCHANGED <<cacheVars, up, crashes, load, limit, lax, adminVars,
                   segment, job, streamVars>>

\* Mutant: the account is released by the code after a success only.
SettleOnSuccess(r) ==
    /\ Runs(Home[r])
    /\ stage[r] = "settle"
    /\ IF ok[r]
       THEN /\ MovesTo(r, IF r \in Jobs THEN "save" ELSE "done")
            /\ load' = [load EXCEPT ![Home[r]] = @ - 1]
            /\ UNCHANGED <<ok, job>>
       ELSE /\ Failed(r)
            /\ UNCHANGED load
    /\ UNCHANGED <<cacheVars, up, crashes, limit, lax, adminVars,
                   segment, streamVars>>

\* The finally of the account block: release, feedback, then the save of
\* a job, or the end.
Settle(r) ==
    /\ Runs(Home[r])
    /\ stage[r] = "settle"
    /\ load' = [load EXCEPT ![Home[r]] = @ - 1]
    /\ IF ok[r]
       THEN /\ MovesTo(r, IF r \in Jobs THEN "save" ELSE "done")
            /\ UNCHANGED <<ok, job>>
       ELSE Failed(r)
    /\ UNCHANGED <<cacheVars, up, crashes, limit, lax, adminVars,
                   segment, streamVars>>

(***************************************************************************)
(* _save.  The limit is read first: without one the file is just written.  *)
(* Then the guard; the limit is read again when it is enforced.            *)
(***************************************************************************)
AfterSave(r) == IF r \in Jobs THEN "saved" ELSE "settle"

SaveUnguarded(r) ==
    /\ up[Home[r]] = "up"
    /\ stage[r] = "save"
    /\ limit[Home[r]] = 0
    /\ SaveUnlimited(File[r])
    /\ lax' = TRUE
    /\ MovesTo(r, AfterSave(r))
    /\ UNCHANGED <<up, crashes, load, limit, adminVars,
                   segment, ok, job, streamVars>>

SaveGuarded(r) ==
    /\ up[Home[r]] = "up"
    /\ stage[r] = "save"
    /\ limit[Home[r]] > 0
    /\ MovesTo(r, "guarded")
    /\ UNCHANGED <<cacheVars, up, crashes, load, limit, lax, adminVars,
                   segment, ok, job, streamVars>>

SaveWrites(r) ==
    /\ up[Home[r]] = "up"
    /\ stage[r] = "guarded"
    /\ \/ SaveExisting(r, File[r], limit[Home[r]])
       \/ SaveNew(r, File[r], limit[Home[r]])
    /\ lax' = (lax \/ limit[Home[r]] # configured)
    /\ MovesTo(r, "saving")
    /\ UNCHANGED <<up, crashes, load, limit, adminVars,
                   segment, ok, job, streamVars>>

\* The write fails: the part file is removed, nothing is committed.
SaveFails(r) ==
    /\ up[Home[r]] = "up"
    /\ stage[r] = "guarded"
    /\ guard = NoOp
    /\ disk[File[r]] = 0
    /\ IF r \in Jobs THEN Failed(r) ELSE MovesTo(r, "settle") /\ UNCHANGED <<ok, job>>
    /\ UNCHANGED <<cacheVars, up, crashes, load, limit, lax, adminVars,
                   segment, streamVars>>

SaveReturns(r) ==
    /\ up[Home[r]] = "up"
    /\ stage[r] = "saving"
    /\ Commit(r)
    /\ MovesTo(r, AfterSave(r))
    /\ UNCHANGED <<up, crashes, load, limit, lax, adminVars,
                   segment, ok, job, streamVars>>

Complete(r) ==
    /\ Runs(Home[r])
    /\ stage[r] = "saved"
    /\ MovesTo(r, "done")
    /\ job' = JobStatus(r, "completed", 100)
    /\ UNCHANGED <<cacheVars, up, crashes, load, limit, lax, adminVars,
                   segment, ok, streamVars>>

\* _expire_video_job: its delay runs from the creation, not the completion.
Expire(r) ==
    /\ Runs(Home[r])
    /\ r \in Jobs /\ job[r] # NoJob
    /\ job' = [job EXCEPT ![r] = NoJob]
    /\ UNCHANGED <<cacheVars, up, crashes, load, limit, lax, adminVars,
                   stage, segment, ok, streamVars>>

(***************************************************************************)
(* The stream shows each progress value that exceeds the last one shown,   *)
(* until the task is done and the queue is empty.  shown and reached are   *)
(* kept one higher than the value, 0 standing for none.                    *)
(***************************************************************************)
Show(r) ==
    /\ Runs(Home[r])
    /\ reply[r] = "none" /\ queue[r] # <<>>
    /\ shown' = [shown EXCEPT ![r] = Larger(@, Head(queue[r]) + 1)]
    /\ queue' = [queue EXCEPT ![r] = Tail(@)]
    /\ UNCHANGED <<cacheVars, up, crashes, load, limit, lax, adminVars,
                   jobVars, reached, reply>>

\* Mutant: the loop tests the task only.
TaskDone(r) == stage[r] = "done"

Drained(r) == stage[r] = "done" /\ queue[r] = <<>>

Reply(r) ==
    /\ Runs(Home[r])
    /\ r \notin Jobs /\ reply[r] = "none"
    /\ Drained(r)
    /\ reply' = [reply EXCEPT ![r] = IF ok[r] THEN "content" ELSE "error"]
    /\ UNCHANGED <<cacheVars, up, crashes, load, limit, lax, adminVars,
                   jobVars, queue, shown, reached>>

\* The client goes away.  The task is not cancelled; what it reports from
\* then on stays in a queue that nobody reads, and is not modelled.
Leave(r) ==
    /\ Runs(Home[r])
    /\ r \notin Jobs /\ stage[r] # "new" /\ reply[r] = "none"
    /\ reply' = [reply EXCEPT ![r] = "left"]
    /\ queue' = [queue EXCEPT ![r] = <<>>]
    /\ shown' = [shown EXCEPT ![r] = 0] /\ reached' = [reached EXCEPT ![r] = 0]
    /\ UNCHANGED <<cacheVars, up, crashes, load, limit, lax, adminVars,
                   jobVars>>

(***************************************************************************)
(* The administrator's endpoints and the start of a worker.                *)
(***************************************************************************)
AdminEnters ==
    /\ Runs(Home[Admin])
    /\ adminStep = "idle" /\ adminOps < MaxAdmin
    /\ adminOps' = adminOps + 1
    /\ adminStep' = "guarded"
    /\ \/ \E n \in Names : Delete(Admin, n)
       \/ Clear(Admin)
    /\ UNCHANGED <<up, crashes, load, limit, lax, configured, jobVars, streamVars>>

\* update_config writes the store, reloads this worker, then reconciles.
Configure ==
    /\ Runs(Home[Admin])
    /\ adminStep = "idle" /\ adminOps < MaxAdmin
    /\ adminOps' = adminOps + 1
    /\ \E l \in Limits \ {configured} :
          /\ configured' = l
          /\ limit' = [limit EXCEPT ![Home[Admin]] = l]
          /\ adminStep' = IF l = 0 THEN "idle" ELSE "reconcile"
    /\ lax' = TRUE
    /\ UNCHANGED <<cacheVars, up, crashes, load, jobVars, streamVars>>

AdminReconciles ==
    /\ up[Home[Admin]] = "up"
    /\ adminStep = "reconcile"
    /\ Reconcile(Admin, limit[Home[Admin]])
    /\ lax' = FALSE
    /\ adminStep' = "guarded"
    /\ UNCHANGED <<up, crashes, load, limit, configured, adminOps,
                   jobVars, streamVars>>

AdminReturns ==
    /\ up[Home[Admin]] = "up"
    /\ adminStep = "guarded"
    /\ Commit(Admin)
    /\ adminStep' = "idle"
    /\ UNCHANGED <<up, crashes, load, limit, lax, configured, adminOps,
                   jobVars, streamVars>>

\* Another worker loads the configuration, for one of its requests.
LoadConfig(w) ==
    /\ Runs(w)
    /\ limit[w] # configured
    /\ limit' = [limit EXCEPT ![w] = configured]
    /\ UNCHANGED <<cacheVars, up, crashes, load, lax, adminVars,
                   jobVars, streamVars>>

StartReconcile(w) ==
    /\ up[w] = "starting" /\ limit[w] > 0 /\ guard # w
    /\ Reconcile(w, limit[w])
    /\ lax' = (limit[w] # configured)
    /\ UNCHANGED <<up, crashes, load, limit, adminVars, jobVars, streamVars>>

Ready(w) ==
    /\ up[w] = "starting"
    /\ \/ limit[w] = 0 /\ UNCHANGED cacheVars
       \/ Commit(w)
    /\ up' = [up EXCEPT ![w] = "up"]
    /\ UNCHANGED <<crashes, load, limit, lax, adminVars, jobVars, streamVars>>

UnlinkNext ==
    /\ \E op \in Ops : Unlink(op)
    /\ UNCHANGED <<up, crashes, load, limit, lax, adminVars, jobVars, streamVars>>

(***************************************************************************)
(* A crash takes the tasks, the jobs and the streams of the worker, and    *)
(* the guard if one of its threads was inside.                             *)
(***************************************************************************)
OpsOf(w) == {w} \cup {op \in Requests \cup {Admin} : Home[op] = w}

Crash(w) ==
    LET struck == {r \in Requests : Home[r] = w /\ stage[r] # "new"}
    IN  /\ w \in Mortal /\ up[w] # "down" /\ crashes < MaxCrashes
        /\ crashes' = crashes + 1
        /\ up' = [up EXCEPT ![w] = "down"]
        /\ Dropped(OpsOf(w))
        /\ load' = [load EXCEPT ![w] = 0]
        /\ stage' = [r \in Requests |-> IF r \in struck THEN "lost" ELSE stage[r]]
        /\ job' = [r \in Requests |-> IF r \in struck THEN NoJob ELSE job[r]]
        /\ queue' = [r \in Requests |-> IF r \in struck THEN <<>> ELSE queue[r]]
        /\ reply' = [r \in Requests |->
                       IF r \in struck \ Jobs /\ reply[r] = "none" THEN "lost"
                       ELSE reply[r]]
        /\ adminStep' = IF Home[Admin] = w THEN "idle" ELSE adminStep
        /\ UNCHANGED <<limit, lax, configured, adminOps, segment, ok, shown, reached>>

Restart(w) ==
    /\ up[w] = "down"
    /\ up' = [up EXCEPT ![w] = "starting"]
    /\ limit' = [limit EXCEPT ![w] = configured]
    /\ UNCHANGED <<cacheVars, crashes, load, lax, adminVars, jobVars, streamVars>>

Run(r) ==
    \/ Start(r) \/ Reserve(r) \/ Post(r) \/ EndSegment(r) \/ SegmentFails(r)
    \/ Output(r) \/ Settle(r) \/ SaveUnguarded(r) \/ SaveGuarded(r)
    \/ SaveWrites(r) \/ SaveFails(r) \/ SaveReturns(r) \/ Complete(r)

Next ==
    \/ \E r \in Requests :
          \/ Create(r) \/ Run(r) \/ Report(r) \/ Expire(r)
          \/ Show(r) \/ Reply(r) \/ Leave(r)
    \/ AdminEnters \/ Configure \/ AdminReconciles \/ AdminReturns \/ UnlinkNext
    \/ \E w \in Workers :
          LoadConfig(w) \/ StartReconcile(w) \/ Ready(w) \/ Crash(w) \/ Restart(w)

Spec == Init /\ [][Next]_vars

Work ==
    \/ \E r \in Requests : Run(r) \/ Reply(r)
    \/ UnlinkNext \/ AdminReconciles \/ AdminReturns
    \/ \E w \in Workers : StartReconcile(w) \/ Ready(w) \/ Restart(w)

\* As long as a task, a thread or a worker can proceed one of them does,
\* and the upstream ends every call.  Nothing compels the upstream to
\* report, nor a client, an administrator or a crash to act.
FairSpec == Spec /\ WF_vars(Work) /\ \A r \in Requests : WF_vars(Show(r))

-----------------------------------------------------------------------------
\* Every operation is through, every worker has started, and no file was
\* saved under another limit since the last reconcile under this one.
Settled ==
    /\ guard = NoOp /\ adminStep = "idle" /\ ~lax /\ configured > 0
    /\ \A w \in Workers : up[w] = "up"

(***************************************************************************)
(* Whatever the order of saves, evictions, deletions and crashes, once the *)
(* workers have restarted the index lists exactly the files on disk: no    *)
(* file that the limit does not see, no row that makes the limit evict a   *)
(* file for nothing (reconcile, _upsert_existing_row, delete).             *)
(***************************************************************************)
IndexMatchesDisk == Settled => Files(rows) = Files(disk)

(***************************************************************************)
(* The directory itself stays within the limit, but for the newest file    *)
(* and the one saved last (_enforce_limit_locked).                         *)
(***************************************************************************)
DiskBounded ==
    Settled => \/ Usage(Files(disk)) <= configured
               \/ Cardinality(Files(disk)) <= 2

(***************************************************************************)
(* When a guarded save returns, the file it was called for is there: the   *)
(* eviction it triggers, or one by another worker, has not taken it        *)
(* (protected_names in _save).                                             *)
(***************************************************************************)
SaveKept ==
    [][\A r \in Requests :
         stage[r] = "saving" /\ stage'[r] \notin {"saving", "lost"}
            => disk'[File[r]] > 0]_vars

(***************************************************************************)
(* A worker's in-flight count is the number of its requests that use the   *)
(* account; a request that has ended has settled the account it reserved   *)
(* (the finally blocks of _run_video_job and _run_video_with_account).     *)
(***************************************************************************)
Holding(r) ==
    {"post", "segment", "output", "settle"}
    \cup (IF r \in Jobs THEN {} ELSE {"save", "guarded", "saving"})

Users(w) == {r \in Requests : Home[r] = w /\ stage[r] \in Holding(r)}

AccountsReturned == \A w \in Workers : load[w] = Cardinality(Users(w))

(***************************************************************************)
(* A stream that delivers its video has shown the highest progress that    *)
(* was reported to it: nothing is left in the queue when it ends (the loop *)
(* condition of _sse).                                                     *)
(***************************************************************************)
StreamComplete ==
    \A r \in Requests : reply[r] = "content" => shown[r] = reached[r]

(***************************************************************************)
(* Every request ends: a job completed or failed, unless it has expired or *)
(* its worker died; a stream with its content or an error.                 *)
(***************************************************************************)
Ended(r) ==
    /\ stage[r] \in {"done", "lost"}
    /\ r \in Jobs => job[r].status \notin {"queued", "in_progress"}
    /\ r \notin Jobs => reply[r] # "none"

RequestsEnd == []<>(\A r \in Requests : stage[r] = "new" \/ Ended(r))
=============================================================================
