------------------------------ MODULE Provider ------------------------------
(***************************************************************************)
(* EphemeralProvider (provider.py) over StandardMode: submit, status,      *)
(* cancel, scale_in and shutdown, called by any thread, with the cleanup   *)
(* and warm-pool pass they share, and restart from persisted state.        *)
(*                                                                         *)
(* A call is a sequence of steps.  A step ends where the code releases or  *)
(* takes provider._lock, or makes an AWS call: these are the points where  *)
(* the code does not hold off other threads.  `pc' is where a thread's     *)
(* call stands and `frame' its local variables.                            *)
(***************************************************************************)
EXTENDS StandardMode

CONSTANTS
  Threads,        \* the threads that call the provider
  NoThread,       \* nobody holds the lock
  Calls,          \* Calls[t]: the methods thread t calls
  MaxBlocks,      \* max_blocks
  WarmPoolTtl,    \* warm_pool_ttl, in ticks
  CancelFinished  \* whether a caller may cancel a job reported finished

Methods == {"submit", "status", "cancel", "scale_in", "shutdown"}

ASSUME ProviderAssumption ==
  /\ NoThread \notin Threads
  /\ Calls \in [Threads -> SUBSET Methods]
  /\ MaxBlocks \in Nat /\ WarmPoolTtl \in Nat /\ CancelFinished \in BOOLEAN

VARIABLES
  resources,       \* provider.resources
  job_map,         \* provider.job_map
  provider_store,  \* the document under STATE_KEY_PROVIDER
  warm_age,        \* ticks since warm_since, up to TTL + 1
  lock,            \* holder of provider._lock between steps
  pc, frame,       \* each thread's call
  reported,        \* what each job's owner was last told ("none": not accepted)
  cancelled        \* jobs whose cancellation some caller requested

provVars == <<resources, job_map, provider_store, warm_age>>
callVars == <<lock, pc, frame>>
vars == <<modeVars, awsVars, provVars, callVars, reported, cancelled>>

-----------------------------------------------------------------------------
(* Records.                                                                *)

TerminalStates == {"COMPLETED", "FAILED", "CANCELED", "INTERRUPTED"}

NoRecord == [job |-> NoJob, status |-> Absent]
Record == [job : Jobs, status : Status] \cup {NoRecord}

NoEntry == [rid |-> NoInstance, status |-> Absent]
JobEntry == [rid : Instances, status : Status] \cup {NoEntry}

ProviderDocument == [present : BOOLEAN, resources : [Instances -> Record],
                     job_map : [Jobs -> JobEntry]]
NoDocument == [present |-> FALSE, resources |-> [i \in Instances |-> NoRecord],
               job_map |-> [j \in Jobs |-> NoEntry]]

Recorded(i) == resources[i].status # Absent
Mapped(j) == job_map[j].status # Absent
InStatus(S) == {i \in Instances : resources[i].status \in S}

\* Mutant: blocks count from their first RUNNING status on.
Blocks_OnlyRunning == InStatus({"RUNNING"})

\* What submit() counts against max_blocks.
Blocks == {i \in Instances : Recorded(i)}

\* The steps a call goes through, by the part of the code they are in.
SubmitSteps  == {"take", "dispatch_warm", "track_warm", "create", "wait", "deliver",
                 "track_cold", "record", "save_job"}
StatusSteps  == {"group", "poll", "update", "save_status"}
CancelSteps  == {"cancel", "cancel_call", "cancel_update"}
CleanupSteps == {"scan", "pool", "transition", "unlist", "terminate",
                 "forget", "save_pass", "save_mode", "finish", "save_cancel"}
ShutdownSteps == {"infrastructure", "deinitialize", "clear", "erase"}
Steps == {"idle"} \cup SubmitSteps \cup StatusSteps \cup CancelSteps
           \cup CleanupSteps \cup ShutdownSteps

Frame == [method : Methods \cup {"none"},
          job    : Jobs \cup {NoJob},             \* submit: job_id
          rid    : Instances \cup {NoInstance},   \* submit: resource_id
          jobs   : SUBSET Jobs,                   \* status, cancel: job_keys
          known  : [Jobs -> Status \cup {Absent}],       \* internal_statuses
          told   : [Instances -> Status \cup {Absent}],  \* status_map, cancel_map
          rids   : SUBSET Instances,   \* ids to poll, cancel or clean up
          todo   : SUBSET Instances,   \* ids a loop has yet to handle
          pool   : SUBSET Instances,   \* current_warm
          dirty  : BOOLEAN,            \* state_dirty
          state  : ProviderDocument]   \* _save_state: what it is about to write

NoFrame == [method |-> "none", job |-> NoJob, rid |-> NoInstance, jobs |-> {},
            known |-> [j \in Jobs |-> Absent], told |-> NoStatuses,
            rids |-> {}, todo |-> {}, pool |-> {}, dirty |-> FALSE,
            state |-> NoDocument]

BooksTypeOK ==
  /\ resources \in [Instances -> Record]
  /\ job_map \in [Jobs -> JobEntry]
  /\ provider_store \in ProviderDocument
  /\ warm_age \in [Instances -> 0 .. WarmPoolTtl + 1]

CallsTypeOK ==
  /\ lock \in Threads \cup {NoThread}
  /\ pc \in [Threads -> Steps]
  /\ frame \in [Threads -> Frame]

\* From its first step submit() has a job id, and once a mode call has answered
\* it, an instance.
SubmitOK ==
  \A t \in Threads :
    /\ pc[t] \in SubmitSteps => frame[t].job \in Jobs
    /\ pc[t] \in SubmitSteps \ {"take", "create"} => frame[t].rid \in Instances

TypeOK ==
  /\ ModeTypeOK /\ BooksTypeOK /\ CallsTypeOK /\ SubmitOK
  /\ reported \in [Jobs -> Status \cup {"none"}]
  /\ cancelled \in SUBSET Jobs

Init ==
  /\ ModeInit
  /\ resources = [i \in Instances |-> NoRecord]
  /\ job_map = [j \in Jobs |-> NoEntry]
  /\ provider_store = NoDocument
  /\ warm_age = [i \in Instances |-> 0]
  /\ lock = NoThread
  /\ pc = [t \in Threads |-> "idle"]
  /\ frame = [t \in Threads |-> NoFrame]
  /\ reported = [j \in Jobs |-> "none"]
  /\ cancelled = {}

-----------------------------------------------------------------------------
(* Control.                                                                *)

\* A `with self._lock:' block that is one step.
Locked == lock = NoThread /\ UNCHANGED lock

Begin(t, method) == pc[t] = "idle" /\ method \in Calls[t]
Goto(t, step) == pc' = [pc EXCEPT ![t] = step]
Return(t) == Goto(t, "idle") /\ frame' = [frame EXCEPT ![t] = NoFrame]

\* _save_state() copies both maps under the lock and writes the copy after
\* releasing it.  The copy is taken with the update that precedes it.
Snapshot == [present |-> TRUE, resources |-> resources', job_map |-> job_map']

\* Mutant: the write is forgotten.
WriteState_Lost(t) == UNCHANGED provider_store

WriteState(t) == provider_store' = frame[t].state

AcceptedJobs == {j \in Jobs : reported[j] # "none"}

\* A UUID nobody has used.
Fresh(j) ==
  /\ reported[j] = "none" /\ command[j] = "none" /\ ~Mapped(j)
  /\ \A t \in Threads : frame[t].job # j

-----------------------------------------------------------------------------
(* submit().  A refused submit (at max_blocks) changes nothing.            *)

Submit(t, j) ==
  /\ Begin(t, "submit") /\ Fresh(j) /\ Locked
  /\ Cardinality(Blocks) < MaxBlocks
  /\ Goto(t, "take")
  /\ frame' = [frame EXCEPT ![t] = [NoFrame EXCEPT !.method = "submit", !.job = j]]
  /\ UNCHANGED <<modeVars, awsVars, provVars, reported, cancelled>>

SubmitUninitialized(t) ==
  /\ pc[t] = "take" /\ ~initialized
  /\ Return(t)
  /\ UNCHANGED <<modeVars, awsVars, provVars, lock, reported, cancelled>>

TakeWarm(t) ==
  /\ pc[t] = "take" /\ initialized
  /\ WarmPoolSize > 0 /\ GetWarmInstance
  /\ Goto(t, "dispatch_warm")
  /\ frame' = [frame EXCEPT ![t].rid = Head(warm_instances)]
  /\ UNCHANGED <<awsVars, provVars, lock, reported, cancelled>>

TakeCold(t) ==
  /\ pc[t] = "take" /\ initialized
  /\ WarmPoolSize = 0 \/ warm_instances = << >>
  /\ Goto(t, "create")
  /\ UNCHANGED <<modeVars, awsVars, provVars, lock, frame, reported, cancelled>>

DispatchWarm(t) ==
  /\ pc[t] = "dispatch_warm"
  /\ \/ /\ SendCommand(frame[t].rid, frame[t].job)
        /\ Goto(t, "track_warm") /\ UNCHANGED frame
     \/ /\ SendCommandFails(frame[t].rid)
        /\ Return(t) /\ UNCHANGED <<ec2, command, host, warned>>
  /\ UNCHANGED <<modeVars, provVars, lock, reported, cancelled>>

\* The record may have gone since the instance was popped: then submit() raises
\* although the command is on its way.
TrackWarm(t) ==
  /\ pc[t] = "track_warm"
  /\ \/ /\ TrackCommand(frame[t].rid, frame[t].job)
        /\ Goto(t, "record") /\ UNCHANGED frame
     \/ ~Tracked(frame[t].rid) /\ Return(t) /\ UNCHANGED <<modeVars, awsVars>>
  /\ UNCHANGED <<provVars, lock, reported, cancelled>>

Create(t) ==
  /\ pc[t] = "create"
  /\ \/ \E i \in Instances :
          /\ RunInstance(i, frame[t].job)
          /\ Goto(t, "wait") /\ frame' = [frame EXCEPT ![t].rid = i]
     \/ RunInstanceFails /\ Return(t)
  /\ UNCHANGED <<provVars, lock, reported, cancelled>>

WaitRunning(t) ==
  /\ pc[t] = "wait"
  /\ \/ /\ TrackInstance(frame[t].rid)
        /\ Goto(t, IF UsesSsmDispatch THEN "deliver" ELSE "record") /\ UNCHANGED frame
     \/ WaitFails(frame[t].rid) /\ Return(t)
  /\ UNCHANGED <<provVars, lock, reported, cancelled>>

Deliver(t) ==
  /\ pc[t] = "deliver"
  /\ \/ /\ SendCommand(frame[t].rid, frame[t].job) /\ UNCHANGED modeVars
        /\ Goto(t, "track_cold") /\ UNCHANGED frame
     \/ SendCommandFails(frame[t].rid) /\ Abandon(frame[t].rid) /\ Return(t)
  /\ UNCHANGED <<provVars, lock, reported, cancelled>>

TrackCold(t) ==
  /\ pc[t] = "track_cold"
  /\ \/ /\ TrackCommand(frame[t].rid, frame[t].job)
        /\ Goto(t, "record") /\ UNCHANGED frame
     \/ ~Tracked(frame[t].rid) /\ NoFault /\ Abandon(frame[t].rid) /\ Return(t)
  /\ UNCHANGED <<provVars, lock, reported, cancelled>>

RecordJob(t) ==
  LET i == frame[t].rid
      j == frame[t].job
  IN
  /\ pc[t] = "record" /\ Locked
  /\ resources' = [resources EXCEPT ![i] = [job |-> j, status |-> "PENDING"]]
  /\ job_map' = [job_map EXCEPT ![j] = [rid |-> i, status |-> "PENDING"]]
  /\ Goto(t, "save_job")
  /\ frame' = [frame EXCEPT ![t].state = Snapshot]
  /\ UNCHANGED <<modeVars, awsVars, provider_store, warm_age, reported, cancelled>>

\* submit() returns the job id to its caller.
SaveJob(t) ==
  /\ pc[t] = "save_job" /\ WriteState(t)
  /\ reported' = [reported EXCEPT ![frame[t].job] = "PENDING"]
  /\ Return(t)
  /\ UNCHANGED <<modeVars, awsVars, resources, job_map, warm_age, lock, cancelled>>

-----------------------------------------------------------------------------
(* status().  Parsl polls every job it has been given.                     *)

\* Write statuses m (by resource id) back to job_map and resources for jobs J:
\* the second lock region of status() and of cancel().
WriteBack(J, m) ==
  LET heard == {j \in J : Mapped(j) /\ m[job_map[j].rid] # Absent} IN
  /\ job_map' = [j \in Jobs |-> IF j \in heard
                                  THEN [job_map[j] EXCEPT !.status = m[job_map[j].rid]]
                                  ELSE job_map[j]]
  /\ resources' = [i \in Instances |->
                     IF Recorded(i) /\ \E j \in heard : job_map[j].rid = i
                       THEN [resources[i] EXCEPT !.status = m[i]]
                       ELSE resources[i]]
  /\ UNCHANGED <<provider_store, warm_age>>

\* Mutant: no short circuit, AWS is asked about finished jobs too.
Settled_Never == {}

\* Jobs answered from job_map.
Settled == {j \in AcceptedJobs : job_map[j].status \in TerminalStates}

\* First lock region: finished jobs are answered from job_map, the resource ids
\* of the others are collected; with none to poll the mode is not called.
StatusBegin(t) ==
  LET done == Settled
      rids == {job_map[j].rid : j \in {j \in AcceptedJobs : Mapped(j)} \ done}
  IN
  /\ Begin(t, "status") /\ Locked /\ AcceptedJobs # {}
  /\ Goto(t, IF rids = {} THEN "update" ELSE "group")
  /\ frame' = [frame EXCEPT ![t] = [NoFrame EXCEPT
                 !.method = "status", !.jobs = AcceptedJobs, !.rids = rids,
                 !.known = [j \in Jobs |-> IF j \in done THEN job_map[j].status ELSE Absent]]]
  /\ UNCHANGED <<modeVars, awsVars, provVars, reported, cancelled>>

Group(t) ==
  /\ pc[t] = "group"
  /\ Goto(t, "poll")
  /\ frame' = [frame EXCEPT ![t].told = LocalStatuses(frame[t].rids),
                            ![t].todo = MustAskAws(frame[t].rids)]
  /\ UNCHANGED <<modeVars, awsVars, provVars, lock, reported, cancelled>>

\* The answers for the instances in `todo' join those of the grouping loop.
Heard(t, m) ==
  /\ Goto(t, "update")
  /\ frame' = [frame EXCEPT ![t].told = [i \in Instances |-> IF i \in frame[t].todo
                                                               THEN m[i] ELSE frame[t].told[i]],
                            ![t].todo = {}]
  /\ UNCHANGED <<provVars, lock, reported, cancelled>>

PollSsm(t) ==
  /\ pc[t] = "poll" /\ UsesSsmDispatch
  /\ \E answer \in [frame[t].todo -> Answers] :
       PollCommands(frame[t].todo, answer) /\ Heard(t, answer)

PollEc2(t) ==
  /\ pc[t] = "poll" /\ ~UsesSsmDispatch
  /\ \E outcome \in PollOutcomes :
       /\ PollInstances(frame[t].todo, outcome)
       /\ Heard(t, InstanceStatuses(frame[t].todo, outcome))

\* Start of _cleanup_resources(), or the end of a status() that skips it.
ToCleanup(t) ==
  IF frame[t].method # "status" \/ UsesSsmDispatch
    THEN Goto(t, "scan") /\ frame' = [frame EXCEPT ![t] = [NoFrame EXCEPT !.method = frame[t].method]]
    ELSE Return(t)

\* get_job_status() raised: what is not known yet is reported UNKNOWN.
PollRaises(t) ==
  /\ pc[t] = "poll" /\ UsesSsmDispatch
  /\ \E done \in SUBSET frame[t].todo : \E answer \in [done -> Answers] :
       PollCommandsRaises(frame[t].todo, done, answer)
  /\ reported' = [j \in Jobs |-> IF j \notin frame[t].jobs THEN reported[j]
                                 ELSE IF frame[t].known[j] # Absent THEN frame[t].known[j]
                                 ELSE "UNKNOWN"]
  /\ ToCleanup(t)
  /\ UNCHANGED <<provVars, lock, cancelled>>

\* Mutant: a job whose resource the mode did not mention gets no status.
Verdict_Silent(t, j) ==
  IF frame[t].known[j] # Absent THEN frame[t].known[j]
  ELSE IF Mapped(j) THEN frame[t].told[job_map[j].rid] ELSE "UNKNOWN"

\* The status a job's owner is told after the poll.
Verdict(t, j) ==
  CASE frame[t].known[j] # Absent -> frame[t].known[j]
    [] frame[t].known[j] = Absent /\ ~Mapped(j) -> "UNKNOWN"
    [] frame[t].known[j] = Absent /\ Mapped(j) ->
         IF frame[t].told[job_map[j].rid] # Absent THEN frame[t].told[job_map[j].rid]
                                                   ELSE "COMPLETED"

StatusUpdate(t) ==
  /\ pc[t] = "update" /\ Locked
  /\ WriteBack({j \in frame[t].jobs : frame[t].known[j] = Absent}, frame[t].told)
  /\ reported' = [j \in Jobs |-> IF j \in frame[t].jobs THEN Verdict(t, j) ELSE reported[j]]
  /\ Goto(t, "save_status")
  /\ frame' = [frame EXCEPT ![t] = [NoFrame EXCEPT !.method = "status", !.state = Snapshot]]
  /\ UNCHANGED <<modeVars, awsVars, cancelled>>

SaveStatus(t) ==
  /\ pc[t] = "save_status" /\ WriteState(t)
  /\ ToCleanup(t)
  /\ UNCHANGED <<modeVars, awsVars, resources, job_map, warm_age, lock, reported, cancelled>>

-----------------------------------------------------------------------------
(* cancel() and scale_in().                                                *)

\* Mutant: only jobs known to be running are handed to the mode.
Collect_OnlyRunning(t, method, J) ==
  /\ Goto(t, "cancel_call")
  /\ frame' = [frame EXCEPT ![t] = [NoFrame EXCEPT
                 !.method = method, !.jobs = J,
                 !.rids = {job_map[j].rid : j \in {j \in J : job_map[j].status = "RUNNING"}}]]
  /\ cancelled' = cancelled \cup J

\* First lock region of cancel(J), under the name of the calling method.
Collect(t, method, J) ==
  /\ Goto(t, "cancel_call")
  /\ frame' = [frame EXCEPT ![t] = [NoFrame EXCEPT
                 !.method = method, !.jobs = J,
                 !.rids = {job_map[j].rid : j \in {j \in J : Mapped(j)}}]]
  /\ cancelled' = cancelled \cup J

Cancel(t, J) ==
  /\ Begin(t, "cancel") /\ Locked
  /\ J # {} /\ J \subseteq AcceptedJobs
  /\ CancelFinished \/ \A j \in J : reported[j] \notin TerminalStates
  /\ Collect(t, "cancel", J)
  /\ UNCHANGED <<modeVars, awsVars, provVars, reported>>

\* scale_in(blocks), blocks > 0: the jobs of that many RUNNING records, or of
\* all of them, then cancel().
ScaleIn(t) ==
  /\ Begin(t, "scale_in") /\ Locked
  /\ \E S \in SUBSET InStatus({"RUNNING"}) :
       /\ S = {} => InStatus({"RUNNING"}) = {}
       /\ frame' = [frame EXCEPT ![t] = [NoFrame EXCEPT
                      !.method = "scale_in", !.jobs = {resources[i].job : i \in S} \ {NoJob}]]
  /\ Goto(t, "cancel")
  /\ UNCHANGED <<modeVars, awsVars, provVars, reported, cancelled>>

ScaleInCancels(t) ==
  /\ pc[t] = "cancel" /\ Locked
  /\ Collect(t, "scale_in", frame[t].jobs)
  /\ UNCHANGED <<modeVars, awsVars, provVars, reported>>

CancelCall(t) ==
  /\ pc[t] = "cancel_call"
  /\ \E outcome \in CancelOutcomes :
       /\ CancelJobs(frame[t].rids, outcome)
       /\ frame' = [frame EXCEPT ![t].told = CancelStatuses(frame[t].rids, outcome)]
  /\ Goto(t, "cancel_update")
  /\ UNCHANGED <<provVars, lock, reported, cancelled>>

CancelUpdate(t) ==
  /\ pc[t] = "cancel_update" /\ Locked
  /\ WriteBack(frame[t].jobs, frame[t].told)
  /\ ToCleanup(t)
  /\ UNCHANGED <<modeVars, awsVars, reported, cancelled>>

-----------------------------------------------------------------------------
(* _cleanup_resources().                                                   *)

\* Where the pass goes with these ids still to terminate.
AfterPool(t, rids, dirty) ==
  IF rids # {} THEN IF WarmPoolSize > 0 THEN "unlist" ELSE "terminate"
  ELSE IF dirty THEN "forget"
  ELSE IF frame[t].method = "status" THEN "idle" ELSE "finish"

Expired == {i \in InStatus({"WARM"}) : warm_age[i] > WarmPoolTtl}

\* Mutants: RUNNING blocks are reaped too; the TTL is not looked at; a finished
\* one-shot instance is left alone.
Doomed_Running == Expired \cup InStatus({"RUNNING", "FAILED", "CANCELED", "INTERRUPTED"})
Doomed_NoTtl == InStatus({"FAILED", "CANCELED", "INTERRUPTED"})
Doomed_Canceled == InStatus({"CANCELED"})

\* The scan's two lists: what to terminate, and what may join the warm pool.
Doomed == IF WarmPoolSize > 0
            THEN Expired \cup InStatus({"FAILED", "CANCELED", "INTERRUPTED"})
            ELSE InStatus({"COMPLETED", "FAILED", "CANCELED", "INTERRUPTED"})

Reusable == IF WarmPoolSize > 0 THEN InStatus({"COMPLETED"}) ELSE {}

Scan(t) ==
  LET next == IF Reusable # {} THEN "pool" ELSE AfterPool(t, Doomed, FALSE) IN
  /\ pc[t] = "scan" /\ Locked
  /\ Goto(t, next)
  /\ frame' = [frame EXCEPT ![t] = IF next = "idle" THEN NoFrame
                 ELSE [frame[t] EXCEPT !.rids = Doomed,
                         !.todo = IF next = "unlist" THEN Doomed ELSE Reusable]]
  /\ UNCHANGED <<modeVars, awsVars, provVars, reported, cancelled>>

\* The COMPLETED -> WARM pass holds the lock from here to its last transition.
PoolSnapshot(t) ==
  /\ pc[t] = "pool" /\ lock = NoThread /\ lock' = t
  /\ Goto(t, "transition")
  /\ frame' = [frame EXCEPT ![t].pool = InStatus({"WARM"})]
  /\ UNCHANGED <<modeVars, awsVars, provVars, reported, cancelled>>

\* Frame, program counter and lock after one round of that loop.
TransitionRound(t, i, rids, pool, dirty) ==
  LET rest == frame[t].todo \ {i}
      next == IF rest # {} THEN "transition" ELSE AfterPool(t, rids, dirty)
  IN
  /\ Goto(t, next)
  /\ lock' = IF rest = {} THEN NoThread ELSE t
  /\ frame' = [frame EXCEPT ![t] = IF next = "idle" THEN NoFrame
                 ELSE [frame[t] EXCEPT !.rids = rids, !.dirty = dirty, !.pool = pool,
                         !.todo = IF next = "unlist" THEN rids ELSE rest]]

FirstAt(s, e, n) == s[n] = e /\ \A k \in 1 .. n - 1 : s[k] # e

\* Mutant: the instance stays on the list.
Unlisted_Never(s, e) == s

\* list.remove(e), its ValueError swallowed.
Unlisted(s, e) == IF \E n \in 1 .. Len(s) : FirstAt(s, e, n)
                    THEN RemoveAt(s, CHOOSE n \in 1 .. Len(s) : FirstAt(s, e, n)) ELSE s

MarkWarm(i) ==
  /\ resources' = [resources EXCEPT ![i].status = "WARM"]
  /\ warm_age' = [warm_age EXCEPT ![i] = 0]
  /\ UNCHANGED <<job_map, provider_store>>

TransitionSkipped(t) ==
  /\ pc[t] = "transition"
  /\ \E i \in frame[t].todo :
       ~Recorded(i) /\ TransitionRound(t, i, frame[t].rids, frame[t].pool, frame[t].dirty)
  /\ UNCHANGED <<modeVars, awsVars, provVars, reported, cancelled>>

TransitionToPool(t) ==
  /\ pc[t] = "transition"
  /\ \E i \in frame[t].todo :
       /\ Recorded(i) /\ Cardinality(frame[t].pool) < WarmPoolSize
       /\ MarkWarm(i)
       /\ warm_instances' = Append(warm_instances, i)
       /\ TransitionRound(t, i, frame[t].rids, frame[t].pool \cup {i}, TRUE)
  /\ UNCHANGED <<mode_resources, initialized, mode_store, awsVars, reported, cancelled>>

\* The pool is full: its oldest member makes room.
TransitionEvicting(t) ==
  /\ pc[t] = "transition"
  /\ \E i \in frame[t].todo, oldest \in frame[t].pool :
       /\ Recorded(i) /\ Cardinality(frame[t].pool) >= WarmPoolSize
       /\ \A k \in frame[t].pool : warm_age[k] <= warm_age[oldest]
       /\ MarkWarm(i)
       /\ warm_instances' = Append(Unlisted(warm_instances, oldest), i)
       /\ TransitionRound(t, i, frame[t].rids \cup {oldest},
                          (frame[t].pool \ {oldest}) \cup {i}, TRUE)
  /\ UNCHANGED <<mode_resources, initialized, mode_store, awsVars, reported, cancelled>>

\* Doomed instances whose record reads WARM leave the reuse list, one per round
\* under one hold of the lock.
Unlist(t) ==
  /\ pc[t] = "unlist" /\ lock \in {NoThread, t}
  /\ \E i \in frame[t].todo :
       LET rest == frame[t].todo \ {i} IN
       /\ warm_instances' = IF resources[i].status = "WARM"
                              THEN Unlisted(warm_instances, i) ELSE warm_instances
       /\ frame' = [frame EXCEPT ![t].todo = rest]
       /\ lock' = IF rest = {} THEN NoThread ELSE t
       /\ Goto(t, IF rest = {} THEN "terminate" ELSE "unlist")
  /\ UNCHANGED <<mode_resources, initialized, mode_store, awsVars, provVars,
                 reported, cancelled>>

TerminateDoomed(t) ==
  /\ pc[t] = "terminate"
  /\ CleanupResources(frame[t].rids)
  /\ Goto(t, "forget")
  /\ UNCHANGED <<provVars, lock, frame, reported, cancelled>>

\* Mutant: the jobs go, the records stay.
Forget_KeepsRecords(t) ==
  /\ pc[t] = "forget" /\ Locked
  /\ job_map' = [j \in Jobs |-> IF \E i \in frame[t].rids : resources[i].job = j
                                  THEN NoEntry ELSE job_map[j]]
  /\ Goto(t, "save_pass")
  /\ frame' = [frame EXCEPT ![t].state = [present |-> TRUE, resources |-> resources,
                                           job_map |-> job_map']]
  /\ UNCHANGED <<modeVars, awsVars, resources, provider_store, warm_age, reported, cancelled>>

\* The records of the ids handed to the mode go, with the job each one names.
Forget(t) ==
  LET gone == {i \in frame[t].rids : Recorded(i)} IN
  /\ pc[t] = "forget" /\ Locked
  /\ resources' = [i \in Instances |-> IF i \in gone THEN NoRecord ELSE resources[i]]
  /\ job_map' = [j \in Jobs |-> IF \E i \in gone : resources[i].job = j
                                  THEN NoEntry ELSE job_map[j]]
  /\ warm_age' = [i \in Instances |-> IF i \in gone THEN 0 ELSE warm_age[i]]
  /\ Goto(t, "save_pass")
  /\ frame' = [frame EXCEPT ![t].state = Snapshot]
  /\ UNCHANGED <<modeVars, awsVars, provider_store, reported, cancelled>>

\* A pass that changed something saves the provider's document ...
SavePass(t) ==
  /\ pc[t] = "save_pass" /\ WriteState(t)
  /\ Goto(t, "save_mode")
  /\ UNCHANGED <<modeVars, awsVars, resources, job_map, warm_age, lock, frame,
                 reported, cancelled>>

\* ... and then the mode's.
SavePassMode(t) ==
  /\ pc[t] = "save_mode"
  /\ UNCHANGED <<mode_resources, warm_instances, initialized>> /\ SaveMode
  /\ IF frame[t].method = "status"
       THEN Return(t)
       ELSE Goto(t, "finish") /\ frame' = [frame EXCEPT ![t] = [NoFrame EXCEPT !.method = frame[t].method]]
  /\ UNCHANGED <<awsVars, provVars, lock, reported, cancelled>>

\* cancel()'s final _save_state().
Finish(t) ==
  /\ pc[t] = "finish" /\ Locked
  /\ UNCHANGED <<modeVars, awsVars, provVars>>
  /\ Goto(t, "save_cancel")
  /\ frame' = [frame EXCEPT ![t] = [NoFrame EXCEPT !.method = frame[t].method, !.state = Snapshot]]
  /\ UNCHANGED <<reported, cancelled>>

SaveCancel(t) ==
  /\ pc[t] = "save_cancel" /\ WriteState(t)
  /\ IF frame[t].method = "shutdown"
       THEN Goto(t, "infrastructure") /\ frame' = [frame EXCEPT ![t] = [NoFrame EXCEPT !.method = "shutdown"]]
       ELSE Return(t)
  /\ UNCHANGED <<modeVars, awsVars, resources, job_map, warm_age, lock, reported, cancelled>>

-----------------------------------------------------------------------------
(* shutdown(): cancel every job, clean up the mode, clear, delete state.   *)

Shutdown(t) ==
  LET J == {j \in Jobs : Mapped(j)} IN
  /\ Begin(t, "shutdown") /\ Locked /\ initialized
  /\ IF J # {}
       THEN Collect(t, "shutdown", J)
       ELSE /\ Goto(t, "infrastructure")
            /\ frame' = [frame EXCEPT ![t] = [NoFrame EXCEPT !.method = "shutdown"]]
            /\ UNCHANGED cancelled
  /\ UNCHANGED <<modeVars, awsVars, provVars, reported>>

Infrastructure(t) ==
  /\ pc[t] = "infrastructure" /\ CleanupAll
  /\ Goto(t, "deinitialize")
  /\ UNCHANGED <<provVars, lock, frame, reported, cancelled>>

Deinitialize(t) ==
  /\ pc[t] = "deinitialize" /\ FinishInfrastructure
  /\ Goto(t, "clear")
  /\ UNCHANGED <<provVars, lock, frame, reported, cancelled>>

\* The maps are emptied and _delete_state() deletes the provider's document ...
Clear(t) ==
  /\ pc[t] = "clear" /\ Locked
  /\ resources' = [i \in Instances |-> NoRecord]
  /\ job_map' = [j \in Jobs |-> NoEntry]
  /\ provider_store' = NoDocument
  /\ Goto(t, "erase")
  /\ UNCHANGED <<warm_age, frame, modeVars, awsVars, reported, cancelled>>

\* ... and then the mode's.
Erase(t) ==
  /\ pc[t] = "erase"
  /\ mode_store' = [present |-> FALSE, resources |-> [i \in Instances |-> NoModeRecord],
                    warm |-> << >>]
  /\ Return(t)
  /\ UNCHANGED <<mode_resources, warm_instances, initialized, awsVars, provVars, lock,
                 reported, cancelled>>

-----------------------------------------------------------------------------
(* The environment: time, the commands, AWS, the monitor, the process.     *)

Tick ==
  /\ \E i \in InStatus({"WARM"}) : warm_age[i] <= WarmPoolTtl
  /\ warm_age' = [i \in Instances |->
                    IF i \in InStatus({"WARM"}) /\ warm_age[i] <= WarmPoolTtl
                      THEN warm_age[i] + 1 ELSE warm_age[i]]
  /\ UNCHANGED <<modeVars, awsVars, resources, job_map, provider_store, callVars,
                 reported, cancelled>>

Environment ==
  /\ \/ \E j \in Jobs : FinishCommand(j) \/ ShutDownAfter(j)
     \/ \E i \in Instances : Reclaim(i) \/ ForgetInstance(i) \/ HandleInstanceInterruption(i)
  /\ UNCHANGED <<provVars, callVars, reported, cancelled>>

\* The process dies and a successor starts at the same state location:
\* _load_state() and the mode's initialize() restore what was saved.  Its Parsl
\* holds no job id of its predecessor.
Restart ==
  /\ mode_store.present /\ Fault("crash") /\ LoadMode
  /\ resources' = provider_store.resources
  /\ job_map' = provider_store.job_map
  /\ lock' = NoThread
  /\ pc' = [t \in Threads |-> "idle"]
  /\ frame' = [t \in Threads |-> NoFrame]
  /\ reported' = [j \in Jobs |-> "none"]
  /\ UNCHANGED <<provider_store, warm_age, ec2, command, host, warned, cancelled>>

SubmitStep(t) ==
  \/ SubmitUninitialized(t) \/ TakeWarm(t) \/ TakeCold(t)
  \/ DispatchWarm(t) \/ TrackWarm(t)
  \/ Create(t) \/ WaitRunning(t) \/ Deliver(t) \/ TrackCold(t)
  \/ RecordJob(t) \/ SaveJob(t)

StatusStep(t) ==
  Group(t) \/ PollSsm(t) \/ PollEc2(t) \/ PollRaises(t) \/ StatusUpdate(t) \/ SaveStatus(t)

CancelStep(t) == ScaleInCancels(t) \/ CancelCall(t) \/ CancelUpdate(t)

CleanupStep(t) ==
  \/ Scan(t) \/ PoolSnapshot(t) \/ TransitionSkipped(t) \/ TransitionToPool(t)
  \/ TransitionEvicting(t) \/ Unlist(t) \/ TerminateDoomed(t) \/ Forget(t)
  \/ SavePass(t) \/ SavePassMode(t) \/ Finish(t) \/ SaveCancel(t)

ShutdownStep(t) == Infrastructure(t) \/ Deinitialize(t) \/ Clear(t) \/ Erase(t)

\* A call in progress goes on.
Continue(t) ==
  SubmitStep(t) \/ StatusStep(t) \/ CancelStep(t) \/ CleanupStep(t) \/ ShutdownStep(t)

Call(t) ==
  \/ \E j \in Jobs : Submit(t, j)
  \/ StatusBegin(t)
  \/ \E J \in SUBSET Jobs : Cancel(t, J)
  \/ ScaleIn(t) \/ Shutdown(t)

\* Nobody calls any more.
Rest == (\A t \in Threads : pc[t] = "idle") /\ UNCHANGED vars

Next ==
  \/ \E t \in Threads : Call(t) \/ Continue(t)
  \/ Tick \/ Environment \/ Restart \/ Rest

Spec == Init /\ [][Next]_vars

\* Parsl keeps polling, a call once started goes on, commands end, time passes.
FairSpec ==
  /\ Spec
  /\ \A t \in Threads : WF_vars(Continue(t)) /\ SF_vars(StatusBegin(t))
  /\ \A j \in Jobs : WF_vars(FinishCommand(j) /\ UNCHANGED <<provVars, callVars, reported, cancelled>>)
  /\ WF_vars(Tick)

-----------------------------------------------------------------------------
(* Safety.                                                                 *)

Quiet == \A t \in Threads : pc[t] = "idle"
Running == {i \in Instances : ec2[i] = "running"}

\* A host runs one block's command at a time: reusing a warm instance
\* (_get_warm_instance) never puts a second command beside a live one.
AtMostOneCommand ==
  \A j, k \in Jobs :
    j # k /\ command[j] = "inprogress" /\ command[k] = "inprogress" => host[j] # host[k]

\* cancel() was asked for a finished job the instance had run.  It looks the job
\* up in job_map and terminates the instance found there, whoever has it by now.
CancelledLate(i) ==
  CancelFinished /\ \E k \in cancelled : host[k] = i /\ command[k] \in {"success", "failed"}

\* Every instance on the mode's reuse list is there once and carries no live
\* command; it is WARM in the provider's book, has a record in the mode's and is
\* up unless AWS is reclaiming it -- or a late cancel() took it, which does not
\* look at the list: what submit_job()'s fast path relies on.
WarmPoolSound ==
  \A n \in 1 .. Len(warm_instances) :
    LET i == warm_instances[n] IN
    /\ \A m \in 1 .. Len(warm_instances) : warm_instances[m] = i => m = n
    /\ \A j \in Jobs : command[j] = "inprogress" => host[j] # i
    /\ ~CancelledLate(i) => /\ resources[i].status = "WARM" /\ Tracked(i)
                            /\ ec2[i] = "running" \/ i \in warned

\* A command is killed only because some caller cancelled that very job, or AWS
\* reclaimed its host, or somebody cancelled a finished job its reused instance
\* had run before -- which does kill it.  Cleanup passes, TTL eviction, a full
\* pool and the cancellation of jobs that are not over take no working instance.
NoCollateralKill ==
  \A j \in Jobs : command[j] = "killed" =>
    j \in cancelled \/ host[j] \in warned \/ CancelledLate(host[j])

\* max_blocks bounds the instances running at once.
CapacityRespected == Cardinality(Running) <= MaxBlocks

\* A job reported COMPLETED has succeeded (its exit code travels over SSM) or,
\* in UserData mode, at least is over.
NoFalseCompletion ==
  \A j \in Jobs : reported[j] = "COMPLETED" =>
    IF UsesSsmDispatch THEN command[j] = "success" ELSE command[j] # "inprogress"

\* Once no call is under way, a job whose cancellation was requested is not
\* working any more, whatever polls and cleanups ran beside the cancel.
CancelTakesEffect == Quiet => \A j \in cancelled : command[j] # "inprogress"

\* A running instance has a record in the mode, where cleanup_resources() and
\* cleanup_infrastructure() look for what to terminate, or the submit() that
\* launched it is waiting for it to come up.
LiveInstanceTracked ==
  \A i \in Running : Tracked(i) \/ \E t \in Threads : pc[t] = "wait" /\ frame[t].rid = i

\* Between calls the provider and its mode have records of the same instances:
\* a record only one of them keeps is never acted on again.
BooksAgree == Quiet => \A i \in Instances : Tracked(i) <=> Recorded(i)

\* Between calls the stored document maps every accepted job as memory does, so
\* a successor process adopts its instance.
StoreCurrent ==
  Quiet => \A j \in AcceptedJobs : provider_store.job_map[j].rid = job_map[j].rid

-----------------------------------------------------------------------------
(* Action properties.                                                      *)

\* A job whose owner was told it is over is never again told it is pending or
\* running, although its instance may be reused for another job.
NoResurrection ==
  [][\A j \in Jobs : reported[j] \in TerminalStates
                       => reported'[j] \notin {"PENDING", "RUNNING"}]_vars

\* The terminal status in job_map stays what it is: status() answers such jobs
\* from the map instead of asking AWS again.
TerminalIsFinal ==
  [][\A j \in Jobs : job_map[j].status \in TerminalStates
                       => job_map'[j].status \in {job_map[j].status, Absent}]_vars

\* An instance AWS is reclaiming does not enter the reuse list.
InterruptedStaysOut ==
  [][\A i \in warned : (\A n \in 1 .. Len(warm_instances) : warm_instances[n] # i)
       => \A n \in 1 .. Len(warm_instances') : warm_instances'[n] # i]_vars

\* shutdown() deletes either state document only once every instance the two
\* describe is gone from EC2.
ShutdownLeavesNothing ==
  [][(\/ provider_store.present /\ ~provider_store'.present
      \/ mode_store.present /\ ~mode_store'.present)
       => \A i \in Running : /\ provider_store.resources[i].status = Absent
                            /\ mode_store.resources[i].status = Absent]_vars

\* After a restart every job whose submit had returned, and whose record was not
\* collected, is still mapped to the instance that runs it.
RestartKeepsJobs ==
  [][\A j \in AcceptedJobs : reported'[j] = "none" /\ command[j] = "inprogress"
       => job_map'[j].rid = host[j] /\ mode_resources'[host[j]].cmd = j]_vars

-----------------------------------------------------------------------------
(* Liveness, under FairSpec.                                               *)

\* Every accepted job's owner eventually learns that it is over.
EveryJobSettles ==
  \A j \in Jobs : reported[j] = "PENDING" ~> reported[j] \in TerminalStates

\* The instance of a finished job is eventually terminated and its record,
\* which counts against max_blocks, collected.
FinishedBlocksCollected ==
  \A j \in Jobs : (reported[j] = "COMPLETED" /\ Mapped(j))
                    ~> (~Mapped(j) /\ host[j] \notin Running)

\* An idle warm instance is eventually given a job again, or terminated: no call
\* sequence and no failing dispatch leaves it running beyond its TTL without one.
WarmInstanceLeaves ==
  \A i \in Instances : (Recorded(i) /\ resources[i].status = "WARM")
                         ~> (resources[i].status \in {"PENDING", "RUNNING"} \/ i \notin Running)
=============================================================================
