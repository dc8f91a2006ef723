--------------------------- MODULE ServerlessMode ---------------------------
(***************************************************************************)
(* Serverless mode (modes/serverless.py, compute/spot_fleet_cleanup.py): a *)
(* job is a CloudFormation stack -- of a Lambda function, or of an ECS     *)
(* service -- or, with use_spot_fleet, an EC2 Fleet and its launch         *)
(* template.  A Lambda job's package is staged in an S3 bucket, the        *)
(* caller's or one of the mode's own.                                      *)
(*                                                                         *)
(* Stacks and templates are named after the first eight characters of the  *)
(* job id.  EphemeralProvider.submit() builds a job id as <provider_id>-   *)
(* <uuid>, so these are characters of the provider's id: all Lambda jobs of*)
(* a provider share one stack name, all its ECS jobs another, all its      *)
(* fleets one template name.                                               *)
(*                                                                         *)
(* The callers are threads that use the mode through EphemeralProvider,    *)
(* whose own books are reduced to the last status of each job (`reported').*)
(* One action makes at most one AWS call that others can tell apart, except*)
(* where a comment says that several are merged.                           *)
(***************************************************************************)
EXTENDS Naturals, FiniteSets

CONSTANTS
  Jobs,      \* job identifiers
  NoJob,     \* "no job", "no launch template"
  Threads,   \* the callers
  Calls,     \* the methods each caller uses
  Mixes,     \* what may run the jobs, as functions from Jobs
  Events,    \* the kinds of event the environment may produce
  MaxEvents  \* how many of them one behaviour contains

Methods == {"submit", "status", "cancel", "shutdown"}

EventKinds ==
  {"refused",        \* a call that creates or stages something is refused
   "lost",           \* create_stack() or create_fleet() raises, but takes effect
   "capacity",       \* the fleet launches nothing; ECS cannot place a task
   "rollback",       \* the creation of a stack fails
   "describe",       \* a call that asks for a status fails
   "delete",         \* a call that deletes something is refused
   "delete_failed",  \* the deletion of a stack fails after it was accepted
   "reclaim",        \* AWS takes spot capacity away from a running job
   "forget",         \* EC2 no longer knows a fleet whose instances ended
   "crash"}          \* the process dies and a successor resumes from its state

\* What the order of the program's own steps brings about is noted as well.
ScheduleKinds ==
  {"taken",          \* create_stack() finds the name in use by another job
   "stale",          \* a stack is created while the record of a cancelled job has its name
   "unsaved",        \* the process dies while it knows more than it saved
   "late_submit",    \* shutdown and a submit are under way at the same time
   "late_answer"}    \* an answer is recorded for a job settled meanwhile

\* Every job of a mode with use_spot_fleet that is not a Lambda job is a fleet.
ASSUME ServerlessAssumption ==
  /\ NoJob \notin Jobs
  /\ Calls \in [Threads -> SUBSET Methods]
  /\ Mixes \subseteq [Jobs -> {"lambda", "ecs"}] \cup [Jobs -> {"lambda", "fleet"}]
  /\ Events \subseteq EventKinds /\ MaxEvents \in Nat

VARIABLES
  kind,           \* what runs each job: worker_type and use_spot_fleet
  bucket_given,   \* whether the caller supplied lambda_code_bucket
  resources,      \* ServerlessMode.resources, by job
  code_bucket,    \* _lambda_code_bucket is set
  owns_bucket,    \* _owns_lambda_code_bucket
  initialized,    \* ServerlessMode.initialized
  registered,     \* jobs whose fleet the interruption monitor watches
  mode_store,     \* the document under STATE_KEY_MODE
  stack,          \* the stack under each of the two names
  fleet,          \* the fleet of each job
  template,       \* the launch template, by the job whose submit created it
  bucket,         \* whether the mode's own bucket exists
  objects,        \* jobs with a staged package
  work,           \* the job's instances, or the task of its service
  ran,            \* jobs whose command has run to its end
  timed_out,      \* jobs submitted more than lambda_timeout ago
  reported,       \* the provider's status of each job; "collected" once forgotten
  submits,        \* what became of submit_job() of each job
  frame,          \* where each thread is, and its local variables
  happened,       \* the events that occurred
  events          \* how many

config    == <<kind, bucket_given>>
modeVars  == <<resources, code_bucket, owns_bucket, initialized, registered, mode_store>>
awsVars   == <<stack, fleet, template, bucket, objects>>
workVars  == <<work, ran, timed_out>>
callVars  == <<reported, submits, frame>>
eventVars == <<happened, events>>
vars == <<config, modeVars, awsVars, workVars, callVars, eventVars>>

-----------------------------------------------------------------------------
Absent == "ABSENT"   \* no record under this key, no answer yet

Status == {"PENDING", "RUNNING", "COMPLETED", "FAILED", "CANCELED",
           "INTERRUPTED", "UNKNOWN"}
Terminal == {"COMPLETED", "FAILED", "CANCELED", "INTERRUPTED"}

\* Besides a status, the two ways in which describe_stacks() raises: some
\* failure, and "does not exist".
Answer == Status \cup {Absent, "ERROR", "GONE"}

Kinds  == {"lambda", "ecs", "fleet"}
Stacks == {"lambda", "ecs"}

\* Which of stack_name, code_key and fleet_request_id the record has, and its
\* launch_template_id.
Record == [status : Status \cup {Absent}, stack : BOOLEAN, code : BOOLEAN,
           fleet : BOOLEAN, template : Jobs \cup {NoJob}]
NoRecord == [status |-> Absent, stack |-> FALSE, code |-> FALSE, fleet |-> FALSE,
             template |-> NoJob]

Tracked(j) == resources[j].status # Absent
TrackedJobs == {j \in Jobs : Tracked(j)}

NoStack == [state |-> "none", job |-> NoJob]
Standing == {"creating", "complete", "rollback", "delete_failed"}

Live == {"running", "warned"}

Labels == {"idle", "bucket", "stage", "stack", "template", "fleet", "unfilled", "save",
           "undo", "ask", "write", "cleanup", "clear", "sweep"}

Idle == [pc |-> "idle", job |-> NoJob, template |-> NoJob, todo |-> {},
         answers |-> [j \in Jobs |-> Absent], shutdown |-> FALSE]
At(l) == [Idle EXCEPT !.pc = l]

Document == [resources : [Jobs -> Record], code_bucket : BOOLEAN, owns_bucket : BOOLEAN]

TypeOK ==
  /\ kind \in [Jobs -> Kinds] /\ bucket_given \in BOOLEAN
  /\ resources \in [Jobs -> Record]
  /\ code_bucket \in BOOLEAN /\ owns_bucket \in BOOLEAN /\ initialized \in BOOLEAN
  /\ registered \in SUBSET Jobs
  /\ mode_store \in Document
  /\ stack \in [Stacks -> [state : Standing \cup {"none", "deleting"}, job : Jobs \cup {NoJob}]]
  /\ fleet \in [Jobs -> {"none", "active", "deleted", "forgotten"}]
  /\ template \in Jobs \cup {NoJob}
  /\ bucket \in BOOLEAN /\ objects \in SUBSET Jobs
  /\ work \in [Jobs -> {"none", "stopped"} \cup Live]
  /\ ran \in SUBSET Jobs /\ timed_out \in SUBSET Jobs
  /\ reported \in [Jobs -> Status \cup {"none", "collected"}]
  /\ submits \in [Jobs -> {"none", "called", "accepted", "raised"}]
  /\ frame \in [Threads -> [pc : Labels, job : Jobs \cup {NoJob},
                            template : Jobs \cup {NoJob}, todo : SUBSET Jobs,
                            answers : [Jobs -> Answer], shutdown : BOOLEAN]]
  /\ happened \in SUBSET (Events \cup ScheduleKinds)
  /\ events \in Nat

\* Jobs the provider still has a record of.
Recorded == {j \in Jobs : reported[j] \notin {"none", "collected"}}
Unsettled == {j \in Recorded : reported[j] \notin Terminal}

\* The attributes that __init__() sets; it starts the monitor, which watches nothing yet.
Constructed ==
  /\ resources = [j \in Jobs |-> NoRecord]
  /\ code_bucket = bucket_given /\ owns_bucket = FALSE
  /\ registered = {}

\* Without Lambda jobs lambda_code_bucket is of no consequence.
Init ==
  /\ kind \in Mixes
  /\ bucket_given \in {\E j \in Jobs : kind[j] = "lambda", FALSE}
  /\ Constructed
  /\ initialized = TRUE
  /\ mode_store = [resources |-> resources, code_bucket |-> code_bucket, owns_bucket |-> FALSE]
  /\ stack = [k \in Stacks |-> NoStack]
  /\ fleet = [j \in Jobs |-> "none"]
  /\ template = NoJob
  /\ bucket = FALSE /\ objects = {}
  /\ work = [j \in Jobs |-> "none"]
  /\ ran = {} /\ timed_out = {}
  /\ reported = [j \in Jobs |-> "none"]
  /\ submits = [j \in Jobs |-> "none"]
  /\ frame = [t \in Threads |-> Idle]
  /\ happened = {} /\ events = 0

\* The kinds in K happen in this step; an ordinary step is Happen({}).  Those of
\* the environment are bounded.
Happen(K) ==
  LET external == K \ ScheduleKinds IN
  /\ external \subseteq Events
  /\ events + Cardinality(external) <= MaxEvents
  /\ events' = events + Cardinality(external)
  /\ happened' = happened \cup K

IfSo(condition, event) == IF condition THEN {event} ELSE {}

Goto(t, f) == frame' = [frame EXCEPT ![t] = f]
Step(t, l) == Goto(t, [frame[t] EXCEPT !.pc = l])

Save == mode_store' = [resources |-> resources', code_bucket |-> code_bucket',
                       owns_bucket |-> owns_bucket']

-----------------------------------------------------------------------------
(* Deletions.                                                              *)

\* The kinds of deletion, of which one may be refused.
Deletions == {"object", "stack", "fleet", "template", "bucket"}
Refusals == {{}} \cup {{d} : d \in Deletions}
RefusalEvent(refused) == IfSo(refused # {}, "delete")

\* delete_stack(), by name: accepted for any stack there is, and for none.
DeleteStacks(K) ==
  stack' = [k \in Stacks |-> IF k \in K /\ stack[k].state \in Standing
                               THEN [stack[k] EXCEPT !.state = "deleting"] ELSE stack[k]]

\* delete_ec2_fleet() of each fleet in J takes its instances along.
DeleteFleets(J) ==
  /\ fleet' = [j \in Jobs |-> IF j \in J /\ fleet[j] = "active" THEN "deleted" ELSE fleet[j]]
  /\ work' = [j \in Jobs |-> IF j \in J /\ fleet[j] = "active" /\ work[j] \in Live
                               THEN "stopped" ELSE work[j]]

\* delete_launch_template(), by identifier.
DeleteTemplates(T) == template' = IF template \in T THEN NoJob ELSE template

ReclaimFleets_TemplateOnly(J, refused) ==
  /\ DeleteTemplates(IF "template" \in refused THEN {} ELSE {resources[j].template : j \in J})
  /\ UNCHANGED <<fleet, work>>

\* _reclaim_fleet() of each record in J: neither failure stops the other call.
ReclaimFleets(J, refused) ==
  /\ DeleteFleets(IF "fleet" \in refused THEN {} ELSE J)
  /\ DeleteTemplates(IF "template" \in refused THEN {} ELSE {resources[j].template : j \in J})

WithFleet(J) == {j \in J : resources[j].fleet}
StackNames(J) == {kind[j] : j \in {j \in J : resources[j].stack}}

\* cleanup_resources(): whatever fails, the records go.
CleanupResources(J, refused) ==
  /\ objects' = IF "object" \in refused THEN objects
                                        ELSE objects \ {j \in J : resources[j].code}
  /\ ReclaimFleets(WithFleet(J), refused)
  /\ DeleteStacks(IF "stack" \in refused THEN {} ELSE StackNames(J))
  /\ resources' = [j \in Jobs |-> IF j \in J THEN NoRecord ELSE resources[j]]
  /\ UNCHANGED <<code_bucket, owns_bucket>>
  /\ IF J = {} THEN UNCHANGED mode_store ELSE Save

-----------------------------------------------------------------------------
(* submit_job().                                                           *)

SubmitUnchanged == UNCHANGED <<config, ran, timed_out, initialized>>
ModeUnchanged == UNCHANGED <<resources, code_bucket, owns_bucket, registered, mode_store>>

\* The record is made before anything is created, so that the helpers can note
\* in it what they create.
Submit(t, j) ==
  /\ "submit" \in Calls[t] /\ frame[t] = Idle /\ initialized /\ submits[j] = "none"
  /\ resources' = [resources EXCEPT ![j].status = "PENDING"]
  /\ submits' = [submits EXCEPT ![j] = "called"]
  /\ Goto(t, [At(CASE kind[j] = "ecs"    -> "stack"
                   [] kind[j] = "fleet"  -> "template"
                   [] kind[j] = "lambda" -> IF code_bucket THEN "stage" ELSE "bucket")
              EXCEPT !.job = j])
  /\ Happen(IfSo(\E u \in Threads : frame[u].shutdown, "late_submit"))
  /\ UNCHANGED <<awsVars, work, code_bucket, owns_bucket, registered, mode_store, reported>>
  /\ SubmitUnchanged

\* A helper raises: submit_job() cleans up what the record names.
Fails(t, K) ==
  /\ Step(t, "undo")
  /\ Happen(K)
  /\ ModeUnchanged

\* _ensure_lambda_code_bucket(): a bucket found to exist already -- anywhere but
\* in us-east-1 that is an error -- is used, and not owned.
EnsureBucket(t) ==
  /\ frame[t].pc = "bucket"
  /\ \/ /\ bucket' = TRUE
        /\ code_bucket' = TRUE
        /\ owns_bucket' = (owns_bucket \/ ~bucket)
        /\ Step(t, "stage") /\ Happen({})
        /\ UNCHANGED <<resources, registered, mode_store>>
     \/ Fails(t, {"refused"}) /\ UNCHANGED bucket
  /\ UNCHANGED <<stack, fleet, template, objects, work, reported, submits>>
  /\ SubmitUnchanged

\* put_object() of the package; shutdown may have deleted the bucket.
Stage(t) ==
  /\ frame[t].pc = "stage"
  /\ \/ /\ bucket \/ bucket_given
        /\ objects' = objects \cup {frame[t].job}
        /\ Step(t, "stack") /\ Happen({}) /\ ModeUnchanged
     \/ /\ Fails(t, IfSo(bucket \/ bucket_given, "refused"))
        /\ UNCHANGED objects
  /\ UNCHANGED <<stack, fleet, template, bucket, work, reported, submits>>
  /\ SubmitUnchanged

\* The record of a job whose stack is gone will yet be cleaned up.
Stale(k) == k \in StackNames(Jobs)

CreateStack_RecordsFirst(t, staged) ==
  LET j == frame[t].job
      k == kind[j]
      Recorded1 == [resources EXCEPT ![j].stack = TRUE, ![j].code = staged]
  IN
  /\ frame[t].pc = "stack"
  /\ resources' = IF Tracked(j) THEN Recorded1 ELSE resources
  /\ \/ /\ stack[k].state = "none" /\ Tracked(j)
        /\ stack' = [stack EXCEPT ![k] = [state |-> "creating", job |-> j]]
        /\ Step(t, "save") /\ Happen(IfSo(Stale(k), "stale"))
     \/ /\ stack[k].state # "none"
        /\ stack' = stack
        /\ Step(t, "undo") /\ Happen({"taken"})
  /\ UNCHANGED <<code_bucket, owns_bucket, registered, mode_store>>
  /\ UNCHANGED <<fleet, template, bucket, objects, work, reported, submits>>
  /\ SubmitUnchanged

\* create_stack(), then the stack's name -- and where the package was staged -- goes
\* into the record, if that is still there (KeyError otherwise).
CreateStack(t, staged) ==
  LET j == frame[t].job
      k == kind[j]
      Create == /\ stack[k].state = "none"
                /\ stack' = [stack EXCEPT ![k] = [state |-> "creating", job |-> j]]
  IN
  /\ frame[t].pc = "stack"
  /\ \/ /\ Create /\ Tracked(j)
        /\ resources' = [resources EXCEPT ![j].stack = TRUE, ![j].code = staged]
        /\ Step(t, "save") /\ Happen(IfSo(Stale(k), "stale"))
        /\ UNCHANGED <<code_bucket, owns_bucket, registered, mode_store>>
     \/ Create /\ ~Tracked(j) /\ Fails(t, IfSo(Stale(k), "stale"))
     \/ Create /\ Fails(t, {"lost"} \cup IfSo(Stale(k), "stale"))
     \/ stack[k].state # "none" /\ stack' = stack /\ Fails(t, {"taken"})
     \/ stack' = stack /\ Fails(t, {"refused"})
  /\ UNCHANGED <<fleet, template, bucket, objects, work, reported, submits>>
  /\ SubmitUnchanged

\* The last part of _submit_lambda_job(), and _submit_ecs_job() of a job without
\* a fleet.
CreateLambdaStack(t) ==
  frame[t].pc = "stack" /\ kind[frame[t].job] = "lambda" /\ CreateStack(t, TRUE)
CreateEcsStack(t) ==
  frame[t].pc = "stack" /\ kind[frame[t].job] = "ecs" /\ CreateStack(t, FALSE)

\* create_launch_template() adopts a template that has the name.
CreateTemplate(t) ==
  /\ frame[t].pc = "template"
  /\ \/ /\ template' = IF template = NoJob THEN frame[t].job ELSE template
        /\ Goto(t, [frame[t] EXCEPT !.pc = "fleet", !.template = template'])
        /\ Happen({}) /\ ModeUnchanged
     \/ Fails(t, {"refused"}) /\ template' = template
  /\ UNCHANGED <<stack, fleet, bucket, objects, work, reported, submits>>
  /\ SubmitUnchanged

\* create_ec2_fleet().  When it raises -- as it must when the template went in
\* the meantime -- the template is deleted.
CreateFleet(t) ==
  LET j == frame[t].job
      Create(w) == /\ template = frame[t].template
                   /\ fleet' = [fleet EXCEPT ![j] = "active"]
                   /\ work' = [work EXCEPT ![j] = w]
      Note == /\ Tracked(j)
              /\ resources' = [resources EXCEPT ![j].fleet = TRUE,
                                                ![j].template = frame[t].template]
              /\ template' = template
              /\ UNCHANGED <<code_bucket, owns_bucket, mode_store>>
      Drop == \/ DeleteTemplates({frame[t].template})
              \/ template' = template
  IN
  /\ frame[t].pc = "fleet"
  /\ \/ /\ Create("running") /\ Note
        /\ registered' = registered \cup {j}
        /\ Step(t, "save") /\ Happen({})
     \/ /\ Create("none") /\ Note
        /\ registered' = registered
        /\ Step(t, "unfilled") /\ Happen({"capacity"})
     \/ Create("running") /\ ~Tracked(j) /\ template' = template /\ Fails(t, {})
     \/ Create("running") /\ Drop /\ Fails(t, {"lost"} \cup IfSo(template' # NoJob, "delete"))
     \/ /\ Drop /\ UNCHANGED <<fleet, work>>
        /\ Fails(t, IfSo(template = frame[t].template, "refused")
                    \cup IfSo(template' = frame[t].template, "delete"))
  /\ UNCHANGED <<stack, bucket, objects, reported, submits>>
  /\ SubmitUnchanged

\* The fleet that launched nothing is deleted; cleaning up will try again.
Unfilled(t) ==
  /\ frame[t].pc = "unfilled"
  /\ \/ DeleteFleets({frame[t].job}) /\ Fails(t, {})
     \/ UNCHANGED <<fleet, work>> /\ Fails(t, {"delete"})
  /\ UNCHANGED <<stack, template, bucket, objects, reported, submits>>
  /\ SubmitUnchanged

\* save_state(); then the provider records the job.
SaveJob(t) ==
  /\ frame[t].pc = "save"
  /\ submits' = [submits EXCEPT ![frame[t].job] = "accepted"]
  /\ reported' = [reported EXCEPT ![frame[t].job] = "PENDING"]
  /\ Goto(t, Idle) /\ Happen({})
  /\ UNCHANGED <<awsVars, work, resources, code_bucket, owns_bucket, registered>>
  /\ Save
  /\ SubmitUnchanged

\* cleanup_resources() of the record, and the exception reaches the caller.
Undo(t) ==
  /\ frame[t].pc = "undo"
  /\ \E refused \in Refusals :
       /\ CleanupResources({frame[t].job}, refused)
       /\ Happen(RefusalEvent(refused))
  /\ submits' = [submits EXCEPT ![frame[t].job] = "raised"]
  /\ Goto(t, Idle)
  /\ UNCHANGED <<bucket, registered, reported>>
  /\ SubmitUnchanged

SubmitStep(t) ==
  \/ EnsureBucket(t) \/ Stage(t) \/ CreateLambdaStack(t) \/ CreateEcsStack(t)
  \/ CreateTemplate(t) \/ CreateFleet(t) \/ Unfilled(t)
  \/ SaveJob(t) \/ Undo(t)

-----------------------------------------------------------------------------
(* get_job_status(), called by the provider's status().                    *)

StatusUnchanged == UNCHANGED <<config, awsVars, workVars, code_bucket, owns_bucket,
                               initialized, registered, submits>>

StatusBegin(t) ==
  /\ "status" \in Calls[t] /\ frame[t] = Idle /\ Unsettled # {}
  /\ Goto(t, [At("ask") EXCEPT !.todo = Unsettled])
  /\ Happen({})
  /\ UNCHANGED <<resources, mode_store, reported>>
  /\ StatusUnchanged

Answered(t, j, a) == [frame[t] EXCEPT !.pc = "ask", !.job = NoJob, !.todo = @ \ {j},
                                      !.answers[j] = a]

\* No call is made for a job without a record, an interrupted one -- neither a
\* fleet nor a stack would show a reclaim -- and one with neither fleet nor stack.
NeedsNoCall(j) ==
  ~Tracked(j) \/ resources[j].status = "INTERRUPTED" \/ ~(resources[j].fleet \/ resources[j].stack)

AskLocally(t) ==
  /\ frame[t].pc = "ask"
  /\ \E j \in frame[t].todo :
       /\ NeedsNoCall(j)
       /\ Goto(t, Answered(t, j, IF Tracked(j) THEN resources[j].status ELSE "UNKNOWN"))
  /\ Happen({})
  /\ UNCHANGED <<resources, mode_store, reported>>
  /\ StatusUnchanged

\* _get_spot_fleet_status(): an instant fleet stays active until it is deleted,
\* so its instances decide.
FleetAnswer(j) ==
  CASE fleet[j] = "forgotten" -> "COMPLETED"
    [] fleet[j] = "deleted"   -> "CANCELED"
    [] OTHER -> IF work[j] \in Live THEN "RUNNING" ELSE "COMPLETED"

\* _get_lambda_status() goes by the clock.  (PENDING, its answer of the first five
\* seconds, is taken for RUNNING.)
LambdaAnswer(j) == IF j \in timed_out THEN "COMPLETED" ELSE "RUNNING"

\* _get_ecs_status(): only running tasks are listed, and the service replaces one
\* that stopped.  Between the two the latest events decide; a service whose stack
\* is complete has reached a steady state, but others may have followed.
EcsAnswers(j) ==
  IF work[j] \in Live THEN {"RUNNING"}
  ELSE {"COMPLETED", "PENDING"} \cup IfSo("capacity" \in happened, "FAILED")

StackAnswers_Suffix(j) ==
  LET s == stack[kind[j]] IN
  CASE s.state = "none"          -> {"GONE"}
    [] s.state = "creating"      -> {"PENDING"}
    [] s.state = "delete_failed" -> {"FAILED"}
    [] s.state = "deleting"      -> {"CANCELED"}
    [] s.state = "rollback"      -> {"COMPLETED"}
    [] s.state = "complete"      -> IF kind[j] = "lambda" THEN {LambdaAnswer(j)}
                                                          ELSE EcsAnswers(s.job)

\* What describe_stacks() says of the stack with the job's stack name.
StackAnswers(j) ==
  LET s == stack[kind[j]] IN
  CASE s.state = "none"          -> {"GONE"}
    [] s.state = "creating"      -> {"PENDING"}
    [] s.state = "rollback"      -> {"FAILED"}
    [] s.state = "delete_failed" -> {"FAILED"}
    [] s.state = "deleting"      -> {"CANCELED"}
    [] s.state = "complete"      -> IF kind[j] = "lambda" THEN {LambdaAnswer(j)}
                                                          ELSE EcsAnswers(s.job)

\* A failed call leaves the status unknown; a failure inside the helpers for
\* fleets and services is an answer like any other.  A fleet whose instances
\* cannot be listed has none.
FailureAnswers(j) ==
  CASE kind[j] = "fleet"  -> {"UNKNOWN", "COMPLETED"}
    [] kind[j] = "ecs"    -> {"UNKNOWN", "ERROR"}
    [] kind[j] = "lambda" -> {"ERROR"}

\* The calls about one job are merged: no step between them changes the answer
\* to anything but what an earlier or a later call would have got.
Ask(t) ==
  /\ frame[t].pc = "ask"
  /\ \E j \in frame[t].todo :
       /\ ~NeedsNoCall(j)
       /\ \/ \E a \in IF resources[j].fleet THEN {FleetAnswer(j)} ELSE StackAnswers(j) :
               /\ Goto(t, [frame[t] EXCEPT !.pc = "write", !.job = j, !.answers[j] = a])
               /\ Happen({})
          \/ \E a \in FailureAnswers(j) :
               /\ Goto(t, [frame[t] EXCEPT !.pc = "write", !.job = j, !.answers[j] = a])
               /\ Happen({"describe"})
  /\ UNCHANGED <<resources, mode_store, reported>>
  /\ StatusUnchanged

Meaning(a) == CASE a = "ERROR" -> "UNKNOWN" [] a = "GONE" -> "COMPLETED" [] OTHER -> a

\* The record takes the answer, whatever it says by now.  When it has gone, the
\* KeyError of the branch for stacks is handled; that of the branch for fleets,
\* and of the handler of "does not exist", ends the whole call.
Write(t) ==
  /\ frame[t].pc = "write"
  /\ LET j == frame[t].job
         a == frame[t].answers[j]
     IN
     \/ /\ Tracked(j) /\ a # "ERROR"
        /\ resources' = [resources EXCEPT ![j].status = Meaning(a)]
        /\ Goto(t, Answered(t, j, a))
     \/ /\ a = "ERROR" \/ (~Tracked(j) /\ kind[j] # "fleet" /\ a # "GONE")
        /\ resources' = resources
        /\ Goto(t, Answered(t, j, "ERROR"))
     \/ /\ ~Tracked(j) /\ (kind[j] = "fleet" \/ a = "GONE")
        /\ resources' = resources
        /\ Goto(t, Idle)
  /\ Happen({})
  /\ UNCHANGED <<mode_store, reported>>
  /\ StatusUnchanged

\* The mode saves, and the provider takes the answers for the jobs it still has.
StatusUpdate(t) ==
  /\ frame[t].pc = "ask" /\ frame[t].todo = {}
  /\ LET heard == {j \in Recorded : frame[t].answers[j] # Absent} IN
     /\ reported' = [j \in Jobs |-> IF j \in heard THEN Meaning(frame[t].answers[j])
                                                   ELSE reported[j]]
     /\ Happen(IfSo(\E j \in heard : reported[j] \in Terminal, "late_answer"))
  /\ Goto(t, Idle)
  /\ resources' = resources
  /\ StatusUnchanged
  /\ Save

StatusStep(t) == AskLocally(t) \/ Ask(t) \/ Write(t) \/ StatusUpdate(t)

-----------------------------------------------------------------------------
(* cancel_jobs() and cleanup_resources(), called by cancel().              *)

CancelUnchanged == UNCHANGED <<config, bucket, code_bucket, owns_bucket, ran, timed_out,
                               initialized, registered, submits>>

\* The status cancel_jobs() returns.  Only a refused delete_stack() is told; the
\* record then keeps its status.
CancelAnswer(j, refused) ==
  CASE ~Tracked(j)                                   -> "UNKNOWN"
    [] Tracked(j) /\ resources[j].fleet              -> "CANCELED"
    [] Tracked(j) /\ resources[j].stack              ->
         IF "stack" \in refused THEN "FAILED" ELSE "CANCELED"
    [] OTHER                                         -> "UNKNOWN"

\* provider.cancel() of the jobs J.  (With no job to cancel, which only shutdown()
\* comes with, the code does not save: nothing has changed since the last save.)
CancelJobs(t, J, next, late) ==
  /\ \E refused \in Refusals \ {{"object"}, {"bucket"}} :
       /\ ReclaimFleets(WithFleet(J), refused)
       /\ DeleteStacks(IF "stack" \in refused THEN {} ELSE StackNames(J))
       /\ resources' = [j \in Jobs |-> IF j \in J /\ CancelAnswer(j, refused) = "CANCELED"
                                         THEN [resources[j] EXCEPT !.status = "CANCELED"]
                                         ELSE resources[j]]
       /\ reported' = [j \in Jobs |-> IF j \in J THEN CancelAnswer(j, refused) ELSE reported[j]]
       /\ Happen(RefusalEvent(refused) \cup late)
  /\ Goto(t, next)
  /\ UNCHANGED objects
  /\ CancelUnchanged
  /\ Save

Cancel(t, j) ==
  /\ "cancel" \in Calls[t] /\ frame[t] = Idle /\ j \in Recorded
  /\ CancelJobs(t, {j}, At("cleanup"), {})

\* The provider's cleanup pass: it forgets every job that ended.
Cleanup(t) ==
  /\ frame[t].pc = "cleanup"
  /\ LET ended == {j \in Recorded : reported[j] \in Terminal} IN
     /\ \E refused \in Refusals \ {{"bucket"}} :
          /\ CleanupResources(ended, refused)
          /\ Happen(RefusalEvent(refused))
     /\ reported' = [j \in Jobs |-> IF j \in ended THEN "collected" ELSE reported[j]]
  /\ Goto(t, IF frame[t].shutdown THEN [At("clear") EXCEPT !.shutdown = TRUE] ELSE Idle)
  /\ CancelUnchanged

-----------------------------------------------------------------------------
(* shutdown(): cancel() of every job, then cleanup_infrastructure().       *)

InMiddleOfSubmit == \E u \in Threads : frame[u].job # NoJob /\ frame[u].pc # "write"

Shutdown(t) ==
  /\ "shutdown" \in Calls[t] /\ frame[t] = Idle /\ initialized
  /\ CancelJobs(t, Recorded, [At("cleanup") EXCEPT !.shutdown = TRUE],
                IfSo(InMiddleOfSubmit, "late_submit"))

\* cleanup_all(), of the records left.
Clear(t) ==
  /\ frame[t].pc = "clear"
  /\ \E refused \in Refusals \ {{"bucket"}} :
       /\ CleanupResources(TrackedJobs, refused)
       /\ Happen(RefusalEvent(refused) \cup IfSo(InMiddleOfSubmit, "late_submit"))
  /\ Step(t, "sweep")
  /\ UNCHANGED reported
  /\ CancelUnchanged

\* _delete_lambda_code_bucket(), with what is left in it: only of a bucket of the
\* mode's own, of which it knows nothing afterwards, even if it could not be
\* deleted.
DeleteBucket(refused) ==
  LET mine == owns_bucket /\ code_bucket IN
  /\ bucket' = IF mine /\ refused = {} THEN FALSE ELSE bucket
  /\ objects' = IF mine /\ refused = {} THEN {} ELSE objects
  /\ code_bucket' = (code_bucket /\ ~mine)
  /\ owns_bucket' = FALSE

\* cleanup_all_spot_fleet_resources(): the fleets with an instance that carries
\* the workflow's tag.  (The monitor is stopped, and the mode no longer initialized.)
\* The provider empties its books.
Sweep(t) ==
  /\ frame[t].pc = "sweep"
  /\ \E refused \in {{}, {"bucket"}, {"fleet"}} :
       /\ DeleteBucket(refused \cap {"bucket"})
       /\ DeleteFleets(IF "fleet" \in refused \/ \A j \in Jobs : kind[j] # "fleet"
                         THEN {} ELSE {j \in Jobs : work[j] # "none"})
       /\ Happen(RefusalEvent(refused))
  /\ registered' = {}
  /\ initialized' = FALSE
  /\ reported' = [j \in Jobs |-> IF j \in Recorded THEN "collected" ELSE reported[j]]
  /\ Goto(t, Idle)
  /\ UNCHANGED <<config, stack, template, ran, timed_out, resources, submits>>
  /\ Save

-----------------------------------------------------------------------------
(* CloudFormation, ECS and EC2.                                            *)

AwsUnchanged == UNCHANGED <<config, modeVars, template, bucket, objects, timed_out, callVars>>

\* The service of an ECS stack has started its task by the time the stack is complete.
StackComplete(k) ==
  /\ stack[k].state = "creating"
  /\ stack' = [stack EXCEPT ![k].state = "complete"]
  /\ work' = IF k = "ecs" THEN [work EXCEPT ![stack[k].job] = "running"] ELSE work
  /\ Happen({})
  /\ UNCHANGED <<fleet, ran>> /\ AwsUnchanged

StackRollback(k) ==
  /\ stack[k].state = "creating"
  /\ stack' = [stack EXCEPT ![k].state = "rollback"]
  /\ Happen({"rollback"})
  /\ UNCHANGED <<fleet, work, ran>> /\ AwsUnchanged

StackGone(k) ==
  LET j == stack[k].job IN
  /\ stack[k].state = "deleting"
  /\ stack' = [stack EXCEPT ![k] = NoStack]
  /\ work' = IF work[j] \in Live THEN [work EXCEPT ![j] = "stopped"] ELSE work
  /\ Happen({})
  /\ UNCHANGED <<fleet, ran>> /\ AwsUnchanged

StackDeleteFails(k) ==
  /\ stack[k].state = "deleting"
  /\ stack' = [stack EXCEPT ![k].state = "delete_failed"]
  /\ Happen({"delete_failed"})
  /\ UNCHANGED <<fleet, work, ran>> /\ AwsUnchanged

\* The command ends: the container exits, or the instances shut themselves down.
Finish(j) ==
  /\ work[j] \in Live
  /\ work' = [work EXCEPT ![j] = "stopped"]
  /\ ran' = ran \cup {j}
  /\ Happen({})
  /\ UNCHANGED <<stack, fleet>> /\ AwsUnchanged

\* An ECS service replaces a task that stopped, for whatever reason, if it can.
ReplaceTask(j) ==
  /\ stack["ecs"] = [state |-> "complete", job |-> j] /\ work[j] = "stopped"
  /\ \/ work' = [work EXCEPT ![j] = "running"] /\ Happen({})
     \/ work' = work /\ Happen({"capacity"})
  /\ UNCHANGED <<stack, fleet, ran>> /\ AwsUnchanged

\* Spot capacity is taken back, from a fleet after a warning of two minutes ...
Reclaim(j) ==
  /\ work[j] = "running"
  /\ work' = [work EXCEPT ![j] = IF kind[j] = "fleet" THEN "warned" ELSE "stopped"]
  /\ Happen({"reclaim"})
  /\ UNCHANGED <<stack, fleet, ran>> /\ AwsUnchanged

\* ... to which only the monitor's handler listens, for a fleet it knows ...
MarkInterrupted(j) ==
  /\ work[j] = "warned" /\ j \in registered /\ Tracked(j)
  /\ resources[j].fleet /\ resources[j].status # "INTERRUPTED"
  /\ resources' = [resources EXCEPT ![j].status = "INTERRUPTED"]
  /\ Happen({})
  /\ UNCHANGED <<config, code_bucket, owns_bucket, initialized, registered, mode_store>>
  /\ UNCHANGED <<awsVars, workVars, callVars>>

\* ... and then the capacity is gone.
Reclaimed(j) ==
  /\ work[j] = "warned"
  /\ work' = [work EXCEPT ![j] = "stopped"]
  /\ Happen({})
  /\ UNCHANGED <<stack, fleet, ran>> /\ AwsUnchanged

ForgetFleet(j) ==
  /\ fleet[j] \in {"active", "deleted"} /\ work[j] \notin Live
  /\ fleet' = [fleet EXCEPT ![j] = "forgotten"]
  /\ Happen({"forget"})
  /\ UNCHANGED <<stack, work, ran>> /\ AwsUnchanged

\* lambda_timeout passes, before the provider settles the job.
ClockPasses(j) ==
  /\ kind[j] = "lambda" /\ j \in Unsettled \ timed_out
  /\ timed_out' = timed_out \cup {j}
  /\ Happen({})
  /\ UNCHANGED <<config, modeVars, awsVars, work, ran, callVars>>

-----------------------------------------------------------------------------
(* A crash, and initialize() of the successor: load_state().               *)

Names(r) == <<r.stack, r.code, r.fleet, r.template>>

KnowsMore ==
  \/ InMiddleOfSubmit
  \/ owns_bucket # mode_store.owns_bucket
  \/ \E j \in Jobs : Names(resources[j]) # Names(mode_store.resources[j])

Restart_NotOwner ==
  /\ initialized
  /\ resources' = mode_store.resources
  /\ code_bucket' = mode_store.code_bucket
  /\ owns_bucket' = FALSE
  /\ registered' = {j \in Jobs : mode_store.resources[j].fleet}
  /\ frame' = [t \in Threads |-> Idle]
  /\ submits' = [j \in Jobs |-> IF submits[j] = "called" THEN "raised" ELSE submits[j]]
  /\ Happen({"crash"} \cup IfSo(KnowsMore, "unsaved"))
  /\ UNCHANGED <<config, initialized, mode_store, awsVars, workVars, reported>>

\* The monitor, started by the constructor, is given the fleets of the records.
\* A submit under way is over, and its caller got no answer.
Restart ==
  /\ initialized
  /\ resources' = mode_store.resources
  /\ code_bucket' = mode_store.code_bucket
  /\ owns_bucket' = mode_store.owns_bucket
  /\ registered' = {j \in Jobs : mode_store.resources[j].fleet}
  /\ frame' = [t \in Threads |-> Idle]
  /\ submits' = [j \in Jobs |-> IF submits[j] = "called" THEN "raised" ELSE submits[j]]
  /\ Happen({"crash"} \cup IfSo(KnowsMore, "unsaved"))
  /\ UNCHANGED <<config, initialized, mode_store, awsVars, workVars, reported>>

-----------------------------------------------------------------------------
ThreadStep(t) ==
  \/ \E j \in Jobs : Submit(t, j)
  \/ SubmitStep(t)
  \/ StatusBegin(t) \/ StatusStep(t)
  \/ \E j \in Jobs : Cancel(t, j)
  \/ Cleanup(t)
  \/ Shutdown(t) \/ Clear(t) \/ Sweep(t)

Environment ==
  \/ \E k \in Stacks : StackComplete(k) \/ StackRollback(k) \/ StackGone(k) \/ StackDeleteFails(k)
  \/ \E j \in Jobs : Finish(j) \/ ReplaceTask(j)
  \/ \E j \in Jobs : Reclaim(j) \/ MarkInterrupted(j) \/ Reclaimed(j)
  \/ \E j \in Jobs : ForgetFleet(j) \/ ClockPasses(j)

Next == (\E t \in Threads : ThreadStep(t)) \/ Environment \/ Restart

Spec == Init /\ [][Next]_vars

-----------------------------------------------------------------------------
(* Properties.                                                             *)

Unless(K, P) == happened \cap K = {} => P

\* A job reported as completed has run its command to the end, whatever stack or
\* fleet the answer was taken from (get_job_status() reads the state of a stack
\* that bears the job's stack name, of instances that are gone, of a service
\* between two tasks).  Lambda jobs are reported by the clock, see
\* CompletedJobRan.
NoFalseCompletion ==
  Unless({"reclaim", "describe", "late_answer", "late_submit", "stale"},
    \A j \in Jobs : reported[j] = "COMPLETED" /\ kind[j] # "lambda" => j \in ran)

\* A job reported as completed has run: "Tasks run on Lambda or ECS/Fargate with
\* no EC2 instances".
CompletedJobRan ==
  Unless(EventKinds \cup ScheduleKinds,
    \A j \in Jobs : reported[j] = "COMPLETED" => j \in ran)

\* A standing stack is deleted only when its own job ended or its submission
\* failed, or in a shutdown, although delete_stack() goes by a name that all jobs
\* of the provider share -- unless a record of an older job still has the name.
NoCollateralDelete ==
  [][\A k \in Stacks :
       LET j == stack[k].job IN
       stack[k].state \in Standing /\ stack'[k].state = "deleting"
         => \/ reported'[j] \in Terminal \cup {"collected"}
            \/ submits'[j] = "raised"
            \/ \E t \in Threads : frame[t].pc \in {"clear", "sweep"}
            \/ "stale" \in happened']_vars

\* Nothing runs for a job the provider reported as cancelled or forgot, nor for
\* one whose submission failed: neither its stack nor the instances of its fleet.
\* Excepted are refused and failed deletions, a create call that took effect and
\* raised, a shutdown overtaken by a submit, and what a dying process had not saved.
ReleasedJobStops ==
  Unless({"delete", "delete_failed", "lost", "late_submit", "unsaved"},
    \A j \in Jobs :
      reported[j] \in {"CANCELED", "collected"} \/ submits[j] = "raised"
        => /\ \A k \in Stacks : stack[k].job = j => stack[k].state \notin Standing
           /\ ~(fleet[j] = "active" /\ work[j] \in Live))

\* Once shutdown() is over, nothing of what the mode created stands: no stack, no
\* fleet with instances, no launch template, no bucket of its own and no package
\* in a bucket of the caller's.  Excepted are the events above and, for packages,
\* a stack that could not be created: the package staged for it is not in the record.
ShutdownLeavesNothing ==
  ~initialized =>
    Unless({"delete", "delete_failed", "lost", "late_submit", "unsaved"},
      /\ \A k \in Stacks : stack[k].state \notin Standing
      /\ \A j \in Jobs : ~(fleet[j] = "active" /\ work[j] \in Live)
      /\ template = NoJob
      /\ ~bucket
      /\ Unless({"taken", "refused"}, objects = {}))

=============================================================================
