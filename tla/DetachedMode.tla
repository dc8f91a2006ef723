---------------------------- MODULE DetachedMode ----------------------------
(***************************************************************************)
(* Detached mode (modes/detached.py): the client writes one document per   *)
(* job to the SSM parameter store, and a program on the bastion instance   *)
(* polls that store, launches a worker or an EC2 Fleet for each job,       *)
(* follows it, and handles cancellations.  The two share nothing but the   *)
(* parameters                                                              *)
(*                                                                         *)
(*   jobs/<id>     the command to run        client writes, both read      *)
(*   status/<id>   status and instance ids   both read and write           *)
(*   cancel        the jobs to cancel        client writes, bastion deletes*)
(*                                                                         *)
(* Every parameter call is atomic and nothing spans two of them, so each   *)
(* action below performs at most one call that the other party can observe *)
(* in between -- except where a comment says that two are merged.          *)
(*                                                                         *)
(* What the environment may do to the protocol is a set of named events;   *)
(* `happened' remembers which of them occurred, and the properties name    *)
(* the events that break them.  The client's spot interruption monitor and *)
(* the sticky INTERRUPTED status it gives a local record are left out: with*)
(* them get_job_status() stops asking for that job.                        *)
(***************************************************************************)
EXTENDS Naturals, Sequences, FiniteSets

CONSTANTS
  Jobs,           \* job identifiers (each a fresh UUID)
  Instances,      \* EC2 instance identifiers; EC2 has capacity for these
  NoJob,          \* "no job"
  NoInstance,     \* "no instance_id in the document"
  NodesPerBlock,  \* nodes_per_block: the target capacity of a fleet
  Events,         \* the kinds of event the environment may produce
  MaxEvents       \* how many of them one behaviour contains

EventKinds ==
  {"crash",        \* the bastion process dies; systemd restarts it
   "call",         \* an AWS call of the bastion raises
   "put",          \* a put_parameter of update_job_status() raises
   "list",         \* get_fleet_instance_ids() cannot list the fleet
   "client_call",  \* the second put of submit_job(), the put of cancel_jobs() or a
                   \* deletion of cleanup_resources() raises
   "slow_submit",  \* the bastion lists the jobs between the two puts of submit_job()
   "stale_list",   \* the client deletes a listed job before the bastion gets its status
   "slow_boot",    \* a worker is still `pending' when the bastion describes it
   "slow_stop",    \* a finished worker is `shutting-down' when it is described
   "reclaim",      \* EC2 takes a worker away (spot)
   "forget",       \* EC2 no longer knows a terminated instance
   "overlap",      \* cancel_jobs() while an earlier request is still there
   "idle"}         \* the idle timer halts the bastion

ASSUME DetachedAssumption ==
  /\ NoJob \notin Jobs /\ NoInstance \notin Instances
  /\ NodesPerBlock \in Nat \ {0} /\ IsFiniteSet(Instances)
  /\ Events \subseteq EventKinds /\ MaxEvents \in Nat

VARIABLES
  use_spot_fleet,   \* the mode's configuration: one worker, or one fleet, per job
  job_params,       \* the jobs with a jobs/<id> parameter
  status_params,    \* the status/<id> parameters
  cancel_param,     \* the job_ids of the cancel parameter; {} when there is none
  resources,        \* DetachedMode.resources, by job
  client,           \* where the client's thread is
  submitted,        \* jobs given to submit_job()
  canceled,         \* jobs given to cancel_jobs()
  bastion,          \* where the bastion's loop is, and its local variables
  ec2,              \* state of each instance at EC2
  owner,            \* the job an instance was launched for
  finished,         \* instances whose command ran to its end
  fleet,            \* state of the fleet with the client token of each job
  template,         \* whether the launch template exists
  forsaken,         \* history: workers whose document the client deleted while it
                    \* named them and did not say that the job had ended
  happened,         \* the events that occurred
  events            \* how many

clientVars == <<resources, client, submitted, canceled>>
paramVars  == <<job_params, status_params, cancel_param>>
cloudVars  == <<ec2, owner, finished, fleet, template>>
eventVars  == <<happened, events>>
vars == <<use_spot_fleet, paramVars, clientVars, bastion, cloudVars, forsaken, eventVars>>

-----------------------------------------------------------------------------
(* Documents, and the bastion's local variables.                           *)

Absent == "ABSENT"   \* no such parameter, no such record

Status == {"PENDING", "SUBMITTING", "RUNNING", "COMPLETED", "FAILED",
           "CANCELED"}
Terminal == {"COMPLETED", "FAILED", "CANCELED"}

Document == [status : Status \cup {Absent},
             instance_id : Instances \cup {NoInstance},
             all_instance_ids : SUBSET Instances,
             fleet_request_id : BOOLEAN]     \* whether it names the job's fleet

\* The documents of update_job_status().
PlainDocument(s, i) == [status |-> s, instance_id |-> i,
                        all_instance_ids |-> {}, fleet_request_id |-> FALSE]
FleetDocument(s, i, all) == [status |-> s, instance_id |-> i,
                             all_instance_ids |-> all, fleet_request_id |-> TRUE]
NoDocument == PlainDocument(Absent, NoInstance)

\* A record of DetachedMode.resources: `fleet_request_id' once get_job_status()
\* has read it, and with it resource_type = spot_fleet.
LocalRecord == [status : Status \cup {Absent}, fleet_request_id : BOOLEAN]
NoLocalRecord == [status |-> Absent, fleet_request_id |-> FALSE]

Tracked(j) == resources[j].status # Absent

\* The loop's program counter and what it holds across calls: the documents
\* and instance statuses read by update_running_job_status(), the status
\* updates it will write, the request handle_cancel_requests() is working on
\* with the instances and fleets it collected, the pending jobs, and the job
\* being launched with its new instances.
Labels == {"update", "describe", "fleets", "put", "cancel", "collect",
           "delete_fleets", "terminate", "delete_cancel", "list", "check",
           "submitting", "launch", "create_fleet", "record", "off"}

AtLabel(l) == [pc |-> l, todo |-> {}, docs |-> [j \in Jobs |-> NoDocument],
               seen |-> [i \in Instances |-> Absent],
               puts |-> [j \in Jobs |-> << >>],
               request |-> {}, fleets |-> {}, kill |-> {}, spare |-> {},
               pending |-> {}, job |-> NoJob, new |-> {}]

BastionState ==
  [pc : Labels, todo : SUBSET Jobs, docs : [Jobs -> Document],
   seen : [Instances -> Status \cup {Absent}], puts : [Jobs -> Seq(Status)],
   request : SUBSET Jobs, fleets : SUBSET Jobs, kill : SUBSET Instances,
   spare : SUBSET Instances,
   pending : SUBSET Jobs, job : Jobs \cup {NoJob}, new : SUBSET Instances]

TypeOK ==
  /\ use_spot_fleet \in BOOLEAN
  /\ job_params \in SUBSET Jobs
  /\ status_params \in [Jobs -> Document]
  /\ cancel_param \in SUBSET Jobs
  /\ resources \in [Jobs -> LocalRecord]
  /\ client \in [op : {"idle", "submit", "delete_jobs", "delete_status"},
                 job : Jobs \cup {NoJob}]
  /\ submitted \in SUBSET Jobs
  /\ canceled \in SUBSET Jobs
  /\ bastion \in BastionState
  /\ ec2 \in [Instances -> {"unused", "pending", "running", "shutting-down",
                            "terminated", "gone"}]
  /\ owner \in [Instances -> Jobs \cup {NoJob}]
  /\ finished \in SUBSET Instances
  /\ fleet \in [Jobs -> {"none", "active", "failed", "deleted"}]
  /\ template \in BOOLEAN
  /\ forsaken \in SUBSET Instances
  /\ happened \in SUBSET Events
  /\ events \in Nat

ClientIdle == [op |-> "idle", job |-> NoJob]

\* initialize() has succeeded and the manager service has started.
Init ==
  /\ use_spot_fleet \in BOOLEAN
  /\ job_params = {}
  /\ status_params = [j \in Jobs |-> NoDocument]
  /\ cancel_param = {}
  /\ resources = [j \in Jobs |-> NoLocalRecord]
  /\ client = ClientIdle
  /\ submitted = {}
  /\ canceled = {}
  /\ bastion = AtLabel("update")
  /\ ec2 = [i \in Instances |-> "unused"]
  /\ owner = [i \in Instances |-> NoJob]
  /\ finished = {}
  /\ fleet = [j \in Jobs |-> "none"]
  /\ template = FALSE
  /\ forsaken = {}
  /\ happened = {}
  /\ events = 0

-----------------------------------------------------------------------------
(* Events.                                                                 *)

\* The kinds in K happen in this step; a step without events is Happen({}).
Happen(K) ==
  /\ K \subseteq Events
  /\ events + Cardinality(K) <= MaxEvents
  /\ events' = events + Cardinality(K)
  /\ happened' = happened \cup K

\* The event occurs, or the step is ordinary.
IfSo(condition, kind) == IF condition THEN {kind} ELSE {}

-----------------------------------------------------------------------------
(* EC2.                                                                    *)

Live == {"pending", "running"}
Workers(j) == {i \in Instances : owner[i] = j}
Unused == {i \in Instances : ec2[i] = "unused"}

\* terminate_instances() and delete_fleets(): the workers in S stop.
Stopped(S) == [i \in Instances |-> IF i \in S /\ ec2[i] \in Live
                                     THEN "shutting-down" ELSE ec2[i]]

\* run_instances() or create_fleet() gives the job new instances.
Launch(j, S) ==
  /\ ec2' = [i \in Instances |-> IF i \in S THEN "pending" ELSE ec2[i]]
  /\ owner' = [i \in Instances |-> IF i \in S THEN j ELSE owner[i]]

Boot(i) ==
  /\ ec2[i] = "pending"
  /\ ec2' = [ec2 EXCEPT ![i] = "running"]
  /\ UNCHANGED <<use_spot_fleet, paramVars, clientVars, bastion, owner,
                 finished, fleet, template, forsaken, eventVars>>

\* The user data script runs the command and then, with auto_shutdown (the
\* default), halts the instance; its shutdown behaviour is `terminate'.
Finish(i) ==
  /\ ec2[i] = "running"
  /\ ec2' = [ec2 EXCEPT ![i] = "shutting-down"]
  /\ finished' = finished \cup {i}
  /\ UNCHANGED <<use_spot_fleet, paramVars, clientVars, bastion, owner, fleet,
                 template, forsaken, eventVars>>

Stop(i) ==
  /\ ec2[i] = "shutting-down"
  /\ ec2' = [ec2 EXCEPT ![i] = "terminated"]
  /\ UNCHANGED <<use_spot_fleet, paramVars, clientVars, bastion, owner,
                 finished, fleet, template, forsaken, eventVars>>

Reclaim(i) ==
  /\ ec2[i] \in Live
  /\ Happen({"reclaim"})
  /\ ec2' = Stopped({i})
  /\ UNCHANGED <<use_spot_fleet, paramVars, clientVars, bastion, owner,
                 finished, fleet, template, forsaken>>

Forget(i) ==
  /\ ec2[i] = "terminated"
  /\ Happen({"forget"})
  /\ ec2' = [ec2 EXCEPT ![i] = "gone"]
  /\ UNCHANGED <<use_spot_fleet, paramVars, clientVars, bastion, owner,
                 finished, fleet, template, forsaken>>

-----------------------------------------------------------------------------
(* The client.                                                             *)

ClientUnchanged == UNCHANGED <<use_spot_fleet, bastion, owner, finished, template>>

\* submit_job(): put jobs/<id> ...
SubmitJob(j) ==
  /\ client = ClientIdle /\ j \notin submitted
  /\ submitted' = submitted \cup {j}
  /\ job_params' = job_params \cup {j}
  /\ client' = [op |-> "submit", job |-> j]
  /\ UNCHANGED <<status_params, cancel_param, resources, canceled, ec2, fleet, forsaken,
                 eventVars>>
  /\ ClientUnchanged

\* ... then status/<id>, whatever it holds by now, track the record and save.
\* When the second put raises the caller gets an OperatingModeError and no
\* record, and jobs/<id> stays.
SubmitStatus ==
  /\ client.op = "submit"
  /\ client' = ClientIdle
  /\ LET j == client.job IN
     \/ /\ status_params' = [status_params EXCEPT ![j] = PlainDocument("PENDING", NoInstance)]
        /\ resources' = [resources EXCEPT ![j] = [NoLocalRecord EXCEPT !.status = "PENDING"]]
        /\ Happen({})
     \/ /\ Happen({"client_call"})
        /\ UNCHANGED <<status_params, resources>>
  /\ UNCHANGED <<job_params, cancel_param, submitted, canceled, ec2, fleet, forsaken>>
  /\ ClientUnchanged

\* get_job_status() of one job.  The provider polls only jobs that are not
\* terminal.  A missing parameter reports UNKNOWN and changes no record.
GetJobStatus(j) ==
  /\ client = ClientIdle
  /\ Tracked(j) /\ resources[j].status \notin Terminal
  /\ status_params[j] # NoDocument
  /\ resources' = [resources EXCEPT
       ![j] = [status |-> status_params[j].status,
               fleet_request_id |-> @.fleet_request_id \/ status_params[j].fleet_request_id]]
  /\ UNCHANGED <<paramVars, client, submitted, canceled, ec2, fleet, forsaken, eventVars>>
  /\ ClientUnchanged

\* The request cancel_jobs() writes for the jobs in S replaces whatever is
\* there; a failed put is only logged.  The jobs are CANCELED locally at once.
RequestCancel(S, others) ==
  /\ canceled' = canceled \cup S
  /\ LET overlap == IfSo(cancel_param \cup bastion.request # {}, "overlap") IN
     \/ cancel_param' = S /\ Happen(others \cup overlap)
     \/ cancel_param' = cancel_param /\ Happen(others \cup {"client_call"})

MarkedCanceled(S) ==
  [j \in Jobs |-> IF j \in S THEN [resources[j] EXCEPT !.status = "CANCELED"]
                             ELSE resources[j]]

CancelJobs(S) ==
  /\ client = ClientIdle
  /\ S # {} /\ \A j \in S : Tracked(j)
  /\ RequestCancel(S, {})
  /\ resources' = MarkedCanceled(S)
  /\ UNCHANGED <<job_params, status_params, client, submitted, ec2, fleet, forsaken>>
  /\ ClientUnchanged

\* cleanup_resources([j]): cancel the job if its record says PENDING or RUNNING,
\* delete the fleet the record names (tolerating one that is gone; any other
\* error is logged), then jobs/<id>, then status/<id>.  Nothing waits for the
\* bastion: EphemeralProvider.cancel() cleans up right after cancel_jobs(), and
\* shutdown cleans up every job.  (The put of the request and the deletion of
\* the fleet are two calls, merged: no step of the bastion depends on their
\* order.)
CleanupResources(j) ==
  /\ client = ClientIdle
  /\ Tracked(j)
  /\ LET record == resources[j] IN
     \E refused \in SUBSET (IF record.fleet_request_id THEN {"client_call"} ELSE {}) :
       /\ IF record.status \in {"PENDING", "RUNNING"}
            THEN RequestCancel({j}, refused) /\ resources' = MarkedCanceled({j})
            ELSE Happen(refused) /\ UNCHANGED <<cancel_param, canceled, resources>>
       /\ IF record.fleet_request_id /\ refused = {}
            THEN /\ ec2' = Stopped(Workers(j))
                 /\ fleet' = [fleet EXCEPT ![j] = "deleted"]
            ELSE UNCHANGED <<ec2, fleet>>
  /\ client' = [op |-> "delete_jobs", job |-> j]
  /\ UNCHANGED <<job_params, status_params, submitted, forsaken>>
  /\ ClientUnchanged

\* Whatever became of the parameters, the record is dropped.
DropRecord ==
  /\ resources' = [resources EXCEPT ![client.job] = NoLocalRecord]
  /\ client' = ClientIdle

\* When the first deletion raises, the second is not tried.
DeleteJob ==
  /\ client.op = "delete_jobs"
  /\ \/ /\ job_params' = job_params \ {client.job}
        /\ client' = [client EXCEPT !.op = "delete_status"]
        /\ Happen({}) /\ UNCHANGED resources
     \/ DropRecord /\ Happen({"client_call"}) /\ UNCHANGED job_params
  /\ UNCHANGED <<status_params, cancel_param, submitted, canceled, ec2, fleet, forsaken>>
  /\ ClientUnchanged

Named(doc) == ({doc.instance_id} \cup doc.all_instance_ids) \ {NoInstance}

DeleteStatus ==
  /\ client.op = "delete_status"
  /\ DropRecord
  /\ LET doc == status_params[client.job] IN
     \/ /\ status_params' = [status_params EXCEPT ![client.job] = NoDocument]
        /\ forsaken' = forsaken \cup IF doc.status \in Terminal THEN {} ELSE Named(doc)
        /\ Happen(IfSo(bastion.pc = "check" /\ client.job \in bastion.todo, "stale_list"))
     \/ Happen({"client_call"}) /\ UNCHANGED <<status_params, forsaken>>
  /\ UNCHANGED <<job_params, cancel_param, submitted, canceled, ec2, fleet>>
  /\ ClientUnchanged

ClientContinues == SubmitStatus \/ DeleteJob \/ DeleteStatus

-----------------------------------------------------------------------------
(* The bastion: update_running_job_status().                               *)

BastionUnchanged == UNCHANGED <<use_spot_fleet, job_params, clientVars, finished, forsaken>>

\* update_job_status(): the exception of a failed put is swallowed.
PutStatus(j, doc, others) ==
  \/ status_params' = [status_params EXCEPT ![j] = doc] /\ Happen(others)
  \/ status_params' = status_params /\ Happen(others \cup {"put"})

UpdateRead_PlainOnly ==
  /\ bastion.pc = "update"
  /\ LET running == {j \in Jobs : /\ status_params[j].status = "RUNNING"
                                  /\ ~status_params[j].fleet_request_id} IN
     bastion' = IF running = {} THEN AtLabel("cancel")
                ELSE [AtLabel("describe") EXCEPT
                        !.todo = running,
                        !.docs = [j \in Jobs |-> IF j \in running THEN status_params[j]
                                                                  ELSE NoDocument]]
  /\ UNCHANGED <<status_params, cancel_param, cloudVars, eventVars>>
  /\ BastionUnchanged

\* Every RUNNING document, with its instance.
UpdateRead ==
  /\ bastion.pc = "update"
  /\ LET running == {j \in Jobs : status_params[j].status = "RUNNING"} IN
     bastion' = IF running = {} THEN AtLabel("cancel")
                ELSE [AtLabel("describe") EXCEPT
                        !.todo = running,
                        !.docs = [j \in Jobs |-> IF j \in running THEN status_params[j]
                                                                  ELSE NoDocument]]
  /\ UNCHANGED <<status_params, cancel_param, cloudVars, eventVars>>
  /\ BastionUnchanged

MappedStatus_Swapped(state) ==
  CASE state = "pending"       -> "PENDING"
    [] state = "running"       -> "RUNNING"
    [] state = "shutting-down" -> "COMPLETED"
    [] state = "terminated"    -> "CANCELED"

\* EC2_STATUS_MAPPING.  Its entries for `stopping' and `stopped' are out of reach:
\* the workers are launched with the shutdown behaviour `terminate'.
MappedStatus(state) ==
  CASE state = "pending"       -> "PENDING"
    [] state = "running"       -> "RUNNING"
    [] state = "shutting-down" -> "CANCELED"
    [] state = "terminated"    -> "COMPLETED"

\* describe_instances() fails as a whole if EC2 does not know one instance of
\* the batch; the batch is then taken to be completed.
InstanceStatuses(S) ==
  [i \in Instances |->
     IF i \notin S THEN Absent
     ELSE IF \E k \in S : ec2[k] = "gone" THEN "COMPLETED"
     ELSE MappedStatus(ec2[i])]

DescribeInstances ==
  /\ bastion.pc = "describe"
  /\ LET S == {bastion.docs[j].instance_id : j \in bastion.todo} \ {NoInstance}
     IN
     \/ /\ bastion' = [bastion EXCEPT !.pc = "fleets", !.seen = InstanceStatuses(S)]
        /\ Happen(IfSo(\E i \in S : ec2[i] = "pending", "slow_boot")
                  \cup IfSo(\E i \in S \cap finished : ec2[i] = "shutting-down", "slow_stop"))
     \/ bastion' = AtLabel("cancel") /\ Happen({"call"})
  /\ UNCHANGED <<status_params, cancel_param, cloudVars>>
  /\ BastionUnchanged

FleetInstances_Booted(j, unlisted) ==
  IF j \in unlisted THEN {} ELSE {i \in Workers(j) : ec2[i] = "running"}

\* get_fleet_instance_ids(): empty when the listing fails.
FleetInstances(j, unlisted) ==
  IF j \in unlisted THEN {} ELSE {i \in Workers(j) : ec2[i] \in Live}

\* The program makes instant fleets only: one answer of create_fleet() settles
\* them, so that the states `submitted' and `modifying' (PENDING) and unknown ones
\* (UNKNOWN), which it also handles, do not occur.
FleetStatus(j, unlisted) ==
  CASE fleet[j] = "deleted" -> "CANCELED"
    [] fleet[j] = "failed"  -> "FAILED"
    [] fleet[j] = "none"    -> "COMPLETED"
    [] fleet[j] = "active"  -> IF FleetInstances(j, unlisted) # {} THEN "RUNNING"
                                                                ELSE "COMPLETED"

\* The statuses written for job j: of a plain job, its instance's unless it is
\* RUNNING; of a fleet job, the fleet's and then the primary instance's.
NewStatuses(j, unlisted) ==
  LET doc     == bastion.docs[j]
      primary == IF doc.instance_id = NoInstance THEN Absent ELSE bastion.seen[doc.instance_id]
      fs      == FleetStatus(j, unlisted)
      ofInstance == IF primary \in {"RUNNING", Absent} THEN << >> ELSE <<primary>>
  IN IF ~doc.fleet_request_id THEN ofInstance
     ELSE IF fs = "RUNNING" THEN << >> ELSE <<fs>> \o ofInstance

DescribeFleets ==
  /\ bastion.pc = "fleets"
  /\ \/ \E unlisted \in SUBSET {j \in bastion.todo : bastion.docs[j].fleet_request_id} :
          LET puts    == [j \in Jobs |-> IF j \in bastion.todo
                                           THEN NewStatuses(j, unlisted) ELSE << >>]
              changed == {j \in Jobs : puts[j] # << >>}
          IN /\ Happen(IfSo(unlisted # {}, "list"))
             /\ bastion' = IF changed = {} THEN AtLabel("cancel")
                           ELSE [bastion EXCEPT !.pc = "put", !.todo = changed,
                                   !.puts = puts, !.seen = [i \in Instances |-> Absent]]
     \/ bastion' = AtLabel("cancel") /\ Happen({"call"})
  /\ UNCHANGED <<status_params, cancel_param, cloudVars>>
  /\ BastionUnchanged

PutChanged ==
  /\ bastion.pc = "put"
  /\ \E j \in bastion.todo :
       LET rest == Tail(bastion.puts[j])
           left == IF rest = << >> THEN bastion.todo \ {j} ELSE bastion.todo
       IN /\ PutStatus(j, [bastion.docs[j] EXCEPT !.status = Head(bastion.puts[j])], {})
          /\ bastion' = IF left = {} THEN AtLabel("cancel")
                        ELSE [bastion EXCEPT !.todo = left, !.puts[j] = rest]
  /\ UNCHANGED <<cancel_param, cloudVars>>
  /\ BastionUnchanged

-----------------------------------------------------------------------------
(* The bastion: handle_cancel_requests().                                  *)

CancelRead ==
  /\ bastion.pc = "cancel"
  /\ \/ /\ bastion' = IF cancel_param = {} THEN AtLabel("list")
                      ELSE [AtLabel("collect") EXCEPT !.todo = cancel_param,
                                                      !.request = cancel_param]
        /\ Happen({})
     \/ bastion' = AtLabel("list") /\ Happen({"call"})
  /\ UNCHANGED <<status_params, cancel_param, cloudVars>>
  /\ BastionUnchanged

CollectJob_PrimaryOnly ==
  /\ bastion.pc = "collect"
  /\ \E j \in bastion.todo :
       LET doc  == status_params[j]
           left == bastion.todo \ {j}
       IN /\ IF doc.instance_id # NoInstance
               THEN PutStatus(j, [doc EXCEPT !.status = "CANCELED"], {})
               ELSE UNCHANGED status_params /\ Happen({})
          /\ bastion' = [bastion EXCEPT
               !.todo = left, !.pc = IF left = {} THEN "delete_fleets" ELSE @,
               !.kill = @ \cup ({doc.instance_id} \ {NoInstance})]
  /\ UNCHANGED <<cancel_param, cloudVars>>
  /\ BastionUnchanged

CollectJob_Unfiltered ==
  /\ bastion.pc = "collect"
  /\ \E j \in bastion.todo :
       LET doc  == status_params[j]
           left == bastion.todo \ {j}
       IN /\ PutStatus(j, [doc EXCEPT !.status = "CANCELED"], {})
          /\ bastion' = [bastion EXCEPT
               !.todo = left, !.pc = IF left = {} THEN "delete_fleets" ELSE @,
               !.kill = @ \cup {doc.instance_id}, !.spare = @ \cup doc.all_instance_ids,
               !.fleets = @ \cup IF doc.fleet_request_id THEN {j} ELSE {}]
  /\ UNCHANGED <<cancel_param, cloudVars>>
  /\ BastionUnchanged

\* The instances and the fleet of one job of the request, whose status becomes
\* CANCELED.  A job without a status parameter is skipped, and so is a plain job
\* that has no instance yet.  (The get and the put are merged.)
CollectJob ==
  /\ bastion.pc = "collect"
  /\ \E j \in bastion.todo :
       LET doc   == status_params[j]
           left  == bastion.todo \ {j}
           ids   == {doc.instance_id} \ {NoInstance}
           marks == doc.fleet_request_id \/ ids # {}
       IN \/ /\ IF doc # NoDocument /\ marks
                  THEN PutStatus(j, [doc EXCEPT !.status = "CANCELED"], {})
                  ELSE UNCHANGED status_params /\ Happen({})
             /\ bastion' = [bastion EXCEPT
                  !.todo = left, !.pc = IF left = {} THEN "delete_fleets" ELSE @,
                  !.kill = @ \cup ids, !.spare = @ \cup doc.all_instance_ids,
                  !.fleets = @ \cup IF doc.fleet_request_id THEN {j} ELSE {}]
          \/ bastion' = AtLabel("list") /\ Happen({"call"}) /\ UNCHANGED status_params
  /\ UNCHANGED <<cancel_param, cloudVars>>
  /\ BastionUnchanged

\* delete_fleets(TerminateInstances=True) for each fleet; when one fails, all
\* the fleets' instances are terminated directly.
DeleteFleets ==
  /\ bastion.pc = "delete_fleets"
  /\ \E failed \in SUBSET bastion.fleets :
       LET deleted == bastion.fleets \ failed IN
       /\ Happen(IfSo(failed # {}, "call"))
       /\ fleet' = [j \in Jobs |-> IF j \in deleted THEN "deleted" ELSE fleet[j]]
       /\ ec2' = Stopped(UNION {Workers(j) : j \in deleted})
       /\ bastion' = [bastion EXCEPT !.pc = "terminate", !.fleets = {}, !.spare = {},
                        !.kill = @ \cup IF failed = {} THEN {} ELSE bastion.spare]
  /\ UNCHANGED <<status_params, cancel_param, owner, finished, template>>
  /\ BastionUnchanged

\* terminate_instances() fails as a whole if EC2 does not know one of them; the
\* exception leaves the request in place, to be tried again by the next loop.
TerminateInstances ==
  /\ bastion.pc = "terminate"
  /\ LET known == \A i \in bastion.kill : ec2[i] # "gone" IN
     \/ /\ known
        /\ ec2' = Stopped(bastion.kill)
        /\ bastion' = [bastion EXCEPT !.pc = "delete_cancel", !.kill = {}]
        /\ Happen({})
     \/ /\ bastion.kill # {}
        /\ Happen(IfSo(known, "call"))
        /\ bastion' = AtLabel("list")
        /\ UNCHANGED ec2
  /\ UNCHANGED <<status_params, cancel_param, owner, finished, fleet, template>>
  /\ BastionUnchanged

\* The request is deleted, whichever request it is by now.
DeleteCancel ==
  /\ bastion.pc = "delete_cancel"
  /\ \/ cancel_param' = {} /\ Happen({})
     \/ cancel_param' = cancel_param /\ Happen({"call"})
  /\ bastion' = AtLabel("list")
  /\ UNCHANGED <<status_params, cloudVars>>
  /\ BastionUnchanged

-----------------------------------------------------------------------------
(* The bastion: get_pending_jobs(), and the launches of main().            *)

ListJobs ==
  /\ bastion.pc = "list"
  /\ Happen(IfSo(client.op = "submit" /\ status_params[client.job] = NoDocument
                   /\ client.job \in job_params, "slow_submit"))
  /\ bastion' = IF job_params = {} THEN AtLabel("update")
                ELSE [AtLabel("check") EXCEPT !.todo = job_params]
  /\ UNCHANGED <<status_params, cancel_param, cloudVars>>
  /\ BastionUnchanged

CheckJob_RetriesFailed ==
  /\ bastion.pc = "check"
  /\ \E j \in bastion.todo :
       LET left    == bastion.todo \ {j}
           pending == bastion.pending \cup
                        IF status_params[j].status \notin {"RUNNING", "COMPLETED", "CANCELED"}
                          THEN {j} ELSE {}
       IN bastion' = IF left # {}
                       THEN [bastion EXCEPT !.todo = left, !.pending = pending]
                     ELSE IF pending = {} THEN AtLabel("update")
                     ELSE [AtLabel("submitting") EXCEPT !.pending = pending]
  /\ Happen({})
  /\ UNCHANGED <<status_params, cancel_param, cloudVars>>
  /\ BastionUnchanged

\* A job is pending if it has no status, or if that is PENDING or SUBMITTING.
CheckJob ==
  /\ bastion.pc = "check"
  /\ \/ \E j \in bastion.todo :
          LET left    == bastion.todo \ {j}
              pending == bastion.pending \cup
                           IF status_params[j].status \in {Absent, "PENDING", "SUBMITTING"}
                             THEN {j} ELSE {}
          IN /\ Happen({})
             /\ bastion' = IF left # {}
                             THEN [bastion EXCEPT !.todo = left, !.pending = pending]
                           ELSE IF pending = {} THEN AtLabel("update")
                           ELSE [AtLabel("submitting") EXCEPT !.pending = pending]
     \/ bastion' = AtLabel("update") /\ Happen({"call"})
  /\ UNCHANGED <<status_params, cancel_param, cloudVars>>
  /\ BastionUnchanged

\* The loop of main() over the pending jobs.
NextPending == IF bastion.pending = {} THEN AtLabel("update")
               ELSE [AtLabel("submitting") EXCEPT !.pending = bastion.pending]

MarkSubmitting ==
  /\ bastion.pc = "submitting"
  /\ \E j \in bastion.pending :
       /\ PutStatus(j, PlainDocument("SUBMITTING", NoInstance), {})
       /\ bastion' = [AtLabel("launch") EXCEPT !.pending = bastion.pending \ {j}, !.job = j]
  /\ UNCHANGED <<cancel_param, cloudVars>>
  /\ BastionUnchanged

\* The handler of launch_instance() and launch_spot_fleet().
LaunchFails(others) ==
  /\ PutStatus(bastion.job, PlainDocument("FAILED", NoInstance), others)
  /\ bastion' = NextPending

\* The instance identities EC2 picks are interchangeable.
NewInstances(n) == CHOOSE S \in SUBSET Unused : Cardinality(S) = n

\* run_instances(); EC2 refuses when it has no capacity left.
LaunchInstance ==
  /\ bastion.pc = "launch" /\ ~use_spot_fleet
  /\ \/ /\ Unused # {}
        /\ LET new == NewInstances(1) IN
           /\ Launch(bastion.job, new)
           /\ bastion' = [bastion EXCEPT !.pc = "record", !.new = new]
        /\ Happen({}) /\ UNCHANGED status_params
     \/ /\ LaunchFails(IfSo(Unused # {}, "call"))
        /\ UNCHANGED <<ec2, owner>>
  /\ UNCHANGED <<cancel_param, finished, fleet, template>>
  /\ BastionUnchanged

\* create_launch_template(), named after the first eight characters of the job
\* id.  A job id begins with the provider's id, so the name is the same for all
\* jobs; a template that exists already makes the call raise, and then the
\* handler deletes none.
CreateTemplate ==
  /\ bastion.pc = "launch" /\ use_spot_fleet
  /\ \/ /\ ~template
        /\ template' = TRUE
        /\ bastion' = [bastion EXCEPT !.pc = "create_fleet"]
        /\ Happen({}) /\ UNCHANGED status_params
     \/ /\ LaunchFails(IfSo(~template, "call"))
        /\ UNCHANGED template
  /\ UNCHANGED <<cancel_param, ec2, owner, finished, fleet>>
  /\ BastionUnchanged

\* create_fleet() with the job's client token: EC2 refuses to create another
\* fleet with it.  A fleet fills partly or not at all; in the latter case, and
\* when the call raises, the job has FAILED and the template is deleted.
CreateFleet ==
  /\ bastion.pc = "create_fleet"
  /\ LET j == bastion.job IN
     \/ /\ fleet[j] = "none"
        /\ \E n \in 1 .. NodesPerBlock :
             /\ n <= Cardinality(Unused)
             /\ LET new == NewInstances(n) IN
                /\ Launch(j, new)
                /\ bastion' = [bastion EXCEPT !.pc = "record", !.new = new]
        /\ fleet' = [fleet EXCEPT ![j] = "active"]
        /\ Happen({}) /\ UNCHANGED <<status_params, template>>
     \/ /\ fleet[j] = "none"
        /\ PutStatus(j, FleetDocument("FAILED", NoInstance, {}), {})
        /\ bastion' = NextPending
        /\ fleet' = [fleet EXCEPT ![j] = "failed"]
        /\ template' = FALSE
        /\ UNCHANGED <<ec2, owner>>
     \/ /\ LaunchFails(IfSo(fleet[j] = "none", "call"))
        /\ template' = FALSE
        /\ UNCHANGED <<ec2, owner, fleet>>
  /\ UNCHANGED <<cancel_param, finished>>
  /\ BastionUnchanged

RecordLaunch_Unwritten ==
  /\ bastion.pc = "record"
  /\ bastion' = NextPending
  /\ Happen({})
  /\ UNCHANGED <<status_params, cancel_param, cloudVars>>
  /\ BastionUnchanged

RecordLaunch_PrimaryOnly ==
  /\ bastion.pc = "record"
  /\ LET primary == CHOOSE i \in bastion.new : TRUE IN
     PutStatus(bastion.job, IF use_spot_fleet THEN FleetDocument("RUNNING", primary, {})
                                              ELSE PlainDocument("RUNNING", primary), {})
  /\ bastion' = NextPending
  /\ UNCHANGED <<cancel_param, cloudVars>>
  /\ BastionUnchanged

\* The job is RUNNING, on its (first) instance.
RecordLaunch ==
  /\ bastion.pc = "record"
  /\ LET primary == CHOOSE i \in bastion.new : TRUE IN
     PutStatus(bastion.job, IF use_spot_fleet THEN FleetDocument("RUNNING", primary, bastion.new)
                                              ELSE PlainDocument("RUNNING", primary), {})
  /\ bastion' = NextPending
  /\ UNCHANGED <<cancel_param, cloudVars>>
  /\ BastionUnchanged

BastionStep ==
  \/ UpdateRead \/ DescribeInstances \/ DescribeFleets \/ PutChanged
  \/ CancelRead \/ CollectJob \/ DeleteFleets \/ TerminateInstances \/ DeleteCancel
  \/ ListJobs \/ CheckJob \/ MarkSubmitting
  \/ LaunchInstance \/ CreateTemplate \/ CreateFleet \/ RecordLaunch

\* The service dies and systemd starts it again (Restart=always).
Crash ==
  /\ bastion.pc # "off"
  /\ Happen({"crash"})
  /\ bastion' = AtLabel("update")
  /\ UNCHANGED <<use_spot_fleet, paramVars, clientVars, cloudVars, forsaken>>

\* The idle timer halts the bastion when its activity file, which only a launch
\* touches, is older than idle_timeout; it looks for `parsl-worker' processes on
\* the bastion, where none runs.
IdleShutdown ==
  /\ bastion.pc # "off"
  /\ Happen({"idle"})
  /\ bastion' = AtLabel("off")
  /\ UNCHANGED <<use_spot_fleet, paramVars, clientVars, cloudVars, forsaken>>

-----------------------------------------------------------------------------
Next ==
  \/ \E j \in Jobs : SubmitJob(j) \/ GetJobStatus(j) \/ CleanupResources(j)
  \/ \E S \in SUBSET Jobs : CancelJobs(S)
  \/ ClientContinues
  \/ BastionStep \/ Crash \/ IdleShutdown
  \/ \E i \in Instances : Boot(i) \/ Finish(i) \/ Stop(i) \/ Reclaim(i) \/ Forget(i)

Spec == Init /\ [][Next]_vars

\* The service runs, EC2 boots and stops instances, commands end, a client call
\* that has started ends, and Parsl keeps polling the jobs it waits for.
FairSpec ==
  /\ Spec
  /\ WF_vars(BastionStep)
  /\ WF_vars(ClientContinues)
  /\ \A i \in Instances : WF_vars(Boot(i)) /\ WF_vars(Finish(i)) /\ WF_vars(Stop(i))
  /\ \A j \in Jobs : WF_vars(GetJobStatus(j))

-----------------------------------------------------------------------------
(* Properties.                                                             *)

\* The events after which a job may be launched again although a worker of it
\* runs: the documents do not say so (any more).
RelaunchEvents == {"crash", "put", "slow_boot", "slow_submit", "stale_list"}

\* A job is launched once: it has one instance, or the instances of one fleet
\* (get_pending_jobs(), launch_instance(), launch_spot_fleet()).  The client
\* token makes that true of a fleet whatever happens; a plain job owes it to the
\* documents alone.
LaunchedOnce ==
  \A j \in Jobs :
    Cardinality(Workers(j)) <=
      IF use_spot_fleet THEN NodesPerBlock
      ELSE IF happened \cap RelaunchEvents = {} THEN 1 ELSE 1 + events

\* With these, a document that does not name the worker, or that says the job
\* ended, is there although the worker runs.
OrphanEvents == {"crash", "put", "slow_boot", "slow_submit", "list", "call", "forget", "idle"}

\* The bastion never loses sight of a worker it launched: while the worker may
\* still run its command, the job's document names it, so that
\* update_running_job_status() and handle_cancel_requests() will find it, or the
\* bastion is about to write it down or to terminate it.  Only the client can
\* break that: by deleting, in cleanup_resources(), the document that names the
\* worker.
NoOrphan ==
  happened \cap OrphanEvents = {} =>
    \A i \in Instances \ forsaken : ec2[i] \in Live =>
      \/ i \in Named(status_params[owner[i]])
      \/ bastion.pc = "record" /\ i \in bastion.new
      \/ i \in bastion.kill
      \/ owner[i] \in bastion.fleets

\* A job the client reports COMPLETED has a worker that ran the command to its
\* end; in a fleet, every worker did.
NoFalseCompletion ==
  happened \cap {"reclaim", "forget", "list"} = {} =>
    \A j \in Jobs : resources[j].status = "COMPLETED" =>
      /\ Workers(j) \cap finished # {}
      /\ use_spot_fleet => Workers(j) \subseteq finished

\* A job nobody canceled is reported CANCELED only if EC2 took its worker or the
\* bastion saw it between the end of its command and `terminated'.
NoFalseCancellation ==
  happened \cap {"reclaim", "slow_stop"} = {} =>
    \A j \in Jobs \ canceled : resources[j].status # "CANCELED"

\* The end of a job is final: once its document says so, no later read, launch
\* or put of the bastion brings the job back to life.
FinalStays ==
  [][\A j \in Jobs :
       /\ status_params[j].status \in Terminal
       /\ status_params'[j].status \notin Terminal \cup {Absent}
       => happened' \cap {"slow_submit", "slow_boot"} # {}]_vars

\* When the bastion is done with a cancel request, no worker of a canceled job
\* that had been launched by then is left running, however the request lay
\* between launches, polls and the clean-up EphemeralProvider.cancel() goes on to
\* (handle_cancel_requests()): except one whose document that clean-up had
\* deleted before the job had ended.
CancelStopsWorkers ==
  bastion.pc = "delete_cancel" /\ happened \cap OrphanEvents = {} =>
    \A i \in Instances \ forsaken : owner[i] \in bastion.request => ec2[i] \notin Live

\* src/docs/architecture.md:82: the bastion "handles cancellations": what
\* CancelStopsWorkers says without its exception, which is not so, because
\* cancel() deletes the document before the bastion reads the request.
CancelStopsEveryWorker ==
  bastion.pc = "delete_cancel" /\ happened = {} =>
    \A i \in Instances : owner[i] \in bastion.request => ec2[i] \notin Live

\* Every job that submit_job() accepted reaches its end at the client.
EveryJobSettles ==
  \A j \in Jobs :
    resources[j].status \in {"PENDING", "SUBMITTING", "RUNNING"}
      ~> (resources[j].status \notin {"PENDING", "SUBMITTING", "RUNNING"} \/ "idle" \in happened)

\* src/docs/architecture.md:84: "The bastion shuts down after `idle_timeout` minutes
\* with no work": it is not halted while a job waits or a worker runs.
BastionOutlivesWork ==
  [][bastion.pc # "off" /\ bastion'.pc = "off"
       => \A i \in Instances : ec2[i] \notin Live]_vars
=============================================================================
