---------------------------- MODULE StandardMode ----------------------------
(***************************************************************************)
(* The EC2 side of StandardMode (modes/standard.py): the resource records  *)
(* the mode keeps, the list of warm instances it may reuse, the document   *)
(* it persists, and what each of its methods does to them and to AWS.      *)
(*                                                                         *)
(* The module has no next-state relation of its own: the mode runs on its  *)
(* caller's thread.  Each operator below is one uninterrupted stretch of a *)
(* mode method, from the effect of an AWS call up to the next AWS call or  *)
(* return; module Provider sequences them.                                 *)
(*                                                                         *)
(* EC2 and SSM are modelled by what the mode observes of them.  An         *)
(* instance runs at most the commands sent to it; `command[j]' is what SSM *)
(* (or, with the command in UserData, the instance) knows of job j.        *)
(***************************************************************************)
EXTENDS Naturals, Sequences, FiniteSets, SequencesExt

CONSTANTS
  Jobs,          \* job identifiers Parsl may obtain (each a fresh UUID)
  Instances,     \* EC2 instance identifiers; bounds the launches
  NoJob,         \* "no job" / "no command identifier"
  NoInstance,    \* "no instance"
  WarmPoolSize,  \* warm_pool_size
  OneShot,       \* one_shot
  Faults,        \* the kinds of fault the environment may inject
  MaxFaults      \* how many faults one behaviour contains

FaultKinds == {"launch", "wait", "dispatch", "poll", "terminate",
               "forget", "interrupt", "crash"}

ASSUME ModeAssumption ==
  /\ NoJob \notin Jobs /\ NoInstance \notin Instances
  /\ WarmPoolSize \in Nat /\ OneShot \in BOOLEAN /\ (OneShot => WarmPoolSize = 0)
  /\ Faults \subseteq FaultKinds /\ MaxFaults \in Nat

VARIABLES
  mode_resources,  \* StandardMode.resources: status and ssm_command_id
  warm_instances,  \* StandardMode._warm_instances, oldest first
  initialized,     \* StandardMode.initialized
  mode_store,      \* the document under STATE_KEY_MODE
  ec2,             \* state of each instance at EC2
  command,         \* state of each job's shell command
  host,            \* the instance the command was sent to
  warned,          \* instances that received the spot reclaim warning
  faults           \* faults injected so far

modeVars == <<mode_resources, warm_instances, initialized, mode_store>>
awsVars  == <<ec2, command, host, warned, faults>>

-----------------------------------------------------------------------------
(* Statuses, and the records the mode keeps.                               *)

Absent == "ABSENT"   \* no record under this key

Status == {"PENDING", "RUNNING", "COMPLETED", "FAILED", "CANCELED",
           "UNKNOWN", "WARM", "INTERRUPTED"}

ModeRecord == [status : Status \cup {Absent}, cmd : Jobs \cup {NoJob}]
NoModeRecord == [status |-> Absent, cmd |-> NoJob]

NoStatuses == [i \in Instances |-> Absent]

ModeDocument == [present : BOOLEAN, resources : [Instances -> ModeRecord],
                 warm : Seq(Instances)]

Tracked(i) == mode_resources[i].status # Absent

\* Whether the command travels over SSM rather than in the UserData.
UsesSsmDispatch == WarmPoolSize > 0 \/ OneShot

AwsTypeOK ==
  /\ ec2 \in [Instances -> {"unused", "running", "terminated", "gone"}]
  /\ command \in [Jobs -> {"none", "inprogress", "success", "failed", "killed"}]
  /\ host \in [Jobs -> Instances \cup {NoInstance}]
  /\ warned \in SUBSET Instances
  /\ faults \in Nat

ModeTypeOK ==
  /\ mode_resources \in [Instances -> ModeRecord]
  /\ warm_instances \in Seq(Instances)
  /\ initialized \in BOOLEAN
  /\ mode_store \in ModeDocument
  /\ AwsTypeOK

\* initialize() has run on an empty state location and saved the document.
ModeInit ==
  /\ mode_resources = [i \in Instances |-> NoModeRecord]
  /\ warm_instances = << >>
  /\ initialized = TRUE
  /\ mode_store = [present |-> TRUE, resources |-> mode_resources,
                   warm |-> warm_instances]
  /\ ec2 = [i \in Instances |-> "unused"]
  /\ command = [j \in Jobs |-> "none"]
  /\ host = [j \in Jobs |-> NoInstance]
  /\ warned = {}
  /\ faults = 0

-----------------------------------------------------------------------------
(* AWS.  A terminated instance stays visible for about an hour and is then *)
(* "gone": a call naming it fails as a whole with InvalidInstanceID.       *)

Fault(kind) == kind \in Faults /\ faults < MaxFaults /\ faults' = faults + 1
NoFault == faults' = faults

Known(S) == \A i \in S : ec2[i] # "gone"

\* terminate_instances(S) succeeds: the commands running there die with it.
Terminate(S) ==
  /\ Known(S)
  /\ ec2' = [i \in Instances |-> IF i \in S /\ ec2[i] = "running"
                                   THEN "terminated" ELSE ec2[i]]
  /\ command' = [j \in Jobs |-> IF command[j] = "inprogress" /\ host[j] \in S
                                  THEN "killed" ELSE command[j]]
  /\ UNCHANGED <<host, warned>>

\* send_command(i) for job j, or the instance booting with it in its UserData.
StartCommand(i, j) ==
  /\ command' = [command EXCEPT ![j] = "inprogress"]
  /\ host' = [host EXCEPT ![j] = i]

\* A command ends on its own.  In UserData it is followed by `shutdown -h
\* now' (auto_shutdown), which terminates the instance.
FinishCommand(j) ==
  /\ command[j] = "inprogress"
  /\ \E outcome \in {"success", "failed"} :
        command' = [command EXCEPT ![j] = outcome]
  /\ ec2' = IF UsesSsmDispatch THEN ec2
                               ELSE [ec2 EXCEPT ![host[j]] = "terminated"]
  /\ UNCHANGED <<host, warned, faults>> /\ UNCHANGED modeVars

\* The backstop a one-shot command ends with: `sleep 30; shutdown -h now',
\* detached, after the exit code has been captured.
ShutDownAfter(j) ==
  /\ OneShot /\ command[j] \in {"success", "failed"} /\ ec2[host[j]] = "running"
  /\ ec2' = [ec2 EXCEPT ![host[j]] = "terminated"]
  /\ UNCHANGED <<command, host, warned, faults>> /\ UNCHANGED modeVars

\* AWS takes a warned spot instance away.
Reclaim(i) ==
  /\ i \in warned /\ ec2[i] = "running"
  /\ Terminate({i}) /\ NoFault
  /\ UNCHANGED modeVars

\* EC2 drops a terminated instance from its records.
ForgetInstance(i) ==
  /\ ec2[i] = "terminated" /\ Fault("forget")
  /\ ec2' = [ec2 EXCEPT ![i] = "gone"]
  /\ UNCHANGED <<command, host, warned>> /\ UNCHANGED modeVars

-----------------------------------------------------------------------------
(* Persistence.                                                            *)

\* Mutant: the document lags one step behind.
SaveMode_Stale == mode_store' = [present |-> TRUE, resources |-> mode_resources,
                                 warm |-> warm_instances]

\* save_state(): every method that ends in it saves what it has just written.
SaveMode == mode_store' = [present |-> TRUE, resources |-> mode_resources',
                           warm |-> warm_instances']

\* load_state() in a successor process, which initialize() turns ready.
LoadMode ==
  /\ mode_resources' = mode_store.resources
  /\ warm_instances' = mode_store.warm
  /\ initialized' = TRUE
  /\ UNCHANGED mode_store

-----------------------------------------------------------------------------
(* submit_job()                                                            *)

\* Mutant: the head is read and not popped.
GetWarmInstance_Peek ==
  /\ warm_instances # << >>
  /\ mode_resources' = [mode_resources EXCEPT ![Head(warm_instances)].status = "RUNNING"]
  /\ UNCHANGED <<warm_instances, initialized, mode_store>>

\* _get_warm_instance(): pop the head; the record, if any, reads RUNNING.
GetWarmInstance ==
  LET i == Head(warm_instances) IN
  /\ warm_instances # << >>
  /\ warm_instances' = Tail(warm_instances)
  /\ mode_resources' = IF Tracked(i)
                         THEN [mode_resources EXCEPT ![i].status = "RUNNING"]
                         ELSE mode_resources
  /\ UNCHANGED <<initialized, mode_store>>

\* _dispatch_ssm_command(): SSM takes the command, or the call raises.
SendCommand(i, j) ==
  /\ ec2[i] = "running" /\ NoFault
  /\ StartCommand(i, j) /\ UNCHANGED <<ec2, warned>>

SendCommandFails(i) == (ec2[i] # "running" /\ NoFault) \/ Fault("dispatch")

\* The record takes up the command that was sent; without a record this is a
\* KeyError.
TrackCommand(i, j) ==
  /\ Tracked(i)
  /\ mode_resources' = [mode_resources EXCEPT ![i] = [status |-> "RUNNING", cmd |-> j]]
  /\ UNCHANGED <<warm_instances, initialized>> /\ UNCHANGED awsVars /\ SaveMode

\* _create_instance(): run_instances() answers with i.  Without SSM the command
\* is already in it.
RunInstance(i, j) ==
  /\ ec2[i] = "unused" /\ NoFault
  /\ ec2' = [ec2 EXCEPT ![i] = "running"]
  /\ IF UsesSsmDispatch THEN UNCHANGED <<command, host>> ELSE StartCommand(i, j)
  /\ UNCHANGED warned /\ UNCHANGED modeVars

\* ... or EC2 refuses, as it does once every member of Instances is used.
RunInstanceFails ==
  /\ \/ Fault("launch")
     \/ (\A i \in Instances : ec2[i] # "unused") /\ NoFault
  /\ UNCHANGED <<ec2, command, host, warned>> /\ UNCHANGED modeVars

\* wait_for_resource() saw it running: submit_job() tracks it, and saves unless
\* the command is yet to be delivered.
TrackInstance(i) ==
  /\ ec2[i] = "running"
  /\ mode_resources' = [mode_resources EXCEPT ![i] = [status |-> "PENDING", cmd |-> NoJob]]
  /\ UNCHANGED <<warm_instances, initialized>> /\ UNCHANGED awsVars
  /\ IF UsesSsmDispatch THEN UNCHANGED mode_store ELSE SaveMode

\* ... or the wait raised, and the instance is nobody's.
WaitFails(i) ==
  /\ \/ ec2[i] # "running" /\ NoFault
     \/ Fault("wait")
  /\ UNCHANGED <<ec2, command, host, warned>> /\ UNCHANGED modeVars

\* Mutant: the instance that never took its command is left running.
Abandon_Leaves(i) ==
  /\ UNCHANGED <<ec2, command, host, warned>>
  /\ mode_resources' = [mode_resources EXCEPT ![i] = NoModeRecord]
  /\ UNCHANGED <<warm_instances, initialized>> /\ SaveMode

\* A new instance that did not get its command: _force_terminate(), best effort
\* (its own failure is swallowed), drop the record, save, raise.
Abandon(i) ==
  /\ \/ Terminate({i})
     \/ /\ ~Known({i}) \/ (faults' > faults /\ "terminate" \in Faults)
        /\ UNCHANGED <<ec2, command, host, warned>>
  /\ mode_resources' = [mode_resources EXCEPT ![i] = NoModeRecord]
  /\ UNCHANGED <<warm_instances, initialized>> /\ SaveMode

-----------------------------------------------------------------------------
(* get_job_status(), split at its AWS calls.                               *)

\* The grouping loop: what is answered without asking AWS.
LocalStatuses(S) ==
  [i \in Instances |-> IF i \in S /\ ~Tracked(i) THEN "UNKNOWN"
                       ELSE IF i \in S /\ mode_resources[i].status = "INTERRUPTED"
                       THEN "INTERRUPTED" ELSE Absent]

MustAskAws(S) == {i \in S : LocalStatuses(S)[i] = Absent}

\* Mutants: the exit code is ignored; the answer is never final.
CommandStatus_NoExitCode(i) ==
  IF command[mode_resources[i].cmd] = "inprogress" THEN {"RUNNING"} ELSE {"COMPLETED"}
CommandStatus_Running(i) ==
  IF command[mode_resources[i].cmd] = "failed" THEN {"FAILED"} ELSE {"RUNNING"}

\* What get_command_invocation() may answer for the command recorded on i.
CommandStatus(i) ==
  CASE command[mode_resources[i].cmd] = "success" -> {"COMPLETED"}
    [] command[mode_resources[i].cmd] = "failed"  -> {"FAILED"}
    [] command[mode_resources[i].cmd] = "killed"  -> {"RUNNING", "FAILED"}
    [] OTHER -> {"RUNNING"}

\* EC2_STATUS_MAPPING over the states an instance can be described in.
InstanceStatus(i) == IF ec2[i] = "running" THEN "RUNNING" ELSE "COMPLETED"

\* SSM path: one answer per instance, "UNKNOWN" where the call failed.
Answers == {"COMPLETED", "FAILED", "RUNNING", "UNKNOWN"}

WithAnswers(S, answer) ==
  [i \in Instances |-> IF i \in S /\ answer[i] # "UNKNOWN"
                         THEN [mode_resources[i] EXCEPT !.status = answer[i]]
                         ELSE mode_resources[i]]

PollCommands(S, answer) ==
  /\ \A i \in S : Tracked(i) /\ answer[i] \in CommandStatus(i) \cup {"UNKNOWN"}
  /\ IF \E i \in S : answer[i] = "UNKNOWN" THEN Fault("poll") ELSE NoFault
  /\ mode_resources' = WithAnswers(S, answer)
  /\ UNCHANGED <<warm_instances, initialized, ec2, command, host, warned>>
  /\ SaveMode

\* ... an exception leaves the method, after the instances in `done' were
\* handled and before anything is saved: KeyError where a record vanished since
\* the grouping loop, or any error of the call that is not a ClientError.
PollCommandsRaises(S, done, answer) ==
  /\ \/ (\E i \in S : ~Tracked(i)) /\ NoFault
     \/ done # S /\ Fault("poll")
  /\ \A i \in done : Tracked(i) /\ answer[i] \in CommandStatus(i)
  /\ mode_resources' = WithAnswers(done, answer)
  /\ UNCHANGED <<warm_instances, initialized, mode_store, ec2, command, host, warned>>

\* UserData path: one describe_instances() for all of S.  An unknown ID makes
\* every one of them COMPLETED; after any other ClientError none has a status,
\* after any other exception all are UNKNOWN.
PollOutcomes == {"described", "unknown_id", "client_error", "exception"}

InstanceStatuses(S, outcome) ==
  [i \in Instances |-> IF i \notin S \/ outcome = "client_error" THEN Absent
                       ELSE IF outcome = "exception" THEN "UNKNOWN"
                       ELSE IF outcome = "unknown_id" THEN "COMPLETED"
                       ELSE InstanceStatus(i)]

PollInstances(S, outcome) ==
  LET m == InstanceStatuses(S, outcome) IN
  /\ \/ outcome = "described" /\ Known(S) /\ NoFault
     \/ outcome = "unknown_id" /\ ~Known(S) /\ NoFault
     \/ outcome \in {"client_error", "exception"} /\ S # {} /\ Fault("poll")
  /\ mode_resources' = [i \in Instances |->
                          IF Tracked(i) /\ m[i] \notin {Absent, "UNKNOWN"}
                            THEN [mode_resources[i] EXCEPT !.status = m[i]]
                            ELSE mode_resources[i]]
  /\ UNCHANGED <<warm_instances, initialized, ec2, command, host, warned>>
  /\ SaveMode

-----------------------------------------------------------------------------
(* cancel_jobs() and cleanup_resources(): one terminate_instances() for    *)
(* all the records found.                                                  *)

CancelOutcomes == {"CANCELED", "COMPLETED", "FAILED"}

\* The map cancel_jobs(S) returns when the call had this outcome.
CancelStatuses(S, outcome) ==
  [i \in Instances |-> IF i \notin S THEN Absent
                       ELSE IF Tracked(i) THEN outcome ELSE "UNKNOWN"]

CancelJobs(S, outcome) ==
  LET T == {i \in S : Tracked(i)} IN
  /\ \/ outcome = "CANCELED" /\ Terminate(T) /\ NoFault
     \/ /\ outcome = "COMPLETED" /\ ~Known(T) /\ NoFault
        /\ UNCHANGED <<ec2, command, host, warned>>
     \/ /\ outcome = "FAILED" /\ T # {} /\ Fault("terminate")
        /\ UNCHANGED <<ec2, command, host, warned>>
  /\ mode_resources' = [i \in Instances |->
                          IF i \in T /\ outcome # "FAILED"
                            THEN [mode_resources[i] EXCEPT !.status = outcome]
                            ELSE mode_resources[i]]
  /\ UNCHANGED <<warm_instances, initialized>>
  /\ IF S = {} THEN UNCHANGED mode_store ELSE SaveMode

\* A record is dropped when its instance was terminated or when the call named
\* an unknown instance, and kept after any other error.
CleanupResources(S) ==
  LET T == {i \in S : Tracked(i)} IN
  /\ \/ /\ \/ Terminate(T) /\ NoFault
           \/ ~Known(T) /\ NoFault /\ UNCHANGED <<ec2, command, host, warned>>
        /\ mode_resources' = [i \in Instances |->
                                IF i \in T THEN NoModeRecord ELSE mode_resources[i]]
     \/ /\ T # {} /\ Fault("terminate")
        /\ UNCHANGED <<ec2, command, host, warned, mode_resources>>
  /\ UNCHANGED <<warm_instances, initialized>>
  /\ IF S = {} THEN UNCHANGED mode_store ELSE SaveMode

\* Mutant: instances still at work are passed over.
CleanupAll_NotRunning ==
  CleanupResources({i \in Instances : Tracked(i) /\ mode_resources[i].status # "RUNNING"})

\* cleanup_infrastructure(): everything tracked is cleaned up, and later the
\* mode stops accepting jobs.
CleanupAll == CleanupResources({i \in Instances : Tracked(i)})

FinishInfrastructure ==
  /\ initialized' = FALSE
  /\ UNCHANGED <<mode_resources, warm_instances>> /\ UNCHANGED awsVars
  /\ SaveMode

-----------------------------------------------------------------------------
\* handle_instance_interruption(), on the monitor's thread: the record, if
\* there is one, is marked.  Nothing is saved.
HandleInstanceInterruption(i) ==
  /\ ec2[i] = "running" /\ i \notin warned /\ Fault("interrupt")
  /\ warned' = warned \cup {i}
  /\ mode_resources' = IF Tracked(i)
                         THEN [mode_resources EXCEPT ![i].status = "INTERRUPTED"]
                         ELSE mode_resources
  /\ UNCHANGED <<warm_instances, initialized, mode_store, ec2, command, host>>
=============================================================================
