--------------------------- MODULE ProviderProofs ---------------------------
(***************************************************************************)
(* Provider is type-correct whatever its constants: any number of threads, *)
(* jobs and instances, any pool size, any faults.                          *)
(*                                                                         *)
(* TypeOK is inductive as it stands.  Besides types it holds SubmitOK: a   *)
(* submit() in progress has its job and, once the mode has answered, its   *)
(* instance; without it the assignments of RecordJob would not be records. *)
(* There is one lemma per action, and under it one step per group of       *)
(* variables; most of them go through CallStep, which says once what a     *)
(* call's next step needs.                                                 *)
(*                                                                         *)
(* First come the lemmas about the mode: what each stretch of a            *)
(* StandardMode method leaves well-typed (ModeTypeOK).                     *)
(***************************************************************************)
EXTENDS Provider, TLAPS

-----------------------------------------------------------------------------
(* The mode: records, reuse list, stored document.                         *)

\* The values that stand for `no record' are records, and `no record' is
\* not a status.
LEMMA ModeConstants ==
  /\ Absent \notin Status
  /\ NoModeRecord \in ModeRecord
  /\ NoStatuses \in [Instances -> Status \cup {Absent}]
  /\ Answers \subseteq Status
BY DEF Absent, Status, NoModeRecord, ModeRecord, NoStatuses, Answers

\* Records the mode writes: an old one with a new status, or a new one.
LEMMA ModeRecordsWith ==
  ASSUME NEW s \in Status
  PROVE  /\ \A r \in ModeRecord : [r EXCEPT !.status = s] \in ModeRecord
         /\ \A j \in Jobs : [status |-> s, cmd |-> j] \in ModeRecord
         /\ [status |-> s, cmd |-> NoJob] \in ModeRecord
BY DEF ModeRecord

\* The fault counter stays a number, fault or not.
LEMMA FaultType ==
  ASSUME AwsTypeOK, NEW kind, Fault(kind) \/ NoFault
  PROVE  faults' \in Nat
BY DEF AwsTypeOK, Fault, NoFault

\* A step that only counts a fault leaves AWS well-typed.
LEMMA QuietAws ==
  ASSUME AwsTypeOK, UNCHANGED <<ec2, command, host, warned>>, faults' \in Nat
  PROVE  AwsTypeOK'
BY DEF AwsTypeOK

\* terminate_instances() changes instance and command states only.
LEMMA TerminateType ==
  ASSUME AwsTypeOK, NEW S, Terminate(S), faults' \in Nat
  PROVE  AwsTypeOK'
BY DEF AwsTypeOK, Terminate

\* send_command() puts a command on an instance.
LEMMA StartCommandType ==
  ASSUME AwsTypeOK, NEW i \in Instances, NEW j \in Jobs, StartCommand(i, j),
         ec2' \in [Instances -> {"unused", "running", "terminated", "gone"}],
         UNCHANGED warned, faults' \in Nat
  PROVE  AwsTypeOK'
BY DEF AwsTypeOK, StartCommand

\* save_state() writes a well-typed document from well-typed state.
LEMMA SavedType ==
  ASSUME mode_resources' \in [Instances -> ModeRecord],
         warm_instances' \in Seq(Instances), SaveMode
  PROVE  mode_store' \in ModeDocument
BY DEF SaveMode, ModeDocument

\* run_instances() brings one instance up, with or without a command.
LEMMA RunInstanceType ==
  ASSUME ModeTypeOK, NEW i \in Instances, NEW j \in Jobs, RunInstance(i, j)
  PROVE  ModeTypeOK'
<1>1. AwsTypeOK'
  <2>1. ec2' \in [Instances -> {"unused", "running", "terminated", "gone"}]
        /\ faults' \in Nat
    BY FaultType DEF ModeTypeOK, AwsTypeOK, RunInstance
  <2> QED
    BY <2>1, StartCommandType DEF ModeTypeOK, AwsTypeOK, RunInstance
<1> QED
  BY <1>1 DEF ModeTypeOK, RunInstance, modeVars

\* send_command() touches SSM only.
LEMMA SendCommandType ==
  ASSUME AwsTypeOK, NEW i \in Instances, NEW j \in Jobs, SendCommand(i, j)
  PROVE  AwsTypeOK'
BY StartCommandType, FaultType DEF AwsTypeOK, SendCommand

\* A command that did not go out changes nothing but the fault count.
LEMMA SendCommandFailsType ==
  ASSUME AwsTypeOK, NEW i, SendCommandFails(i)
  PROVE  faults' \in Nat
BY FaultType DEF SendCommandFails

\* submit_job(): the record takes the command that was sent.
LEMMA TrackCommandType ==
  ASSUME ModeTypeOK, NEW i \in Instances, NEW j \in Jobs, TrackCommand(i, j)
  PROVE  ModeTypeOK'
<1> USE DEF ModeTypeOK
<1>1. AwsTypeOK'
  BY DEF AwsTypeOK, TrackCommand, awsVars
<1>2. mode_resources' \in [Instances -> ModeRecord]
  BY ModeRecordsWith DEF TrackCommand, Status
<1>3. warm_instances' \in Seq(Instances) /\ initialized' \in BOOLEAN
  BY DEF TrackCommand
<1>4. mode_store' \in ModeDocument
  BY <1>2, <1>3, SavedType DEF TrackCommand
<1> QED
  BY <1>1, <1>2, <1>3, <1>4

\* submit_job(): a PENDING record for an instance that came up.
LEMMA TrackInstanceType ==
  ASSUME ModeTypeOK, NEW i \in Instances, TrackInstance(i)
  PROVE  ModeTypeOK'
<1> USE DEF ModeTypeOK
<1>1. AwsTypeOK'
  BY DEF AwsTypeOK, TrackInstance, awsVars
<1>2. mode_resources' \in [Instances -> ModeRecord]
  BY ModeRecordsWith DEF TrackInstance, Status
<1>3. warm_instances' \in Seq(Instances) /\ initialized' \in BOOLEAN
  BY DEF TrackInstance
<1>4. mode_store' \in ModeDocument
  BY <1>2, <1>3, SavedType DEF TrackInstance
<1> QED
  BY <1>1, <1>2, <1>3, <1>4

\* A launch or a wait that fails changes nothing but the fault count.
LEMMA LaunchFailsType ==
  ASSUME ModeTypeOK, NEW i, RunInstanceFails \/ WaitFails(i)
  PROVE  ModeTypeOK'
<1>1. AwsTypeOK'
  BY QuietAws, FaultType DEF ModeTypeOK, RunInstanceFails, WaitFails
<1> QED
  BY <1>1 DEF ModeTypeOK, RunInstanceFails, WaitFails, modeVars

\* submit_job(), giving up on a new instance: the record is dropped.
LEMMA AbandonType ==
  ASSUME ModeTypeOK, NEW i \in Instances, Abandon(i), faults' \in Nat
  PROVE  ModeTypeOK'
<1> USE DEF ModeTypeOK
<1>1. AwsTypeOK'
  BY TerminateType, QuietAws DEF Abandon
<1>2. mode_resources' \in [Instances -> ModeRecord]
  BY ModeConstants DEF Abandon
<1>3. warm_instances' \in Seq(Instances) /\ initialized' \in BOOLEAN
  BY DEF Abandon
<1>4. mode_store' \in ModeDocument
  BY <1>2, <1>3, SavedType DEF Abandon
<1> QED
  BY <1>1, <1>2, <1>3, <1>4

\* get_job_status() over SSM: answers become statuses.
LEMMA PollCommandsType ==
  ASSUME ModeTypeOK, NEW S \in SUBSET Instances,
         NEW answer \in [S -> Answers], PollCommands(S, answer)
  PROVE  ModeTypeOK'
<1> USE DEF ModeTypeOK
<1>1. AwsTypeOK'
  BY QuietAws, FaultType DEF PollCommands
<1>2. mode_resources' \in [Instances -> ModeRecord]
  BY ModeConstants, ModeRecordsWith DEF PollCommands, WithAnswers
<1>3. warm_instances' \in Seq(Instances) /\ initialized' \in BOOLEAN
  BY DEF PollCommands, modeVars
<1>4. mode_store' \in ModeDocument
  BY <1>2, <1>3, SavedType DEF PollCommands, modeVars
<1> QED
  BY <1>1, <1>2, <1>3, <1>4

\* get_job_status() raising half way, nothing saved.
LEMMA PollCommandsRaisesType ==
  ASSUME ModeTypeOK, NEW S \in SUBSET Instances, NEW done \in SUBSET S,
         NEW answer \in [done -> Answers], PollCommandsRaises(S, done, answer)
  PROVE  ModeTypeOK'
<1> USE DEF ModeTypeOK
<1>1. AwsTypeOK'
  BY QuietAws, FaultType DEF PollCommandsRaises
<1>2. mode_resources' \in [Instances -> ModeRecord]
  BY ModeConstants, ModeRecordsWith DEF PollCommandsRaises, WithAnswers
<1>3. warm_instances' \in Seq(Instances) /\ initialized' \in BOOLEAN
  BY DEF PollCommandsRaises, modeVars
<1>4. mode_store' \in ModeDocument
  BY <1>2, <1>3, SavedType DEF PollCommandsRaises, modeVars
<1> QED
  BY <1>1, <1>2, <1>3, <1>4

\* get_job_status() through describe_instances().
LEMMA PollInstancesType ==
  ASSUME ModeTypeOK, NEW S \in SUBSET Instances, NEW outcome \in PollOutcomes,
         PollInstances(S, outcome)
  PROVE  ModeTypeOK'
<1> USE DEF ModeTypeOK
<1>1. AwsTypeOK'
  BY QuietAws, FaultType DEF PollInstances
<1>2. mode_resources' \in [Instances -> ModeRecord]
  BY ModeConstants, ModeRecordsWith DEF PollInstances, InstanceStatuses,
     InstanceStatus, Status, Absent
<1>3. warm_instances' \in Seq(Instances) /\ initialized' \in BOOLEAN
  BY DEF PollInstances, modeVars
<1>4. mode_store' \in ModeDocument
  BY <1>2, <1>3, SavedType DEF PollInstances, modeVars
<1> QED
  BY <1>1, <1>2, <1>3, <1>4

\* cancel_jobs(): the records take the outcome of the call.
LEMMA CancelJobsType ==
  ASSUME ModeTypeOK, NEW S \in SUBSET Instances,
         NEW outcome \in CancelOutcomes, CancelJobs(S, outcome)
  PROVE  ModeTypeOK'
<1> USE DEF ModeTypeOK
<1>1. AwsTypeOK'
  BY TerminateType, QuietAws, FaultType DEF CancelJobs
<1>2. mode_resources' \in [Instances -> ModeRecord]
  BY ModeRecordsWith DEF CancelJobs, CancelOutcomes, Status
<1>3. warm_instances' \in Seq(Instances) /\ initialized' \in BOOLEAN
  BY DEF CancelJobs, modeVars
<1>4. mode_store' \in ModeDocument
  BY <1>2, <1>3, SavedType DEF CancelJobs, modeVars
<1> QED
  BY <1>1, <1>2, <1>3, <1>4

\* cleanup_resources(): records are dropped or kept.
LEMMA CleanupResourcesType ==
  ASSUME ModeTypeOK, NEW S \in SUBSET Instances, CleanupResources(S)
  PROVE  ModeTypeOK'
<1> USE DEF ModeTypeOK
<1>1. AwsTypeOK'
  BY TerminateType, QuietAws, FaultType DEF CleanupResources
<1>2. mode_resources' \in [Instances -> ModeRecord]
  BY ModeConstants DEF CleanupResources
<1>3. warm_instances' \in Seq(Instances) /\ initialized' \in BOOLEAN
  BY DEF CleanupResources, modeVars
<1>4. mode_store' \in ModeDocument
  BY <1>2, <1>3, SavedType DEF CleanupResources, modeVars
<1> QED
  BY <1>1, <1>2, <1>3, <1>4

\* cleanup_infrastructure(), last part: the mode is no longer initialized.
LEMMA FinishInfrastructureType ==
  ASSUME ModeTypeOK, FinishInfrastructure
  PROVE  ModeTypeOK'
BY SavedType DEF ModeTypeOK, AwsTypeOK, FinishInfrastructure, awsVars

\* handle_instance_interruption(): a record is marked INTERRUPTED.
LEMMA HandleInstanceInterruptionType ==
  ASSUME ModeTypeOK, NEW i \in Instances, HandleInstanceInterruption(i)
  PROVE  ModeTypeOK'
<1> USE DEF ModeTypeOK
<1>1. AwsTypeOK'
  BY FaultType DEF HandleInstanceInterruption, AwsTypeOK
<1>2. mode_resources' \in [Instances -> ModeRecord]
  BY ModeRecordsWith DEF HandleInstanceInterruption, Status
<1>3. warm_instances' \in Seq(Instances) /\ initialized' \in BOOLEAN
  BY DEF HandleInstanceInterruption, modeVars
<1>4. mode_store' \in ModeDocument
  BY <1>2, <1>3, SavedType DEF HandleInstanceInterruption, modeVars
<1> QED
  BY <1>1, <1>2, <1>3, <1>4

\* load_state(): what comes out of the store is as well-typed as the store.
LEMMA LoadModeType ==
  ASSUME ModeTypeOK, LoadMode, UNCHANGED <<ec2, command, host, warned>>,
         faults' \in Nat
  PROVE  ModeTypeOK'
BY QuietAws DEF ModeTypeOK, LoadMode, ModeDocument

\* What happens to the mode and to AWS on no thread of the provider.
LEMMA EnvironmentModeType ==
  ASSUME ModeTypeOK,
         \/ \E j \in Jobs : FinishCommand(j) \/ ShutDownAfter(j)
         \/ \E i \in Instances : Reclaim(i) \/ ForgetInstance(i) \/ HandleInstanceInterruption(i)
  PROVE  ModeTypeOK'
<1>1. CASE \E j \in Jobs : FinishCommand(j) \/ ShutDownAfter(j)
  BY <1>1 DEF ModeTypeOK, AwsTypeOK, FinishCommand, ShutDownAfter, modeVars
<1>2. CASE \E i \in Instances : Reclaim(i)
  BY <1>2, TerminateType, FaultType DEF ModeTypeOK, Reclaim, modeVars
<1>3. CASE \E i \in Instances : ForgetInstance(i)
  BY <1>3, FaultType DEF ModeTypeOK, AwsTypeOK, ForgetInstance, modeVars
<1>4. CASE \E i \in Instances : HandleInstanceInterruption(i)
  BY <1>4, HandleInstanceInterruptionType
<1> QED
  BY <1>1, <1>2, <1>3, <1>4

-----------------------------------------------------------------------------
(* Values.                                                                 *)

\* The values that stand for `nothing recorded' are well-typed.
LEMMA Constants ==
  /\ NoRecord \in Record /\ NoEntry \in JobEntry
  /\ NoDocument \in ProviderDocument
BY DEF NoRecord, Record, NoEntry, JobEntry, NoDocument, ProviderDocument

\* Overwriting the status of a record that exists leaves a record.
LEMMA RecordsWith ==
  ASSUME NEW s \in Status
  PROVE  \A r \in Record : r.status # Absent => [r EXCEPT !.status = s] \in Record
BY DEF Record, NoRecord

\* list.remove() takes nothing but the element away.
LEMMA UnlistedType ==
  ASSUME NEW S, NEW s \in Seq(S), NEW e
  PROVE  Unlisted(s, e) \in Seq(S)
<1>1. CASE \E n \in 1 .. Len(s) : FirstAt(s, e, n)
  <2>1. PICK n \in 1 .. Len(s) : Unlisted(s, e) = RemoveAt(s, n)
    BY <1>1 DEF Unlisted
  <2>2. SubSeq(s, 1, n - 1) \in Seq(S) /\ SubSeq(s, n + 1, Len(s)) \in Seq(S)
    OBVIOUS
  <2> QED
    BY <2>1, <2>2 DEF RemoveAt
<1>2. CASE ~\E n \in 1 .. Len(s) : FirstAt(s, e, n)
  BY <1>2 DEF Unlisted
<1> QED
  BY <1>1, <1>2

\* The frame of a thread outside every call is a frame.
LEMMA NoFrameType == NoFrame \in Frame
BY DEF NoFrame, Frame, Methods, NoStatuses, NoDocument, ProviderDocument,
   Record, JobEntry, NoRecord, NoEntry, Status

\* The frames the actions build from an old frame.
LEMMA FrameWith ==
  ASSUME NEW fr \in Frame
  PROVE  /\ \A i \in Instances : [fr EXCEPT !.rid = i] \in Frame
         /\ \A s \in ProviderDocument : [fr EXCEPT !.state = s] \in Frame
         /\ \A m \in [Instances -> Status \cup {Absent}] : [fr EXCEPT !.told = m] \in Frame
         /\ \A m \in [Instances -> Status \cup {Absent}], S \in SUBSET Instances :
              [fr EXCEPT !.told = m, !.todo = S] \in Frame
         /\ \A S \in SUBSET Instances : [fr EXCEPT !.pool = S] \in Frame
         /\ \A S \in SUBSET Instances : [fr EXCEPT !.todo = S] \in Frame
         /\ \A R, S \in SUBSET Instances : [fr EXCEPT !.rids = R, !.todo = S] \in Frame
         /\ \A R, P, S \in SUBSET Instances, d \in BOOLEAN :
              [fr EXCEPT !.rids = R, !.dirty = d, !.pool = P, !.todo = S] \in Frame
         /\ fr.job # NoJob => fr.job \in Jobs
         /\ [NoFrame EXCEPT !.method = fr.method] \in Frame
         /\ \A s \in ProviderDocument :
              [NoFrame EXCEPT !.method = fr.method, !.state = s] \in Frame
BY NoFrameType DEF Frame

\* _save_state() copies a well-typed document.
LEMMA SnapshotType ==
  ASSUME BooksTypeOK' PROVE Snapshot \in ProviderDocument
BY DEF BooksTypeOK, Snapshot, ProviderDocument

-----------------------------------------------------------------------------
(* Pieces of actions.                                                      *)

\* A call moves to a step; if that step is one of submit(), the frame must
\* hold what submit() needs there.
LEMMA CallStep ==
  ASSUME CallsTypeOK, SubmitOK, NEW t \in Threads, NEW f \in Frame,
         NEW step \in Steps,
         pc' = [pc EXCEPT ![t] = step], frame' = [frame EXCEPT ![t] = f],
         lock' \in Threads \cup {NoThread},
         step \in SubmitSteps => f.job \in Jobs,
         step \in SubmitSteps \ {"take", "create"} => f.rid \in Instances
  PROVE  CallsTypeOK' /\ SubmitOK'
BY DEF CallsTypeOK, SubmitOK

\* A call returns.
LEMMA ReturnType ==
  ASSUME CallsTypeOK, SubmitOK, NEW t \in Threads, Return(t),
         lock' \in Threads \cup {NoThread}
  PROVE  CallsTypeOK' /\ SubmitOK'
<1>1. pc' = [pc EXCEPT ![t] = "idle"] /\ frame' = [frame EXCEPT ![t] = NoFrame]
  BY DEF Return, Goto
<1>2. "idle" \in Steps \ SubmitSteps
  BY DEF Steps, SubmitSteps
<1> QED
  BY <1>1, <1>2, NoFrameType, CallStep

\* A submit() that has its instance goes on with it.
LEMMA SubmitGoesOn ==
  ASSUME CallsTypeOK, SubmitOK, NEW t \in Threads,
         pc[t] \in SubmitSteps \ {"take", "create"},
         NEW step \in SubmitSteps, Goto(t, step), UNCHANGED <<frame, lock>>
  PROVE  CallsTypeOK' /\ SubmitOK'
<1>1. frame[t] \in Frame /\ frame[t].job \in Jobs /\ frame[t].rid \in Instances
  BY DEF CallsTypeOK, SubmitOK
<1>2. pc' = [pc EXCEPT ![t] = step] /\ frame' = [frame EXCEPT ![t] = frame[t]]
      /\ lock' \in Threads \cup {NoThread}
  BY DEF CallsTypeOK, Goto
<1>3. step \in Steps
  BY DEF Steps
<1> QED
  BY <1>1, <1>2, <1>3, CallStep

\* The second lock region of status() and cancel() writes statuses the mode
\* returned to records that exist.
LEMMA WriteBackType ==
  ASSUME BooksTypeOK, NEW J \in SUBSET Jobs,
         NEW m \in [Instances -> Status \cup {Absent}],
         WriteBack(J, m)
  PROVE  BooksTypeOK'
<1> DEFINE heard == {j \in J : Mapped(j) /\ m[job_map[j].rid] # Absent}
<1>1. ASSUME NEW j \in heard
      PROVE  /\ job_map[j].rid \in Instances /\ m[job_map[j].rid] \in Status
             /\ [job_map[j] EXCEPT !.status = m[job_map[j].rid]] \in JobEntry
  <2>1. job_map[j] \in JobEntry /\ job_map[j].status # Absent
    BY DEF BooksTypeOK, Mapped
  <2>2. job_map[j].rid \in Instances
    BY <2>1 DEF JobEntry, NoEntry
  <2>3. m[job_map[j].rid] \in Status
    BY <2>2
  <2>4. [job_map[j] EXCEPT !.status = m[job_map[j].rid]] \in JobEntry
    BY <2>1, <2>3 DEF JobEntry, NoEntry
  <2> QED
    BY <2>2, <2>3, <2>4
<1>2. job_map' \in [Jobs -> JobEntry]
  BY <1>1 DEF WriteBack, BooksTypeOK
<1>3. \A i \in Instances :
        Recorded(i) /\ (\E j \in heard : job_map[j].rid = i)
          => [resources[i] EXCEPT !.status = m[i]] \in Record
  BY <1>1, RecordsWith DEF BooksTypeOK, Recorded
<1>4. resources' \in [Instances -> Record]
  BY <1>3 DEF WriteBack, BooksTypeOK
<1> QED
  BY <1>2, <1>4 DEF WriteBack, BooksTypeOK

\* Whatever became of a job, status() has a status to report.
LEMMA VerdictType ==
  ASSUME TypeOK, NEW t \in Threads, NEW j \in Jobs
  PROVE  Verdict(t, j) \in Status
<1>1. frame[t] \in Frame /\ job_map[j] \in JobEntry
  BY DEF TypeOK, CallsTypeOK, BooksTypeOK
<1>2. frame[t].known[j] \in Status \cup {Absent}
  BY <1>1 DEF Frame
<1>3. Mapped(j) => frame[t].told[job_map[j].rid] \in Status \cup {Absent}
  BY <1>1 DEF Frame, Mapped, JobEntry, NoEntry
<1>4. "UNKNOWN" \in Status /\ "COMPLETED" \in Status
  BY DEF Status
<1> QED
  BY <1>2, <1>3, <1>4 DEF Verdict

\* Where a cleanup pass goes after its scan, it is not into submit().
LEMMA AfterPoolType ==
  ASSUME NEW t, NEW rids, NEW dirty
  PROVE  /\ AfterPool(t, rids, dirty) \in Steps
         /\ AfterPool(t, rids, dirty) \notin SubmitSteps
BY DEF AfterPool, Steps, SubmitSteps, CleanupSteps

\* One round of the COMPLETED -> WARM loop.
LEMMA TransitionRoundType ==
  ASSUME CallsTypeOK, SubmitOK, NEW t \in Threads, NEW i,
         NEW rids \in SUBSET Instances,
         NEW pool \in SUBSET Instances, NEW dirty \in BOOLEAN,
         TransitionRound(t, i, rids, pool, dirty)
  PROVE  CallsTypeOK' /\ SubmitOK'
<1> DEFINE rest == frame[t].todo \ {i}
           next == IF rest # {} THEN "transition" ELSE AfterPool(t, rids, dirty)
           todo == IF next = "unlist" THEN rids ELSE rest
           f == IF next = "idle" THEN NoFrame
                ELSE [frame[t] EXCEPT !.rids = rids, !.dirty = dirty, !.pool = pool,
                                     !.todo = todo]
<1>1. frame[t] \in Frame /\ todo \subseteq Instances
  BY DEF CallsTypeOK, Frame
<1>2. f \in Frame
  BY <1>1, FrameWith, NoFrameType
<1>3. next \in Steps /\ next \notin SubmitSteps
  BY AfterPoolType DEF Steps, SubmitSteps, CleanupSteps
<1>4. pc' = [pc EXCEPT ![t] = next] /\ frame' = [frame EXCEPT ![t] = f]
      /\ lock' \in Threads \cup {NoThread}
  BY DEF TransitionRound, Goto
<1> QED
  BY <1>2, <1>3, <1>4, CallStep

\* A recorded instance turns WARM.
LEMMA MarkWarmType ==
  ASSUME BooksTypeOK, NEW i \in Instances, Recorded(i), MarkWarm(i)
  PROVE  BooksTypeOK'
<1>1. [resources[i] EXCEPT !.status = "WARM"] \in Record
  BY RecordsWith DEF BooksTypeOK, Recorded, Status
<1>2. resources' \in [Instances -> Record]
  BY <1>1 DEF BooksTypeOK, MarkWarm
<1>3. warm_age' \in [Instances -> 0 .. WarmPoolTtl + 1]
  BY ProviderAssumption DEF BooksTypeOK, MarkWarm
<1> QED
  BY <1>2, <1>3 DEF BooksTypeOK, MarkWarm

-----------------------------------------------------------------------------
(* Actions.                                                                *)

\* submit() raises: the mode is not initialized.
LEMMA SubmitUninitializedType ==
  ASSUME TypeOK, NEW t \in Threads, SubmitUninitialized(t)
  PROVE  TypeOK'
<1> USE DEF TypeOK
<1>1. ModeTypeOK'
  BY DEF ModeTypeOK, AwsTypeOK, modeVars, awsVars, SubmitUninitialized
<1>2. BooksTypeOK'
  BY DEF BooksTypeOK, provVars, SubmitUninitialized
<1>3. CallsTypeOK' /\ SubmitOK'
  <2>1. NoFrame \in Frame
    BY NoFrameType
  <2>2. pc' = [pc EXCEPT ![t] = "idle"] /\ frame' = [frame EXCEPT ![t] = NoFrame]
        /\ lock' \in Threads \cup {NoThread}
    BY DEF CallsTypeOK, SubmitUninitialized, Return, Goto
  <2>3. "idle" \in Steps \ SubmitSteps
    BY DEF Steps, SubmitSteps
  <2> QED
    BY <2>1, <2>2, <2>3, CallStep
<1>4. reported' \in [Jobs -> Status \cup {"none"}] /\ cancelled' \in SUBSET Jobs
  BY DEF SubmitUninitialized
<1> QED
  BY <1>1, <1>2, <1>3, <1>4

\* submit() below max_blocks.
LEMMA SubmitType ==
  ASSUME TypeOK, NEW t \in Threads, NEW j \in Jobs, Submit(t, j)
  PROVE  TypeOK'
<1> USE DEF TypeOK
<1>1. ModeTypeOK'
  BY DEF ModeTypeOK, AwsTypeOK, modeVars, awsVars, Submit
<1>2. BooksTypeOK'
  BY DEF BooksTypeOK, provVars, Submit
<1>3. CallsTypeOK' /\ SubmitOK'
  <2> DEFINE f == [NoFrame EXCEPT !.method = "submit", !.job = j]
  <2>1. f \in Frame
    BY NoFrameType DEF Frame, Methods
  <2>2. pc' = [pc EXCEPT ![t] = "take"] /\ frame' = [frame EXCEPT ![t] = f]
        /\ lock' \in Threads \cup {NoThread}
    BY DEF CallsTypeOK, Submit, Locked, Goto
  <2>3. "take" \in Steps
    BY DEF Steps, SubmitSteps
  <2>4. f.job \in Jobs /\ ("take" \in {"take", "create"} \/ f.rid \in Instances)
    BY NoFrameType DEF Frame
  <2> QED
    BY <2>1, <2>2, <2>3, <2>4, CallStep
<1>4. reported' \in [Jobs -> Status \cup {"none"}] /\ cancelled' \in SUBSET Jobs
  BY DEF Submit
<1> QED
  BY <1>1, <1>2, <1>3, <1>4

\* submit_job() pops a warm instance.
LEMMA TakeWarmType ==
  ASSUME TypeOK, NEW t \in Threads, TakeWarm(t)
  PROVE  TypeOK'
<1> USE DEF TypeOK
<1>0. Head(warm_instances) \in Instances
      /\ Tail(warm_instances) \in Seq(Instances)
  BY DEF ModeTypeOK, TakeWarm, GetWarmInstance
<1>a. mode_resources' \in [Instances -> ModeRecord]
  BY <1>0, ModeRecordsWith DEF ModeTypeOK, TakeWarm, GetWarmInstance, Status
<1>1. ModeTypeOK'
  BY <1>0, <1>a DEF ModeTypeOK, AwsTypeOK, modeVars, awsVars, TakeWarm,
     GetWarmInstance
<1>2. BooksTypeOK'
  BY DEF BooksTypeOK, provVars, TakeWarm
<1>3. CallsTypeOK' /\ SubmitOK'
  <2> DEFINE f == [frame[t] EXCEPT !.rid = Head(warm_instances)]
  <2>0. frame[t] \in Frame
    BY DEF CallsTypeOK
  <2>1. f \in Frame
    BY <1>0, <2>0, FrameWith
  <2>2. pc' = [pc EXCEPT ![t] = "dispatch_warm"]
        /\ frame' = [frame EXCEPT ![t] = f]
        /\ lock' \in Threads \cup {NoThread}
    BY DEF CallsTypeOK, TakeWarm, Goto
  <2>3. "dispatch_warm" \in Steps
    BY DEF Steps, SubmitSteps
  <2>4. f.job \in Jobs
        /\ ("dispatch_warm" \in {"take", "create"} \/ f.rid \in Instances)
    BY <1>0 DEF CallsTypeOK, Frame, SubmitOK, SubmitSteps, TakeWarm
  <2> QED
    BY <2>1, <2>2, <2>3, <2>4, CallStep
<1>4. reported' \in [Jobs -> Status \cup {"none"}] /\ cancelled' \in SUBSET Jobs
  BY DEF TakeWarm
<1> QED
  BY <1>1, <1>2, <1>3, <1>4

\* submit_job() finds no warm instance.
LEMMA TakeColdType ==
  ASSUME TypeOK, NEW t \in Threads, TakeCold(t)
  PROVE  TypeOK'
<1> USE DEF TypeOK
<1>1. ModeTypeOK'
  BY DEF ModeTypeOK, AwsTypeOK, modeVars, awsVars, TakeCold
<1>2. BooksTypeOK'
  BY DEF BooksTypeOK, provVars, TakeCold
<1>3. CallsTypeOK' /\ SubmitOK'
  <2> DEFINE f == frame[t]
  <2>1. f \in Frame
    BY DEF CallsTypeOK
  <2>2. pc' = [pc EXCEPT ![t] = "create"] /\ frame' = [frame EXCEPT ![t] = f]
        /\ lock' \in Threads \cup {NoThread}
    BY DEF CallsTypeOK, TakeCold, Goto
  <2>3. "create" \in Steps
    BY DEF Steps, SubmitSteps
  <2>4. f.job \in Jobs /\ ("create" \in {"take", "create"} \/ f.rid \in Instances)
    BY DEF CallsTypeOK, Frame, SubmitOK, SubmitSteps, TakeCold
  <2> QED
    BY <2>1, <2>2, <2>3, <2>4, CallStep
<1>4. reported' \in [Jobs -> Status \cup {"none"}] /\ cancelled' \in SUBSET Jobs
  BY DEF TakeCold
<1> QED
  BY <1>1, <1>2, <1>3, <1>4

\* submit_job() sends the command to the warm instance.
LEMMA DispatchWarmType ==
  ASSUME TypeOK, NEW t \in Threads, DispatchWarm(t)
  PROVE  TypeOK'
<1> USE DEF TypeOK
<1>0. pc[t] \in SubmitSteps \ {"take", "create"}
      /\ frame[t].job \in Jobs /\ frame[t].rid \in Instances
  BY DEF SubmitOK, SubmitSteps, DispatchWarm
<1>1. ModeTypeOK'
  BY <1>0, SendCommandType, SendCommandFailsType, QuietAws
     DEF ModeTypeOK, DispatchWarm, modeVars
<1>2. BooksTypeOK'
  BY DEF BooksTypeOK, provVars, DispatchWarm
<1>3. CallsTypeOK' /\ SubmitOK'
  <2>1. lock' \in Threads \cup {NoThread}
    BY DEF CallsTypeOK, DispatchWarm
  <2>2. CASE Return(t)
    BY <2>1, <2>2, ReturnType
  <2>3. CASE ~Return(t)
    BY <1>0, <2>3, SubmitGoesOn DEF DispatchWarm, SubmitSteps
  <2> QED
    BY <2>2, <2>3
<1>4. reported' \in [Jobs -> Status \cup {"none"}] /\ cancelled' \in SUBSET Jobs
  BY DEF DispatchWarm
<1> QED
  BY <1>1, <1>2, <1>3, <1>4

\* submit_job() updates the record of the warm instance.
LEMMA TrackWarmType ==
  ASSUME TypeOK, NEW t \in Threads, TrackWarm(t)
  PROVE  TypeOK'
<1> USE DEF TypeOK
<1>0. pc[t] \in SubmitSteps \ {"take", "create"}
      /\ frame[t].job \in Jobs /\ frame[t].rid \in Instances
  BY DEF SubmitOK, SubmitSteps, TrackWarm
<1>1. ModeTypeOK'
  BY <1>0, TrackCommandType DEF ModeTypeOK, AwsTypeOK, TrackWarm, modeVars, awsVars
<1>2. BooksTypeOK'
  BY DEF BooksTypeOK, provVars, TrackWarm
<1>3. CallsTypeOK' /\ SubmitOK'
  <2>1. lock' \in Threads \cup {NoThread}
    BY DEF CallsTypeOK, TrackWarm
  <2>2. CASE Return(t)
    BY <2>1, <2>2, ReturnType
  <2>3. CASE ~Return(t)
    BY <1>0, <2>3, SubmitGoesOn DEF TrackWarm, SubmitSteps
  <2> QED
    BY <2>2, <2>3
<1>4. reported' \in [Jobs -> Status \cup {"none"}] /\ cancelled' \in SUBSET Jobs
  BY DEF TrackWarm
<1> QED
  BY <1>1, <1>2, <1>3, <1>4

\* submit_job() launches an instance.
LEMMA CreateType ==
  ASSUME TypeOK, NEW t \in Threads, Create(t)
  PROVE  TypeOK'
<1> USE DEF TypeOK
<1>0. frame[t].job \in Jobs /\ frame[t] \in Frame
  BY DEF CallsTypeOK, SubmitOK, SubmitSteps, Create
<1>1. ModeTypeOK'
  BY <1>0, RunInstanceType, LaunchFailsType DEF Create
<1>2. BooksTypeOK'
  BY DEF BooksTypeOK, provVars, Create
<1>3. CallsTypeOK' /\ SubmitOK'
  <2>0. lock' \in Threads \cup {NoThread}
    BY DEF CallsTypeOK, Create
  <2>1. ASSUME NEW i \in Instances,
               Goto(t, "wait"), frame' = [frame EXCEPT ![t].rid = i]
        PROVE  CallsTypeOK' /\ SubmitOK'
    <3> DEFINE f == [frame[t] EXCEPT !.rid = i]
    <3>1. f \in Frame
      BY <1>0, FrameWith
    <3>2. pc' = [pc EXCEPT ![t] = "wait"] /\ frame' = [frame EXCEPT ![t] = f]
      BY <2>1 DEF Goto
    <3>3. "wait" \in Steps
      BY DEF Steps, SubmitSteps
    <3>4. f.job \in Jobs /\ f.rid \in Instances
      BY <1>0 DEF Frame
    <3> QED
      BY <2>0, <3>1, <3>2, <3>3, <3>4, CallStep
  <2> QED
    BY <2>0, <2>1, ReturnType DEF Create
<1>4. reported' \in [Jobs -> Status \cup {"none"}] /\ cancelled' \in SUBSET Jobs
  BY DEF Create
<1> QED
  BY <1>1, <1>2, <1>3, <1>4

\* submit_job() tracks the instance that came up.
LEMMA WaitRunningType ==
  ASSUME TypeOK, NEW t \in Threads, WaitRunning(t)
  PROVE  TypeOK'
<1> USE DEF TypeOK
<1>0. pc[t] \in SubmitSteps \ {"take", "create"}
      /\ frame[t].job \in Jobs /\ frame[t].rid \in Instances
  BY DEF SubmitOK, SubmitSteps, WaitRunning
<1>1. ModeTypeOK'
  BY <1>0, TrackInstanceType, LaunchFailsType DEF WaitRunning
<1>2. BooksTypeOK'
  BY DEF BooksTypeOK, provVars, WaitRunning
<1>3. CallsTypeOK' /\ SubmitOK'
  <2>1. lock' \in Threads \cup {NoThread}
    BY DEF CallsTypeOK, WaitRunning
  <2>2. CASE Return(t)
    BY <2>1, <2>2, ReturnType
  <2>3. CASE ~Return(t)
    BY <1>0, <2>3, SubmitGoesOn DEF WaitRunning, SubmitSteps
  <2> QED
    BY <2>2, <2>3
<1>4. reported' \in [Jobs -> Status \cup {"none"}] /\ cancelled' \in SUBSET Jobs
  BY DEF WaitRunning
<1> QED
  BY <1>1, <1>2, <1>3, <1>4

\* submit_job() sends the command to the new instance.
LEMMA DeliverType ==
  ASSUME TypeOK, NEW t \in Threads, Deliver(t)
  PROVE  TypeOK'
<1> USE DEF TypeOK
<1>0. pc[t] \in SubmitSteps \ {"take", "create"}
      /\ frame[t].job \in Jobs /\ frame[t].rid \in Instances
  BY DEF SubmitOK, SubmitSteps, Deliver
<1>1. ModeTypeOK'
  <2>1. CASE SendCommand(frame[t].rid, frame[t].job) /\ UNCHANGED modeVars
    BY <1>0, <2>1, SendCommandType DEF ModeTypeOK, modeVars
  <2>2. CASE SendCommandFails(frame[t].rid) /\ Abandon(frame[t].rid)
    BY <1>0, <2>2, SendCommandFailsType, AbandonType DEF ModeTypeOK
  <2> QED
    BY <2>1, <2>2 DEF Deliver
<1>2. BooksTypeOK'
  BY DEF BooksTypeOK, provVars, Deliver
<1>3. CallsTypeOK' /\ SubmitOK'
  <2>1. lock' \in Threads \cup {NoThread}
    BY DEF CallsTypeOK, Deliver
  <2>2. CASE Return(t)
    BY <2>1, <2>2, ReturnType
  <2>3. CASE ~Return(t)
    BY <1>0, <2>3, SubmitGoesOn DEF Deliver, SubmitSteps
  <2> QED
    BY <2>2, <2>3
<1>4. reported' \in [Jobs -> Status \cup {"none"}] /\ cancelled' \in SUBSET Jobs
  BY DEF Deliver
<1> QED
  BY <1>1, <1>2, <1>3, <1>4

\* submit_job() updates the record of the new instance.
LEMMA TrackColdType ==
  ASSUME TypeOK, NEW t \in Threads, TrackCold(t)
  PROVE  TypeOK'
<1> USE DEF TypeOK
<1>0. pc[t] \in SubmitSteps \ {"take", "create"}
      /\ frame[t].job \in Jobs /\ frame[t].rid \in Instances
  BY DEF SubmitOK, SubmitSteps, TrackCold
<1>1. ModeTypeOK'
  <2>1. CASE TrackCommand(frame[t].rid, frame[t].job)
    BY <1>0, <2>1, TrackCommandType
  <2>2. CASE NoFault /\ Abandon(frame[t].rid)
    BY <1>0, <2>2, AbandonType DEF ModeTypeOK, AwsTypeOK, NoFault
  <2> QED
    BY <2>1, <2>2 DEF TrackCold
<1>2. BooksTypeOK'
  BY DEF BooksTypeOK, provVars, TrackCold
<1>3. CallsTypeOK' /\ SubmitOK'
  <2>1. lock' \in Threads \cup {NoThread}
    BY DEF CallsTypeOK, TrackCold
  <2>2. CASE Return(t)
    BY <2>1, <2>2, ReturnType
  <2>3. CASE ~Return(t)
    BY <1>0, <2>3, SubmitGoesOn DEF TrackCold, SubmitSteps
  <2> QED
    BY <2>2, <2>3
<1>4. reported' \in [Jobs -> Status \cup {"none"}] /\ cancelled' \in SUBSET Jobs
  BY DEF TrackCold
<1> QED
  BY <1>1, <1>2, <1>3, <1>4

\* submit() records the job and its instance.
LEMMA RecordJobType ==
  ASSUME TypeOK, NEW t \in Threads, RecordJob(t)
  PROVE  TypeOK'
<1> USE DEF TypeOK
<1>1. ModeTypeOK'
  BY DEF ModeTypeOK, AwsTypeOK, modeVars, awsVars, RecordJob
<1>2. BooksTypeOK'
  BY DEF BooksTypeOK, provVars, RecordJob, Record, JobEntry, Status, SubmitOK,
     SubmitSteps
<1>3. CallsTypeOK' /\ SubmitOK'
  <2> DEFINE f == [frame[t] EXCEPT !.state = Snapshot]
  <2>0. frame[t] \in Frame
    BY DEF CallsTypeOK
  <2>1. f \in Frame
    BY <1>2, <2>0, FrameWith, SnapshotType
  <2>2. pc' = [pc EXCEPT ![t] = "save_job"] /\ frame' = [frame EXCEPT ![t] = f]
        /\ lock' \in Threads \cup {NoThread}
    BY DEF CallsTypeOK, RecordJob, Locked, Goto
  <2>3. "save_job" \in Steps
    BY DEF Steps, SubmitSteps
  <2>4. f.job \in Jobs
        /\ ("save_job" \in {"take", "create"} \/ f.rid \in Instances)
    BY <2>0 DEF CallsTypeOK, Frame, SubmitOK, SubmitSteps, RecordJob
  <2> QED
    BY <2>1, <2>2, <2>3, <2>4, CallStep
<1>4. reported' \in [Jobs -> Status \cup {"none"}] /\ cancelled' \in SUBSET Jobs
  BY DEF RecordJob
<1> QED
  BY <1>1, <1>2, <1>3, <1>4

\* submit() saves and answers its caller.
LEMMA SaveJobType ==
  ASSUME TypeOK, NEW t \in Threads, SaveJob(t)
  PROVE  TypeOK'
<1> USE DEF TypeOK
<1>1. ModeTypeOK'
  BY DEF ModeTypeOK, AwsTypeOK, modeVars, awsVars, SaveJob
<1>2. BooksTypeOK'
  BY DEF BooksTypeOK, provVars, SaveJob, WriteState, CallsTypeOK, Frame
<1>3. CallsTypeOK' /\ SubmitOK'
  <2>1. NoFrame \in Frame
    BY NoFrameType
  <2>2. pc' = [pc EXCEPT ![t] = "idle"] /\ frame' = [frame EXCEPT ![t] = NoFrame]
        /\ lock' \in Threads \cup {NoThread}
    BY DEF CallsTypeOK, SaveJob, Return, Goto
  <2>3. "idle" \in Steps \ SubmitSteps
    BY DEF Steps, SubmitSteps
  <2> QED
    BY <2>1, <2>2, <2>3, CallStep
<1>4. reported' \in [Jobs -> Status \cup {"none"}] /\ cancelled' \in SUBSET Jobs
  BY DEF SaveJob, Status, SubmitOK, SubmitSteps
<1> QED
  BY <1>1, <1>2, <1>3, <1>4

\* status() answers finished jobs and collects the others.
LEMMA StatusBeginType ==
  ASSUME TypeOK, NEW t \in Threads, StatusBegin(t)
  PROVE  TypeOK'
<1> USE DEF TypeOK
<1>1. ModeTypeOK'
  BY DEF ModeTypeOK, AwsTypeOK, modeVars, awsVars, StatusBegin
<1>2. BooksTypeOK'
  BY DEF BooksTypeOK, provVars, StatusBegin
<1>3. CallsTypeOK' /\ SubmitOK'
  <2> DEFINE rids == {job_map[j].rid :
                       j \in {j \in AcceptedJobs : Mapped(j)} \ Settled}
             known == [j \in Jobs |-> IF j \in Settled THEN job_map[j].status ELSE Absent]
  <2> DEFINE f == [NoFrame EXCEPT
                 !.method = "status", !.jobs = AcceptedJobs, !.rids = rids,
                 !.known = known]
  <2>0. rids \subseteq Instances
    BY DEF BooksTypeOK, JobEntry, NoEntry, Mapped, AcceptedJobs
  <2>a. known \in [Jobs -> Status \cup {Absent}]
    BY DEF BooksTypeOK, JobEntry, NoEntry
  <2>1. f \in Frame
    BY <2>0, <2>a, NoFrameType DEF Frame, Methods, AcceptedJobs
  <2>2. pc' = [pc EXCEPT ![t] = (IF rids = {} THEN "update" ELSE "group")]
        /\ frame' = [frame EXCEPT ![t] = f]
        /\ lock' \in Threads \cup {NoThread}
    BY DEF CallsTypeOK, StatusBegin, Locked, Settled, Goto
  <2>3. (IF rids = {} THEN "update" ELSE "group") \in Steps \ SubmitSteps
    BY DEF Steps, SubmitSteps, StatusSteps
  <2> QED
    BY <2>1, <2>2, <2>3, CallStep
<1>4. reported' \in [Jobs -> Status \cup {"none"}] /\ cancelled' \in SUBSET Jobs
  BY DEF StatusBegin
<1> QED
  BY <1>1, <1>2, <1>3, <1>4

\* get_job_status() groups the instances.
LEMMA GroupType ==
  ASSUME TypeOK, NEW t \in Threads, Group(t)
  PROVE  TypeOK'
<1> USE DEF TypeOK
<1>1. ModeTypeOK'
  BY DEF ModeTypeOK, AwsTypeOK, modeVars, awsVars, Group
<1>2. BooksTypeOK'
  BY DEF BooksTypeOK, provVars, Group
<1>3. CallsTypeOK' /\ SubmitOK'
  <2> DEFINE f == [frame[t] EXCEPT !.told = LocalStatuses(frame[t].rids),
                                !.todo = MustAskAws(frame[t].rids)]
  <2>0. frame[t] \in Frame
    BY DEF CallsTypeOK
  <2>a. LocalStatuses(frame[t].rids) \in [Instances -> Status \cup {Absent}]
        /\ MustAskAws(frame[t].rids) \subseteq Instances
    BY <2>0 DEF LocalStatuses, MustAskAws, Status, Frame
  <2>1. f \in Frame
    BY <2>0, <2>a, FrameWith
  <2>2. pc' = [pc EXCEPT ![t] = "poll"] /\ frame' = [frame EXCEPT ![t] = f]
        /\ lock' \in Threads \cup {NoThread}
    BY DEF CallsTypeOK, Group, Goto
  <2>3. "poll" \in Steps \ SubmitSteps
    BY DEF Steps, SubmitSteps, StatusSteps
  <2> QED
    BY <2>1, <2>2, <2>3, CallStep
<1>4. reported' \in [Jobs -> Status \cup {"none"}] /\ cancelled' \in SUBSET Jobs
  BY DEF Group
<1> QED
  BY <1>1, <1>2, <1>3, <1>4

\* get_job_status() asks SSM.
LEMMA PollSsmType ==
  ASSUME TypeOK, NEW t \in Threads, PollSsm(t)
  PROVE  TypeOK'
<1> USE DEF TypeOK
<1>0. frame[t] \in Frame /\ frame[t].rids \subseteq Instances
      /\ frame[t].todo \subseteq Instances
  BY DEF CallsTypeOK, Frame
<1>a. PICK answer \in [frame[t].todo -> Answers] :
        PollCommands(frame[t].todo, answer) /\ Heard(t, answer)
  BY DEF PollSsm
<1>1. ModeTypeOK'
  BY <1>0, <1>a, PollCommandsType
<1>2. BooksTypeOK'
  BY <1>a DEF Heard, BooksTypeOK, provVars
<1>3. CallsTypeOK' /\ SubmitOK'
  <2> DEFINE heard == [i \in Instances |-> IF i \in frame[t].todo
                                           THEN answer[i] ELSE frame[t].told[i]]
  <2> DEFINE f == [frame[t] EXCEPT !.told = heard, !.todo = {}]
  <2>0. heard \in [Instances -> Status \cup {Absent}]
    BY <1>0, ModeConstants DEF Frame
  <2>1. f \in Frame
    BY <1>0, <2>0, FrameWith
  <2>2. pc' = [pc EXCEPT ![t] = "update"] /\ frame' = [frame EXCEPT ![t] = f]
        /\ lock' \in Threads \cup {NoThread}
    BY <1>a DEF CallsTypeOK, PollSsm, Heard, Goto
  <2>3. "update" \in Steps \ SubmitSteps
    BY DEF Steps, SubmitSteps, StatusSteps
  <2> QED
    BY <2>1, <2>2, <2>3, CallStep
<1>4. reported' \in [Jobs -> Status \cup {"none"}] /\ cancelled' \in SUBSET Jobs
  BY <1>a DEF Heard
<1> QED
  BY <1>1, <1>2, <1>3, <1>4

\* get_job_status() asks EC2.
LEMMA PollEc2Type ==
  ASSUME TypeOK, NEW t \in Threads, PollEc2(t)
  PROVE  TypeOK'
<1> USE DEF TypeOK
<1>0. frame[t] \in Frame /\ frame[t].rids \subseteq Instances
      /\ frame[t].todo \subseteq Instances
  BY DEF CallsTypeOK, Frame
<1>a. PICK outcome \in PollOutcomes :
        PollInstances(frame[t].todo, outcome)
          /\ Heard(t, InstanceStatuses(frame[t].todo, outcome))
  BY DEF PollEc2
<1>1. ModeTypeOK'
  BY <1>0, <1>a, PollInstancesType
<1>2. BooksTypeOK'
  BY <1>a DEF Heard, BooksTypeOK, provVars
<1>3. CallsTypeOK' /\ SubmitOK'
  <2> DEFINE m == InstanceStatuses(frame[t].todo, outcome)
             heard == [i \in Instances |-> IF i \in frame[t].todo
                                           THEN m[i] ELSE frame[t].told[i]]
  <2> DEFINE f == [frame[t] EXCEPT !.told = heard, !.todo = {}]
  <2>0. heard \in [Instances -> Status \cup {Absent}]
    BY <1>0 DEF Frame, InstanceStatuses, InstanceStatus, Status
  <2>1. f \in Frame
    BY <1>0, <2>0, FrameWith
  <2>2. pc' = [pc EXCEPT ![t] = "update"] /\ frame' = [frame EXCEPT ![t] = f]
        /\ lock' \in Threads \cup {NoThread}
    BY <1>a DEF CallsTypeOK, PollEc2, Heard, Goto
  <2>3. "update" \in Steps \ SubmitSteps
    BY DEF Steps, SubmitSteps, StatusSteps
  <2> QED
    BY <2>1, <2>2, <2>3, CallStep
<1>4. reported' \in [Jobs -> Status \cup {"none"}] /\ cancelled' \in SUBSET Jobs
  BY <1>a DEF Heard
<1> QED
  BY <1>1, <1>2, <1>3, <1>4

\* get_job_status() raises; status() reports UNKNOWN.
LEMMA PollRaisesType ==
  ASSUME TypeOK, NEW t \in Threads, PollRaises(t)
  PROVE  TypeOK'
<1> USE DEF TypeOK
<1>0. frame[t] \in Frame /\ frame[t].rids \subseteq Instances
      /\ frame[t].todo \subseteq Instances
  BY DEF CallsTypeOK, Frame
<1>a. PICK done \in SUBSET frame[t].todo :
        \E answer \in [done -> Answers] : PollCommandsRaises(frame[t].todo, done, answer)
  BY DEF PollRaises
<1>1. ModeTypeOK'
  BY <1>0, <1>a, PollCommandsRaisesType
<1>2. BooksTypeOK'
  BY DEF BooksTypeOK, provVars, PollRaises
<1>3. CallsTypeOK' /\ SubmitOK'
  <2>0. frame[t] \in Frame
    BY DEF CallsTypeOK
  <2>1. ASSUME NEW f \in Frame, NEW step \in {"scan", "idle"},
               pc' = [pc EXCEPT ![t] = step], frame' = [frame EXCEPT ![t] = f]
        PROVE  CallsTypeOK' /\ SubmitOK'
    <3>1. step \in Steps /\ step \notin SubmitSteps
      BY <2>1 DEF Steps, SubmitSteps, StatusSteps, CancelSteps, CleanupSteps,
         ShutdownSteps
    <3>2. lock' \in Threads \cup {NoThread}
      BY DEF CallsTypeOK, PollRaises
    <3> QED
      BY <2>1, <3>1, <3>2, CallStep
  <2>2. \/ pc' = [pc EXCEPT ![t] = "scan"]
           /\ frame' = [frame EXCEPT ![t] = [NoFrame EXCEPT !.method = frame[t].method]]
        \/ pc' = [pc EXCEPT ![t] = "idle"]
           /\ frame' = [frame EXCEPT ![t] = NoFrame]
    BY DEF PollRaises, ToCleanup, Goto, Return
  <2> QED
    BY <2>0, <2>1, <2>2, FrameWith, NoFrameType
<1>4. reported' \in [Jobs -> Status \cup {"none"}] /\ cancelled' \in SUBSET Jobs
  BY <1>0 DEF PollRaises, Frame, Status
<1> QED
  BY <1>1, <1>2, <1>3, <1>4

\* status() writes back what it heard and answers.
LEMMA StatusUpdateType ==
  ASSUME TypeOK, NEW t \in Threads, StatusUpdate(t)
  PROVE  TypeOK'
<1> USE DEF TypeOK
<1>1. ModeTypeOK'
  BY DEF ModeTypeOK, AwsTypeOK, modeVars, awsVars, StatusUpdate
<1>0. frame[t] \in Frame
  BY DEF CallsTypeOK
<1>2. BooksTypeOK'
  BY <1>0, WriteBackType DEF StatusUpdate, Frame
<1>3. CallsTypeOK' /\ SubmitOK'
  <2> DEFINE f == [NoFrame EXCEPT !.method = "status", !.state = Snapshot]
  <2>1. f \in Frame
    BY <1>2, SnapshotType, NoFrameType DEF Frame, Methods
  <2>2. pc' = [pc EXCEPT ![t] = "save_status"] /\ frame' = [frame EXCEPT ![t] = f]
        /\ lock' \in Threads \cup {NoThread}
    BY DEF CallsTypeOK, StatusUpdate, Locked, Goto
  <2>3. "save_status" \in Steps \ SubmitSteps
    BY DEF Steps, SubmitSteps, StatusSteps
  <2> QED
    BY <2>1, <2>2, <2>3, CallStep
<1>4. reported' \in [Jobs -> Status \cup {"none"}] /\ cancelled' \in SUBSET Jobs
  BY <1>0, VerdictType DEF StatusUpdate
<1> QED
  BY <1>1, <1>2, <1>3, <1>4

\* status() saves.
LEMMA SaveStatusType ==
  ASSUME TypeOK, NEW t \in Threads, SaveStatus(t)
  PROVE  TypeOK'
<1> USE DEF TypeOK
<1>1. ModeTypeOK'
  BY DEF ModeTypeOK, AwsTypeOK, modeVars, awsVars, SaveStatus
<1>2. BooksTypeOK'
  BY DEF BooksTypeOK, provVars, SaveStatus, WriteState, CallsTypeOK, Frame
<1>3. CallsTypeOK' /\ SubmitOK'
  <2>0. frame[t] \in Frame
    BY DEF CallsTypeOK
  <2>1. ASSUME NEW f \in Frame, NEW step \in {"scan", "idle"},
               pc' = [pc EXCEPT ![t] = step], frame' = [frame EXCEPT ![t] = f]
        PROVE  CallsTypeOK' /\ SubmitOK'
    <3>1. step \in Steps /\ step \notin SubmitSteps
      BY <2>1 DEF Steps, SubmitSteps, StatusSteps, CancelSteps, CleanupSteps,
         ShutdownSteps
    <3>2. lock' \in Threads \cup {NoThread}
      BY DEF CallsTypeOK, SaveStatus
    <3> QED
      BY <2>1, <3>1, <3>2, CallStep
  <2>2. \/ pc' = [pc EXCEPT ![t] = "scan"]
           /\ frame' = [frame EXCEPT ![t] = [NoFrame EXCEPT !.method = frame[t].method]]
        \/ pc' = [pc EXCEPT ![t] = "idle"]
           /\ frame' = [frame EXCEPT ![t] = NoFrame]
    BY DEF SaveStatus, ToCleanup, Goto, Return
  <2> QED
    BY <2>0, <2>1, <2>2, FrameWith, NoFrameType
<1>4. reported' \in [Jobs -> Status \cup {"none"}] /\ cancelled' \in SUBSET Jobs
  BY DEF SaveStatus
<1> QED
  BY <1>1, <1>2, <1>3, <1>4

\* cancel() collects the instances of its jobs.
LEMMA CancelType ==
  ASSUME TypeOK, NEW t \in Threads, NEW J \in SUBSET Jobs, Cancel(t, J)
  PROVE  TypeOK'
<1> USE DEF TypeOK
<1>1. ModeTypeOK'
  BY DEF ModeTypeOK, AwsTypeOK, modeVars, awsVars, Cancel
<1>2. BooksTypeOK'
  BY DEF BooksTypeOK, provVars, Cancel
<1>3. CallsTypeOK' /\ SubmitOK'
  <2> DEFINE rids == {job_map[j].rid : j \in {j \in J : Mapped(j)}}
  <2> DEFINE f == [NoFrame EXCEPT !.method = "cancel", !.jobs = J, !.rids = rids]
  <2>0. rids \subseteq Instances
    BY DEF BooksTypeOK, JobEntry, NoEntry, Mapped
  <2>1. f \in Frame
    BY <2>0, NoFrameType DEF Frame, Methods
  <2>2. pc' = [pc EXCEPT ![t] = "cancel_call"] /\ frame' = [frame EXCEPT ![t] = f]
        /\ lock' \in Threads \cup {NoThread}
    BY DEF CallsTypeOK, Cancel, Locked, Collect, Goto
  <2>3. "cancel_call" \in Steps \ SubmitSteps
    BY DEF Steps, SubmitSteps, CancelSteps
  <2> QED
    BY <2>1, <2>2, <2>3, CallStep
<1>4. reported' \in [Jobs -> Status \cup {"none"}] /\ cancelled' \in SUBSET Jobs
  BY DEF Cancel, Collect
<1> QED
  BY <1>1, <1>2, <1>3, <1>4

\* scale_in() calls cancel().
LEMMA ScaleInCancelsType ==
  ASSUME TypeOK, NEW t \in Threads, ScaleInCancels(t)
  PROVE  TypeOK'
<1> USE DEF TypeOK
<1>1. ModeTypeOK'
  BY DEF ModeTypeOK, AwsTypeOK, modeVars, awsVars, ScaleInCancels
<1>2. BooksTypeOK'
  BY DEF BooksTypeOK, provVars, ScaleInCancels
<1>0. frame[t].jobs \subseteq Jobs
  BY DEF CallsTypeOK, Frame
<1>3. CallsTypeOK' /\ SubmitOK'
  <2> DEFINE rids == {job_map[j].rid : j \in {j \in frame[t].jobs : Mapped(j)}}
  <2> DEFINE f == [NoFrame EXCEPT !.method = "scale_in", !.jobs = frame[t].jobs, !.rids = rids]
  <2>0. rids \subseteq Instances
    BY <1>0 DEF BooksTypeOK, JobEntry, NoEntry, Mapped
  <2>1. f \in Frame
    BY <1>0, <2>0, NoFrameType DEF Frame, Methods
  <2>2. pc' = [pc EXCEPT ![t] = "cancel_call"] /\ frame' = [frame EXCEPT ![t] = f]
        /\ lock' \in Threads \cup {NoThread}
    BY DEF CallsTypeOK, ScaleInCancels, Locked, Collect, Goto
  <2>3. "cancel_call" \in Steps \ SubmitSteps
    BY DEF Steps, SubmitSteps, CancelSteps
  <2> QED
    BY <2>1, <2>2, <2>3, CallStep
<1>4. reported' \in [Jobs -> Status \cup {"none"}] /\ cancelled' \in SUBSET Jobs
  BY <1>0 DEF ScaleInCancels, Collect
<1> QED
  BY <1>1, <1>2, <1>3, <1>4

\* scale_in() chooses blocks.
LEMMA ScaleInType ==
  ASSUME TypeOK, NEW t \in Threads, ScaleIn(t)
  PROVE  TypeOK'
<1> USE DEF TypeOK
<1>1. ModeTypeOK'
  BY DEF ModeTypeOK, AwsTypeOK, modeVars, awsVars, ScaleIn
<1>2. BooksTypeOK'
  BY DEF BooksTypeOK, provVars, ScaleIn
<1>a. PICK B \in SUBSET InStatus({"RUNNING"}) :
        /\ B = {} => InStatus({"RUNNING"}) = {}
        /\ frame' = [frame EXCEPT ![t] = [NoFrame EXCEPT !.method = "scale_in",
                           !.jobs = {resources[i].job : i \in B} \ {NoJob}]]
  BY DEF ScaleIn
<1>3. CallsTypeOK' /\ SubmitOK'
  <2> DEFINE J == {resources[i].job : i \in B} \ {NoJob}
  <2> DEFINE f == [NoFrame EXCEPT !.method = "scale_in", !.jobs = J]
  <2>0. J \subseteq Jobs
    BY DEF BooksTypeOK, Record, NoRecord, InStatus
  <2>1. f \in Frame
    BY <2>0, NoFrameType DEF Frame, Methods
  <2>2. pc' = [pc EXCEPT ![t] = "cancel"] /\ frame' = [frame EXCEPT ![t] = f]
        /\ lock' \in Threads \cup {NoThread}
    BY <1>a DEF CallsTypeOK, ScaleIn, Locked, Goto
  <2>3. "cancel" \in Steps \ SubmitSteps
    BY DEF Steps, SubmitSteps, CancelSteps
  <2> QED
    BY <2>1, <2>2, <2>3, CallStep
<1>4. reported' \in [Jobs -> Status \cup {"none"}] /\ cancelled' \in SUBSET Jobs
  BY DEF ScaleIn
<1> QED
  BY <1>1, <1>2, <1>3, <1>4

\* cancel_jobs() terminates.
LEMMA CancelCallType ==
  ASSUME TypeOK, NEW t \in Threads, CancelCall(t)
  PROVE  TypeOK'
<1> USE DEF TypeOK
<1>0. frame[t] \in Frame /\ frame[t].rids \subseteq Instances
      /\ frame[t].todo \subseteq Instances
  BY DEF CallsTypeOK, Frame
<1>a. PICK outcome \in CancelOutcomes :
        /\ CancelJobs(frame[t].rids, outcome)
        /\ frame' = [frame EXCEPT ![t].told = CancelStatuses(frame[t].rids, outcome)]
  BY DEF CancelCall
<1>1. ModeTypeOK'
  BY <1>0, <1>a, CancelJobsType
<1>2. BooksTypeOK'
  BY DEF BooksTypeOK, provVars, CancelCall
<1>3. CallsTypeOK' /\ SubmitOK'
  <2> DEFINE f == [frame[t] EXCEPT !.told = CancelStatuses(frame[t].rids, outcome)]
  <2>0. CancelStatuses(frame[t].rids, outcome) \in [Instances -> Status \cup {Absent}]
    BY DEF CancelStatuses, CancelOutcomes, Status
  <2>1. f \in Frame
    BY <1>0, <2>0, FrameWith
  <2>2. pc' = [pc EXCEPT ![t] = "cancel_update"]
        /\ frame' = [frame EXCEPT ![t] = f]
        /\ lock' \in Threads \cup {NoThread}
    BY <1>a DEF CallsTypeOK, CancelCall, Goto
  <2>3. "cancel_update" \in Steps \ SubmitSteps
    BY DEF Steps, SubmitSteps, CancelSteps
  <2> QED
    BY <2>1, <2>2, <2>3, CallStep
<1>4. reported' \in [Jobs -> Status \cup {"none"}] /\ cancelled' \in SUBSET Jobs
  BY DEF CancelCall
<1> QED
  BY <1>1, <1>2, <1>3, <1>4

\* cancel() writes back the outcome.
LEMMA CancelUpdateType ==
  ASSUME TypeOK, NEW t \in Threads, CancelUpdate(t)
  PROVE  TypeOK'
<1> USE DEF TypeOK
<1>1. ModeTypeOK'
  BY DEF ModeTypeOK, AwsTypeOK, modeVars, awsVars, CancelUpdate
<1>0. frame[t] \in Frame
  BY DEF CallsTypeOK
<1>2. BooksTypeOK'
  BY <1>0, WriteBackType DEF CancelUpdate, Frame
<1>3. CallsTypeOK' /\ SubmitOK'
  <2>0. frame[t] \in Frame
    BY DEF CallsTypeOK
  <2>1. ASSUME NEW f \in Frame, NEW step \in {"scan", "idle"},
               pc' = [pc EXCEPT ![t] = step], frame' = [frame EXCEPT ![t] = f]
        PROVE  CallsTypeOK' /\ SubmitOK'
    <3>1. step \in Steps /\ step \notin SubmitSteps
      BY <2>1 DEF Steps, SubmitSteps, StatusSteps, CancelSteps, CleanupSteps,
         ShutdownSteps
    <3>2. lock' \in Threads \cup {NoThread}
      BY DEF CallsTypeOK, CancelUpdate, Locked
    <3> QED
      BY <2>1, <3>1, <3>2, CallStep
  <2>2. \/ pc' = [pc EXCEPT ![t] = "scan"]
           /\ frame' = [frame EXCEPT ![t] = [NoFrame EXCEPT !.method = frame[t].method]]
        \/ pc' = [pc EXCEPT ![t] = "idle"]
           /\ frame' = [frame EXCEPT ![t] = NoFrame]
    BY DEF CancelUpdate, ToCleanup, Goto, Return
  <2> QED
    BY <2>0, <2>1, <2>2, FrameWith, NoFrameType
<1>4. reported' \in [Jobs -> Status \cup {"none"}] /\ cancelled' \in SUBSET Jobs
  BY DEF CancelUpdate
<1> QED
  BY <1>1, <1>2, <1>3, <1>4

\* The cleanup scan.
LEMMA ScanType ==
  ASSUME TypeOK, NEW t \in Threads, Scan(t)
  PROVE  TypeOK'
<1> USE DEF TypeOK
<1>1. ModeTypeOK'
  BY DEF ModeTypeOK, AwsTypeOK, modeVars, awsVars, Scan
<1>2. BooksTypeOK'
  BY DEF BooksTypeOK, provVars, Scan
<1>3. CallsTypeOK' /\ SubmitOK'
  <2> DEFINE next == IF Reusable # {} THEN "pool" ELSE AfterPool(t, Doomed, FALSE)
             todo == IF next = "unlist" THEN Doomed ELSE Reusable
             f == IF next = "idle" THEN NoFrame
                  ELSE [frame[t] EXCEPT !.rids = Doomed, !.todo = todo]
  <2>0. Doomed \subseteq Instances /\ Reusable \subseteq Instances
    BY DEF Doomed, Reusable, Expired, InStatus
  <2>1. f \in Frame
    BY <2>0, FrameWith, NoFrameType DEF CallsTypeOK
  <2>2. next \in Steps /\ next \notin SubmitSteps
    BY AfterPoolType DEF Steps, SubmitSteps, CleanupSteps
  <2>3. pc' = [pc EXCEPT ![t] = next] /\ frame' = [frame EXCEPT ![t] = f]
        /\ lock' \in Threads \cup {NoThread}
    BY DEF CallsTypeOK, Scan, Locked, Goto
  <2> QED
    BY <2>1, <2>2, <2>3, CallStep
<1>4. reported' \in [Jobs -> Status \cup {"none"}] /\ cancelled' \in SUBSET Jobs
  BY DEF Scan
<1> QED
  BY <1>1, <1>2, <1>3, <1>4

\* The pass over the warm pool takes the lock.
LEMMA PoolSnapshotType ==
  ASSUME TypeOK, NEW t \in Threads, PoolSnapshot(t)
  PROVE  TypeOK'
<1> USE DEF TypeOK
<1>1. ModeTypeOK'
  BY DEF ModeTypeOK, AwsTypeOK, modeVars, awsVars, PoolSnapshot
<1>2. BooksTypeOK'
  BY DEF BooksTypeOK, provVars, PoolSnapshot
<1>3. CallsTypeOK' /\ SubmitOK'
  <2> DEFINE f == [frame[t] EXCEPT !.pool = InStatus({"WARM"})]
  <2>0. frame[t] \in Frame
    BY DEF CallsTypeOK
  <2>1. f \in Frame
    BY <2>0, FrameWith DEF InStatus
  <2>2. pc' = [pc EXCEPT ![t] = "transition"] /\ frame' = [frame EXCEPT ![t] = f]
        /\ lock' \in Threads \cup {NoThread}
    BY DEF CallsTypeOK, PoolSnapshot, Goto
  <2>3. "transition" \in Steps \ SubmitSteps
    BY DEF Steps, SubmitSteps, CleanupSteps
  <2> QED
    BY <2>1, <2>2, <2>3, CallStep
<1>4. reported' \in [Jobs -> Status \cup {"none"}] /\ cancelled' \in SUBSET Jobs
  BY DEF PoolSnapshot
<1> QED
  BY <1>1, <1>2, <1>3, <1>4

\* That pass meets an instance whose record is gone.
LEMMA TransitionSkippedType ==
  ASSUME TypeOK, NEW t \in Threads, TransitionSkipped(t)
  PROVE  TypeOK'
<1> USE DEF TypeOK
<1>0. frame[t] \in Frame
  BY DEF CallsTypeOK
<1>a. PICK i \in frame[t].todo :
        TransitionRound(t, i, frame[t].rids, frame[t].pool, frame[t].dirty)
  BY DEF TransitionSkipped
<1>1. ModeTypeOK'
  BY DEF ModeTypeOK, AwsTypeOK, modeVars, awsVars, TransitionSkipped
<1>2. BooksTypeOK'
  BY DEF BooksTypeOK, provVars, TransitionSkipped
<1>3. CallsTypeOK' /\ SubmitOK'
  <2> QED
    BY <1>0, <1>a, TransitionRoundType DEF Frame
<1>4. reported' \in [Jobs -> Status \cup {"none"}] /\ cancelled' \in SUBSET Jobs
  BY DEF TransitionSkipped
<1> QED
  BY <1>1, <1>2, <1>3, <1>4

\* A finished instance joins the pool.
LEMMA TransitionToPoolType ==
  ASSUME TypeOK, NEW t \in Threads, TransitionToPool(t)
  PROVE  TypeOK'
<1> USE DEF TypeOK
<1>0. frame[t] \in Frame
  BY DEF CallsTypeOK
<1>a. PICK i \in frame[t].todo :
        /\ Recorded(i) /\ MarkWarm(i)
        /\ warm_instances' = Append(warm_instances, i)
        /\ TransitionRound(t, i, frame[t].rids, frame[t].pool \cup {i}, TRUE)
  BY DEF TransitionToPool
<1>b. i \in Instances
  BY <1>0, <1>a DEF Frame
<1>1. ModeTypeOK'
  BY <1>a, <1>b DEF ModeTypeOK, AwsTypeOK, modeVars, awsVars, TransitionToPool
<1>2. BooksTypeOK'
  BY <1>a, <1>b, MarkWarmType
<1>3. CallsTypeOK' /\ SubmitOK'
  <2>1. frame[t].rids \subseteq Instances
        /\ frame[t].pool \cup {i} \subseteq Instances
    BY <1>0, <1>b DEF Frame
  <2> QED
    BY <1>a, <2>1, TransitionRoundType
<1>4. reported' \in [Jobs -> Status \cup {"none"}] /\ cancelled' \in SUBSET Jobs
  BY DEF TransitionToPool
<1> QED
  BY <1>1, <1>2, <1>3, <1>4

\* A finished instance displaces the oldest of the pool.
LEMMA TransitionEvictingType ==
  ASSUME TypeOK, NEW t \in Threads, TransitionEvicting(t)
  PROVE  TypeOK'
<1> USE DEF TypeOK
<1>0. frame[t] \in Frame
  BY DEF CallsTypeOK
<1>a. PICK i \in frame[t].todo, oldest \in frame[t].pool :
        /\ Recorded(i) /\ MarkWarm(i)
        /\ warm_instances' = Append(Unlisted(warm_instances, oldest), i)
        /\ TransitionRound(t, i, frame[t].rids \cup {oldest},
                           (frame[t].pool \ {oldest}) \cup {i}, TRUE)
  BY DEF TransitionEvicting
<1>b. i \in Instances /\ oldest \in Instances
  BY <1>0, <1>a DEF Frame
<1>c. Unlisted(warm_instances, oldest) \in Seq(Instances)
  BY UnlistedType DEF ModeTypeOK
<1>1. ModeTypeOK'
  BY <1>a, <1>b, <1>c DEF ModeTypeOK, AwsTypeOK, modeVars, awsVars,
     TransitionEvicting
<1>2. BooksTypeOK'
  BY <1>a, <1>b, MarkWarmType
<1>3. CallsTypeOK' /\ SubmitOK'
  <2>1. frame[t].rids \cup {oldest} \subseteq Instances
        /\ (frame[t].pool \ {oldest}) \cup {i} \subseteq Instances
    BY <1>0, <1>b DEF Frame
  <2> QED
    BY <1>a, <2>1, TransitionRoundType
<1>4. reported' \in [Jobs -> Status \cup {"none"}] /\ cancelled' \in SUBSET Jobs
  BY DEF TransitionEvicting
<1> QED
  BY <1>1, <1>2, <1>3, <1>4

\* A doomed instance leaves the reuse list.
LEMMA UnlistType ==
  ASSUME TypeOK, NEW t \in Threads, Unlist(t)
  PROVE  TypeOK'
<1> USE DEF TypeOK
<1>0. frame[t] \in Frame
  BY DEF CallsTypeOK
<1>a. PICK i \in frame[t].todo :
        LET rest == frame[t].todo \ {i} IN
        /\ warm_instances' = IF resources[i].status = "WARM"
                               THEN Unlisted(warm_instances, i) ELSE warm_instances
        /\ frame' = [frame EXCEPT ![t].todo = rest]
        /\ lock' = IF rest = {} THEN NoThread ELSE t
        /\ Goto(t, IF rest = {} THEN "terminate" ELSE "unlist")
  BY DEF Unlist
<1>c. warm_instances' \in Seq(Instances)
  BY <1>a, UnlistedType DEF ModeTypeOK
<1>1. ModeTypeOK'
  BY <1>c DEF ModeTypeOK, AwsTypeOK, modeVars, awsVars, Unlist
<1>2. BooksTypeOK'
  BY DEF BooksTypeOK, provVars, Unlist
<1>3. CallsTypeOK' /\ SubmitOK'
  <2> DEFINE rest == frame[t].todo \ {i}
             f == [frame[t] EXCEPT !.todo = rest]
             step == IF rest = {} THEN "terminate" ELSE "unlist"
  <2>0. rest \in SUBSET Instances
    BY <1>0 DEF Frame
  <2>1. f \in Frame
    BY <1>0, <2>0, FrameWith
  <2>2. step \in Steps /\ step \notin SubmitSteps
    BY DEF Steps, SubmitSteps, CleanupSteps
  <2>3. pc' = [pc EXCEPT ![t] = step] /\ frame' = [frame EXCEPT ![t] = f]
        /\ lock' \in Threads \cup {NoThread}
    BY <1>a DEF Goto
  <2> QED
    BY <2>1, <2>2, <2>3, CallStep
<1>4. reported' \in [Jobs -> Status \cup {"none"}] /\ cancelled' \in SUBSET Jobs
  BY DEF Unlist
<1> QED
  BY <1>1, <1>2, <1>3, <1>4

\* The doomed instances are terminated.
LEMMA TerminateDoomedType ==
  ASSUME TypeOK, NEW t \in Threads, TerminateDoomed(t)
  PROVE  TypeOK'
<1> USE DEF TypeOK
<1>0. frame[t] \in Frame /\ frame[t].rids \subseteq Instances
      /\ frame[t].todo \subseteq Instances
  BY DEF CallsTypeOK, Frame
<1>1. ModeTypeOK'
  BY <1>0, CleanupResourcesType DEF TerminateDoomed
<1>2. BooksTypeOK'
  BY DEF BooksTypeOK, provVars, TerminateDoomed
<1>3. CallsTypeOK' /\ SubmitOK'
  <2> DEFINE f == frame[t]
  <2>1. f \in Frame
    BY <1>0
  <2>2. pc' = [pc EXCEPT ![t] = "forget"] /\ frame' = [frame EXCEPT ![t] = f]
        /\ lock' \in Threads \cup {NoThread}
    BY DEF CallsTypeOK, TerminateDoomed, Goto
  <2>3. "forget" \in Steps \ SubmitSteps
    BY DEF Steps, SubmitSteps, CleanupSteps
  <2> QED
    BY <2>1, <2>2, <2>3, CallStep
<1>4. reported' \in [Jobs -> Status \cup {"none"}] /\ cancelled' \in SUBSET Jobs
  BY DEF TerminateDoomed
<1> QED
  BY <1>1, <1>2, <1>3, <1>4

\* Their records and jobs are deleted.
LEMMA ForgetType ==
  ASSUME TypeOK, NEW t \in Threads, Forget(t)
  PROVE  TypeOK'
<1> USE DEF TypeOK
<1>1. ModeTypeOK'
  BY DEF ModeTypeOK, AwsTypeOK, modeVars, awsVars, Forget
<1>2. BooksTypeOK'
  BY Constants, ProviderAssumption DEF BooksTypeOK, provVars, Forget
<1>3. CallsTypeOK' /\ SubmitOK'
  <2> DEFINE f == [frame[t] EXCEPT !.state = Snapshot]
  <2>0. frame[t] \in Frame
    BY DEF CallsTypeOK
  <2>1. f \in Frame
    BY <1>2, <2>0, FrameWith, SnapshotType
  <2>2. pc' = [pc EXCEPT ![t] = "save_pass"] /\ frame' = [frame EXCEPT ![t] = f]
        /\ lock' \in Threads \cup {NoThread}
    BY DEF CallsTypeOK, Forget, Locked, Goto
  <2>3. "save_pass" \in Steps \ SubmitSteps
    BY DEF Steps, SubmitSteps, CleanupSteps
  <2> QED
    BY <2>1, <2>2, <2>3, CallStep
<1>4. reported' \in [Jobs -> Status \cup {"none"}] /\ cancelled' \in SUBSET Jobs
  BY DEF Forget
<1> QED
  BY <1>1, <1>2, <1>3, <1>4

\* The pass saves the provider's document.
LEMMA SavePassType ==
  ASSUME TypeOK, NEW t \in Threads, SavePass(t)
  PROVE  TypeOK'
<1> USE DEF TypeOK
<1>0. frame[t] \in Frame /\ frame[t].state \in ProviderDocument
  BY DEF CallsTypeOK, Frame
<1>1. ModeTypeOK'
  BY DEF SavePass, ModeTypeOK, AwsTypeOK, modeVars, awsVars
<1>2. BooksTypeOK'
  BY <1>0 DEF BooksTypeOK, provVars, SavePass, WriteState
<1>3. CallsTypeOK' /\ SubmitOK'
  <2>1. pc' = [pc EXCEPT ![t] = "save_mode"]
        /\ frame' = [frame EXCEPT ![t] = frame[t]]
        /\ lock' \in Threads \cup {NoThread}
    BY DEF CallsTypeOK, SavePass, Goto
  <2>2. "save_mode" \in Steps \ SubmitSteps
    BY DEF Steps, SubmitSteps, CleanupSteps
  <2> QED
    BY <1>0, <2>1, <2>2, CallStep
<1>4. reported' \in [Jobs -> Status \cup {"none"}] /\ cancelled' \in SUBSET Jobs
  BY DEF SavePass
<1> QED
  BY <1>1, <1>2, <1>3, <1>4

\* The pass saves the mode's document.
LEMMA SavePassModeType ==
  ASSUME TypeOK, NEW t \in Threads, SavePassMode(t)
  PROVE  TypeOK'
<1> USE DEF TypeOK
<1>1. ModeTypeOK'
  BY SavedType DEF SavePassMode, ModeTypeOK, AwsTypeOK, awsVars
<1>2. BooksTypeOK'
  BY DEF BooksTypeOK, provVars, SavePassMode
<1>3. CallsTypeOK' /\ SubmitOK'
  <2>0. frame[t] \in Frame
    BY DEF CallsTypeOK
  <2>1. ASSUME NEW f \in Frame, NEW step \in {"finish", "idle"},
               pc' = [pc EXCEPT ![t] = step], frame' = [frame EXCEPT ![t] = f]
        PROVE  CallsTypeOK' /\ SubmitOK'
    <3>1. step \in Steps /\ step \notin SubmitSteps
      BY <2>1 DEF Steps, SubmitSteps, StatusSteps, CancelSteps, CleanupSteps,
         ShutdownSteps
    <3>2. lock' \in Threads \cup {NoThread}
      BY DEF CallsTypeOK, SavePassMode
    <3> QED
      BY <2>1, <3>1, <3>2, CallStep
  <2>2. \/ pc' = [pc EXCEPT ![t] = "finish"]
           /\ frame' = [frame EXCEPT ![t] = [NoFrame EXCEPT !.method = frame[t].method]]
        \/ pc' = [pc EXCEPT ![t] = "idle"]
           /\ frame' = [frame EXCEPT ![t] = NoFrame]
    BY DEF SavePassMode, Goto, Return
  <2> QED
    BY <2>0, <2>1, <2>2, FrameWith, NoFrameType
<1>4. reported' \in [Jobs -> Status \cup {"none"}] /\ cancelled' \in SUBSET Jobs
  BY DEF SavePassMode
<1> QED
  BY <1>1, <1>2, <1>3, <1>4

\* cancel() copies the state it saves last.
LEMMA FinishType ==
  ASSUME TypeOK, NEW t \in Threads, Finish(t)
  PROVE  TypeOK'
<1> USE DEF TypeOK
<1>1. ModeTypeOK'
  BY DEF ModeTypeOK, AwsTypeOK, modeVars, awsVars, Finish
<1>2. BooksTypeOK'
  BY DEF BooksTypeOK, provVars, Finish
<1>3. CallsTypeOK' /\ SubmitOK'
  <2> DEFINE f == [NoFrame EXCEPT !.method = frame[t].method, !.state = Snapshot]
  <2>0. frame[t] \in Frame
    BY DEF CallsTypeOK
  <2>1. f \in Frame
    BY <1>2, <2>0, FrameWith, SnapshotType
  <2>2. pc' = [pc EXCEPT ![t] = "save_cancel"] /\ frame' = [frame EXCEPT ![t] = f]
        /\ lock' \in Threads \cup {NoThread}
    BY DEF CallsTypeOK, Finish, Locked, Goto
  <2>3. "save_cancel" \in Steps \ SubmitSteps
    BY DEF Steps, SubmitSteps, CleanupSteps
  <2> QED
    BY <2>1, <2>2, <2>3, CallStep
<1>4. reported' \in [Jobs -> Status \cup {"none"}] /\ cancelled' \in SUBSET Jobs
  BY DEF Finish
<1> QED
  BY <1>1, <1>2, <1>3, <1>4

\* cancel() saves.
LEMMA SaveCancelType ==
  ASSUME TypeOK, NEW t \in Threads, SaveCancel(t)
  PROVE  TypeOK'
<1> USE DEF TypeOK
<1>0. frame[t].state \in ProviderDocument
  BY DEF CallsTypeOK, Frame
<1>1. ModeTypeOK'
  BY DEF ModeTypeOK, AwsTypeOK, modeVars, awsVars, SaveCancel
<1>2. BooksTypeOK'
  BY <1>0 DEF BooksTypeOK, provVars, SaveCancel, WriteState
<1>3. CallsTypeOK' /\ SubmitOK'
  <2>0. frame[t] \in Frame
    BY DEF CallsTypeOK
  <2>1. ASSUME NEW f \in Frame, NEW step \in {"infrastructure", "idle"},
               pc' = [pc EXCEPT ![t] = step], frame' = [frame EXCEPT ![t] = f]
        PROVE  CallsTypeOK' /\ SubmitOK'
    <3>1. step \in Steps /\ step \notin SubmitSteps
      BY <2>1 DEF Steps, SubmitSteps, StatusSteps, CancelSteps, CleanupSteps,
         ShutdownSteps
    <3>2. lock' \in Threads \cup {NoThread}
      BY DEF CallsTypeOK, SaveCancel
    <3> QED
      BY <2>1, <3>1, <3>2, CallStep
  <2>2. \/ pc' = [pc EXCEPT ![t] = "infrastructure"]
           /\ frame' = [frame EXCEPT ![t] = [NoFrame EXCEPT !.method = "shutdown"]]
        \/ pc' = [pc EXCEPT ![t] = "idle"]
           /\ frame' = [frame EXCEPT ![t] = NoFrame]
    BY DEF SaveCancel, Goto, Return
  <2>3. [NoFrame EXCEPT !.method = "shutdown"] \in Frame
    BY NoFrameType DEF Frame, Methods
  <2> QED
    BY <2>0, <2>1, <2>2, <2>3, NoFrameType
<1>4. reported' \in [Jobs -> Status \cup {"none"}] /\ cancelled' \in SUBSET Jobs
  BY DEF SaveCancel
<1> QED
  BY <1>1, <1>2, <1>3, <1>4

\* shutdown() starts to cancel every job.
LEMMA ShutdownType ==
  ASSUME TypeOK, NEW t \in Threads, Shutdown(t)
  PROVE  TypeOK'
<1> USE DEF TypeOK
<1>1. ModeTypeOK'
  BY DEF ModeTypeOK, AwsTypeOK, modeVars, awsVars, Shutdown
<1>2. BooksTypeOK'
  BY DEF BooksTypeOK, provVars, Shutdown
<1>3. CallsTypeOK' /\ SubmitOK'
  <2> DEFINE J == {j \in Jobs : Mapped(j)}
  <2>1. CASE Collect(t, "shutdown", J)
    <3> DEFINE rids == {job_map[j].rid : j \in {j \in J : Mapped(j)}}
    <3> DEFINE f == [NoFrame EXCEPT !.method = "shutdown", !.jobs = J, !.rids = rids]
    <3>0. rids \subseteq Instances
      BY DEF BooksTypeOK, JobEntry, NoEntry, Mapped
    <3>1. f \in Frame
      BY <3>0, NoFrameType DEF Frame, Methods
    <3>2. pc' = [pc EXCEPT ![t] = "cancel_call"]
          /\ frame' = [frame EXCEPT ![t] = f]
          /\ lock' \in Threads \cup {NoThread}
      BY <2>1 DEF CallsTypeOK, Shutdown, Locked, Collect, Goto
    <3>3. "cancel_call" \in Steps \ SubmitSteps
      BY DEF Steps, SubmitSteps, CancelSteps
    <3> QED
      BY <3>1, <3>2, <3>3, CallStep
  <2>2. CASE Goto(t, "infrastructure")
             /\ frame' = [frame EXCEPT ![t] = [NoFrame EXCEPT !.method = "shutdown"]]
    <3> DEFINE f == [NoFrame EXCEPT !.method = "shutdown"]
    <3>1. f \in Frame
      BY NoFrameType DEF Frame, Methods
    <3>2. pc' = [pc EXCEPT ![t] = "infrastructure"]
          /\ frame' = [frame EXCEPT ![t] = f]
          /\ lock' \in Threads \cup {NoThread}
      BY <2>2 DEF CallsTypeOK, Shutdown, Locked, Goto
    <3>3. "infrastructure" \in Steps \ SubmitSteps
      BY DEF Steps, SubmitSteps, ShutdownSteps
    <3> QED
      BY <3>1, <3>2, <3>3, CallStep
  <2> QED
    BY <2>1, <2>2 DEF Shutdown
<1>4. reported' \in [Jobs -> Status \cup {"none"}] /\ cancelled' \in SUBSET Jobs
  BY DEF Shutdown, Collect
<1> QED
  BY <1>1, <1>2, <1>3, <1>4

\* cleanup_infrastructure() terminates what is tracked.
LEMMA InfrastructureType ==
  ASSUME TypeOK, NEW t \in Threads, Infrastructure(t)
  PROVE  TypeOK'
<1> USE DEF TypeOK
<1>1. ModeTypeOK'
  BY CleanupResourcesType DEF Infrastructure, CleanupAll
<1>2. BooksTypeOK'
  BY DEF BooksTypeOK, provVars, Infrastructure
<1>3. CallsTypeOK' /\ SubmitOK'
  <2> DEFINE f == frame[t]
  <2>1. f \in Frame
    BY DEF CallsTypeOK
  <2>2. pc' = [pc EXCEPT ![t] = "deinitialize"]
        /\ frame' = [frame EXCEPT ![t] = f]
        /\ lock' \in Threads \cup {NoThread}
    BY DEF CallsTypeOK, Infrastructure, Goto
  <2>3. "deinitialize" \in Steps \ SubmitSteps
    BY DEF Steps, SubmitSteps, ShutdownSteps
  <2> QED
    BY <2>1, <2>2, <2>3, CallStep
<1>4. reported' \in [Jobs -> Status \cup {"none"}] /\ cancelled' \in SUBSET Jobs
  BY DEF Infrastructure
<1> QED
  BY <1>1, <1>2, <1>3, <1>4

\* cleanup_infrastructure() ends.
LEMMA DeinitializeType ==
  ASSUME TypeOK, NEW t \in Threads, Deinitialize(t)
  PROVE  TypeOK'
<1> USE DEF TypeOK
<1>1. ModeTypeOK'
  BY FinishInfrastructureType DEF Deinitialize
<1>2. BooksTypeOK'
  BY DEF BooksTypeOK, provVars, Deinitialize
<1>3. CallsTypeOK' /\ SubmitOK'
  <2> DEFINE f == frame[t]
  <2>1. f \in Frame
    BY DEF CallsTypeOK
  <2>2. pc' = [pc EXCEPT ![t] = "clear"] /\ frame' = [frame EXCEPT ![t] = f]
        /\ lock' \in Threads \cup {NoThread}
    BY DEF CallsTypeOK, Deinitialize, Goto
  <2>3. "clear" \in Steps \ SubmitSteps
    BY DEF Steps, SubmitSteps, ShutdownSteps
  <2> QED
    BY <2>1, <2>2, <2>3, CallStep
<1>4. reported' \in [Jobs -> Status \cup {"none"}] /\ cancelled' \in SUBSET Jobs
  BY DEF Deinitialize
<1> QED
  BY <1>1, <1>2, <1>3, <1>4

\* shutdown() clears memory and deletes the provider's document ...
LEMMA ClearType ==
  ASSUME TypeOK, NEW t \in Threads, Clear(t)
  PROVE  TypeOK'
<1> USE DEF TypeOK
<1>1. ModeTypeOK'
  BY DEF ModeTypeOK, AwsTypeOK, modeVars, awsVars, Clear
<1>2. BooksTypeOK'
  BY Constants DEF BooksTypeOK, Clear
<1>3. CallsTypeOK' /\ SubmitOK'
  <2> DEFINE f == frame[t]
  <2>1. f \in Frame
    BY DEF CallsTypeOK
  <2>2. pc' = [pc EXCEPT ![t] = "erase"] /\ frame' = [frame EXCEPT ![t] = f]
        /\ lock' \in Threads \cup {NoThread}
    BY DEF CallsTypeOK, Clear, Locked, Goto
  <2>3. "erase" \in Steps \ SubmitSteps
    BY DEF Steps, SubmitSteps, ShutdownSteps
  <2> QED
    BY <2>1, <2>2, <2>3, CallStep
<1>4. reported' \in [Jobs -> Status \cup {"none"}] /\ cancelled' \in SUBSET Jobs
  BY DEF Clear
<1> QED
  BY <1>1, <1>2, <1>3, <1>4

\* ... and then the mode's.
LEMMA EraseType ==
  ASSUME TypeOK, NEW t \in Threads, Erase(t)
  PROVE  TypeOK'
<1> USE DEF TypeOK
<1>1. ModeTypeOK'
  BY ModeConstants DEF ModeTypeOK, AwsTypeOK, awsVars, Erase, ModeDocument
<1>2. BooksTypeOK'
  BY DEF BooksTypeOK, provVars, Erase
<1>3. CallsTypeOK' /\ SubmitOK'
  <2>1. NoFrame \in Frame
    BY NoFrameType
  <2>2. pc' = [pc EXCEPT ![t] = "idle"] /\ frame' = [frame EXCEPT ![t] = NoFrame]
        /\ lock' \in Threads \cup {NoThread}
    BY DEF CallsTypeOK, Erase, Return, Goto
  <2>3. "idle" \in Steps \ SubmitSteps
    BY DEF Steps, SubmitSteps
  <2> QED
    BY <2>1, <2>2, <2>3, CallStep
<1>4. reported' \in [Jobs -> Status \cup {"none"}] /\ cancelled' \in SUBSET Jobs
  BY DEF Erase
<1> QED
  BY <1>1, <1>2, <1>3, <1>4

\* Time passes.
LEMMA TickType ==
  ASSUME TypeOK, Tick
  PROVE  TypeOK'
<1> USE DEF TypeOK
<1>1. warm_age' \in [Instances -> 0 .. WarmPoolTtl + 1]
  BY ProviderAssumption DEF BooksTypeOK, Tick
<1> QED
  BY <1>1 DEF ModeTypeOK, AwsTypeOK, BooksTypeOK, CallsTypeOK, SubmitOK, Tick,
     modeVars, awsVars, callVars

\* Commands, AWS and the monitor.
LEMMA EnvironmentType ==
  ASSUME TypeOK, Environment
  PROVE  TypeOK'
<1> USE DEF TypeOK
<1>1. ModeTypeOK'
  BY EnvironmentModeType DEF Environment
<1>2. BooksTypeOK' /\ CallsTypeOK' /\ SubmitOK'
  BY DEF BooksTypeOK, CallsTypeOK, SubmitOK, Environment, provVars, callVars
<1> QED
  BY <1>1, <1>2 DEF Environment

\* A successor process starts from the store.
LEMMA RestartType ==
  ASSUME TypeOK, Restart
  PROVE  TypeOK'
<1> USE DEF TypeOK
<1>1. ModeTypeOK'
  BY LoadModeType, FaultType DEF ModeTypeOK, Restart
<1>2. BooksTypeOK'
  BY DEF BooksTypeOK, Restart, ProviderDocument
<1>3. CallsTypeOK' /\ SubmitOK'
  BY NoFrameType DEF CallsTypeOK, SubmitOK, Restart, Steps, SubmitSteps
<1> QED
  BY <1>1, <1>2, <1>3 DEF Restart

\* Init establishes TypeOK.
LEMMA InitType == Init => TypeOK
<1> SUFFICES ASSUME Init PROVE TypeOK
  OBVIOUS
<1>1. ModeTypeOK
  BY ModeConstants DEF Init, ModeInit, ModeTypeOK, AwsTypeOK, ModeDocument
<1>2. BooksTypeOK
  BY Constants, ProviderAssumption DEF Init, BooksTypeOK
<1>3. CallsTypeOK /\ SubmitOK
  BY NoFrameType DEF Init, CallsTypeOK, SubmitOK, Steps, SubmitSteps
<1> QED
  BY <1>1, <1>2, <1>3 DEF Init, TypeOK

-----------------------------------------------------------------------------
(* The theorem.                                                            *)

\* Every step of the provider keeps TypeOK.
LEMMA TypeStep ==
  ASSUME TypeOK, [Next]_vars
  PROVE  TypeOK'
<1>1. ASSUME NEW t \in Threads, SubmitStep(t)
      PROVE  TypeOK'
  BY <1>1, SubmitUninitializedType, TakeWarmType, TakeColdType,
     DispatchWarmType, TrackWarmType, CreateType, WaitRunningType, DeliverType,
     TrackColdType, RecordJobType, SaveJobType DEF SubmitStep
<1>2. ASSUME NEW t \in Threads, StatusStep(t)
      PROVE  TypeOK'
  BY <1>2, GroupType, PollSsmType, PollEc2Type, PollRaisesType,
     StatusUpdateType, SaveStatusType DEF StatusStep
<1>3. ASSUME NEW t \in Threads, CancelStep(t)
      PROVE  TypeOK'
  BY <1>3, ScaleInCancelsType, CancelCallType, CancelUpdateType DEF CancelStep
<1>4. ASSUME NEW t \in Threads, CleanupStep(t)
      PROVE  TypeOK'
  BY <1>4, ScanType, PoolSnapshotType, TransitionSkippedType,
     TransitionToPoolType, TransitionEvictingType, UnlistType,
     TerminateDoomedType, ForgetType, SavePassType, SavePassModeType, FinishType,
     SaveCancelType
     DEF CleanupStep
<1>5. ASSUME NEW t \in Threads, ShutdownStep(t)
      PROVE  TypeOK'
  BY <1>5, InfrastructureType, DeinitializeType, ClearType, EraseType DEF ShutdownStep
<1>6. ASSUME NEW t \in Threads, Call(t)
      PROVE  TypeOK'
  BY <1>6, SubmitType, StatusBeginType, CancelType, ScaleInType, ShutdownType
     DEF Call
<1>7. CASE UNCHANGED vars
  BY <1>7 DEF vars, modeVars, awsVars, provVars, callVars, TypeOK, ModeTypeOK,
              AwsTypeOK, BooksTypeOK, CallsTypeOK, SubmitOK
<1> QED
  BY <1>1, <1>2, <1>3, <1>4, <1>5, <1>6, <1>7, TickType, EnvironmentType,
     RestartType DEF Next, Continue, Rest

\* Every reachable state of the provider is well-typed: in particular every
\* entry of job_map names an instance and a status, every record of
\* resources names a job, and a submit() about to record a job has its
\* instance.
THEOREM TypeCorrect == Spec => []TypeOK
<1>1. Init => TypeOK
  BY InitType
<1>2. TypeOK /\ [Next]_vars => TypeOK'
  BY TypeStep
<1> QED
  BY <1>1, <1>2, PTL DEF Spec

=============================================================================
