--------------------------- MODULE TrackingProofs ---------------------------
(***************************************************************************)
(* No interleaving of calls makes the provider lose a running instance.    *)
(*                                                                         *)
(* LiveInstanceTracked is not inductive: a terminate_instances() that      *)
(* names an instance EC2 has forgotten fails as a whole, and               *)
(* cleanup_resources() then drops the records of all of them.              *)
(* NoLostInstance adds that EC2 forgets none.  A step keeps it in two      *)
(* parts: the mode makes no running instance an orphan (NoNewOrphan), and  *)
(* no thread gives up waiting for the instance it launched (StillWaiting). *)
(*                                                                         *)
(* Then, for one caller, the stored document follows job_map through       *)
(* crashes (StoreFollows); the invariant Base that CallsProofs rests on;   *)
(* and, for one caller and no reuse, what a successor process finds after  *)
(* any number of crashes (Adoptable, SuccessorAdopts).                     *)
(***************************************************************************)
EXTENDS ProviderProofs

\* LiveInstanceTracked with what makes it inductive: every instance can be
\* named in a call.
NoLostInstance == LiveInstanceTracked /\ \A i \in Instances : ec2[i] # "gone"

\* The faults that cost the mode a running instance do not occur: a wait that
\* fails after the launch, a crash between two saves, an instance EC2 forgets,
\* and a _force_terminate() that fails after a refused dispatch.
FaultsKeepTrack ==
  /\ "wait" \notin Faults /\ "forget" \notin Faults /\ "crash" \notin Faults
  /\ "dispatch" \in Faults => "terminate" \notin Faults

\* A step after which a running instance without a record was one before.
NoNewOrphan ==
  \A i \in Instances :
    /\ ec2'[i] # "gone"
    /\ ec2'[i] = "running" /\ ~Tracked(i)' => ec2[i] = "running" /\ ~Tracked(i)

\* A step during which whoever waits for an instance goes on waiting for it.
StillWaiting ==
  \A t \in Threads : pc[t] = "wait" => pc'[t] = "wait" /\ frame'[t].rid = frame[t].rid

\* The two parts together.
LEMMA TrackingKept ==
  ASSUME NoLostInstance, NoNewOrphan, StillWaiting
  PROVE  NoLostInstance'
BY DEF NoLostInstance, LiveInstanceTracked, Running, NoNewOrphan, StillWaiting

-----------------------------------------------------------------------------
(* What the mode does.                                                     *)

\* A command sent or refused launches nothing.
LEMMA SendCommandKeeps ==
  ASSUME ModeTypeOK, NoLostInstance, FaultsKeepTrack,
         NEW i \in Instances, NEW j \in Jobs, SendCommand(i, j), UNCHANGED modeVars
  PROVE  NoNewOrphan
BY ModeConstants DEF ModeTypeOK, AwsTypeOK, NoLostInstance, NoNewOrphan, Tracked,
   SendCommand, StartCommand, modeVars

\* The record stays, with another command.
LEMMA TrackCommandKeeps ==
  ASSUME ModeTypeOK, NoLostInstance, FaultsKeepTrack,
         NEW i \in Instances, NEW j \in Jobs, TrackCommand(i, j)
  PROVE  NoNewOrphan
BY ModeConstants DEF ModeTypeOK, AwsTypeOK, NoLostInstance, NoNewOrphan, Tracked,
   TrackCommand, awsVars, Absent

\* The instance whose record is dropped has been terminated.
LEMMA AbandonKeeps ==
  ASSUME ModeTypeOK, NoLostInstance, FaultsKeepTrack,
         NEW i \in Instances, Abandon(i),
         faults' > faults => "terminate" \notin Faults
  PROVE  NoNewOrphan
BY ModeConstants DEF ModeTypeOK, AwsTypeOK, NoLostInstance, NoNewOrphan, Tracked,
   Abandon, Terminate, Known

\* SSM's answers overwrite statuses, never with Absent.
LEMMA PollCommandsKeeps ==
  ASSUME ModeTypeOK, NoLostInstance, FaultsKeepTrack,
         NEW S \in SUBSET Instances, NEW answer \in [S -> Answers],
         PollCommands(S, answer)
  PROVE  NoNewOrphan
BY ModeConstants DEF ModeTypeOK, AwsTypeOK, NoLostInstance, NoNewOrphan, Tracked,
   PollCommands, WithAnswers, Answers

\* Neither do those of a poll that raises.
LEMMA PollCommandsRaisesKeeps ==
  ASSUME ModeTypeOK, NoLostInstance, FaultsKeepTrack,
         NEW S \in SUBSET Instances, NEW done \in SUBSET S,
         NEW answer \in [done -> Answers], PollCommandsRaises(S, done, answer)
  PROVE  NoNewOrphan
BY ModeConstants DEF ModeTypeOK, AwsTypeOK, NoLostInstance, NoNewOrphan, Tracked,
   PollCommandsRaises, WithAnswers, Answers

\* Neither do EC2's.
LEMMA PollInstancesKeeps ==
  ASSUME ModeTypeOK, NoLostInstance, FaultsKeepTrack,
         NEW S \in SUBSET Instances, NEW outcome \in PollOutcomes,
         PollInstances(S, outcome)
  PROVE  NoNewOrphan
BY ModeConstants DEF ModeTypeOK, AwsTypeOK, NoLostInstance, NoNewOrphan, Tracked,
   PollInstances, InstanceStatuses, InstanceStatus

\* cancel_jobs() keeps every record.
LEMMA CancelJobsKeeps ==
  ASSUME ModeTypeOK, NoLostInstance, FaultsKeepTrack,
         NEW S \in SUBSET Instances, NEW outcome \in CancelOutcomes,
         CancelJobs(S, outcome)
  PROVE  NoNewOrphan
BY ModeConstants DEF ModeTypeOK, AwsTypeOK, NoLostInstance, NoNewOrphan, Tracked,
   CancelJobs, CancelOutcomes, Terminate, Absent

\* cleanup_resources() drops records of terminated instances only.
LEMMA CleanupResourcesKeeps ==
  ASSUME ModeTypeOK, NoLostInstance, FaultsKeepTrack,
         NEW S \in SUBSET Instances, CleanupResources(S)
  PROVE  NoNewOrphan
BY ModeConstants DEF ModeTypeOK, AwsTypeOK, NoLostInstance, NoNewOrphan, Tracked,
   CleanupResources, Terminate, Known

\* The environment launches nothing and drops no record.
LEMMA EnvironmentKeeps ==
  ASSUME ModeTypeOK, NoLostInstance, FaultsKeepTrack, Environment
  PROVE  NoNewOrphan
<1> USE DEF ModeTypeOK, AwsTypeOK, NoLostInstance, NoNewOrphan, Tracked
<1>1. CASE \E j \in Jobs : FinishCommand(j) \/ ShutDownAfter(j)
  BY <1>1 DEF FinishCommand, ShutDownAfter, modeVars
<1>2. CASE \E i \in Instances : Reclaim(i)
  BY <1>2 DEF Reclaim, Terminate, modeVars
<1>3. CASE \E i \in Instances : ForgetInstance(i)
  BY <1>3 DEF ForgetInstance, Fault, FaultsKeepTrack
<1>4. CASE \E i \in Instances : HandleInstanceInterruption(i)
  BY <1>4 DEF HandleInstanceInterruption, Absent
<1> QED
  BY <1>1, <1>2, <1>3, <1>4 DEF Environment

-----------------------------------------------------------------------------
(* What the provider does.                                                 *)

\* A step of a thread that does not wait leaves those that do alone.
LEMMA OthersWait ==
  ASSUME CallsTypeOK, NEW t \in Threads, pc[t] # "wait", NEW step, NEW f,
         pc' = [pc EXCEPT ![t] = step],
         frame' = [frame EXCEPT ![t] = f] \/ UNCHANGED frame
  PROVE  StillWaiting
BY DEF CallsTypeOK, StillWaiting

\* ... in particular one that returns.
LEMMA OthersWaitAfterReturn ==
  ASSUME CallsTypeOK, NEW t \in Threads, pc[t] # "wait", Return(t)
  PROVE  StillWaiting
BY OthersWait DEF Return, Goto

\* ... or turns to the cleanup pass.
LEMMA OthersWaitAfterToCleanup ==
  ASSUME CallsTypeOK, NEW t \in Threads, pc[t] # "wait", ToCleanup(t)
  PROVE  StillWaiting
BY OthersWait, OthersWaitAfterReturn DEF ToCleanup, Goto

\* The record of the popped instance turns RUNNING.
LEMMA TakeWarmKeeps ==
  ASSUME TypeOK, NoLostInstance, FaultsKeepTrack, NEW t \in Threads, TakeWarm(t)
  PROVE  NoNewOrphan
<1> USE DEF TypeOK
<1>1. Head(warm_instances) \in Instances
  BY DEF ModeTypeOK, TakeWarm, GetWarmInstance
<1> QED
  BY <1>1 DEF ModeTypeOK, AwsTypeOK, NoLostInstance, NoNewOrphan, Tracked, TakeWarm,
          GetWarmInstance, awsVars, Absent

\* The warm path, accepted or refused.
LEMMA DispatchWarmKeeps ==
  ASSUME TypeOK, NoLostInstance, FaultsKeepTrack, NEW t \in Threads, DispatchWarm(t)
  PROVE  NoNewOrphan
<1> USE DEF TypeOK
<1>1. frame[t].rid \in Instances /\ frame[t].job \in Jobs
  BY DEF SubmitOK, SubmitSteps, DispatchWarm
<1> QED
  BY <1>1, SendCommandKeeps
     DEF DispatchWarm, NoNewOrphan, NoLostInstance, Tracked, modeVars

\* The record of the reused instance.
LEMMA TrackWarmKeeps ==
  ASSUME TypeOK, NoLostInstance, FaultsKeepTrack, NEW t \in Threads, TrackWarm(t)
  PROVE  NoNewOrphan
<1> USE DEF TypeOK
<1>1. frame[t].rid \in Instances /\ frame[t].job \in Jobs
  BY DEF SubmitOK, SubmitSteps, TrackWarm
<1> QED
  BY <1>1, TrackCommandKeeps
     DEF TrackWarm, NoNewOrphan, NoLostInstance, Tracked, modeVars, awsVars

\* The cold path over SSM, accepted or refused.
LEMMA DeliverKeeps ==
  ASSUME TypeOK, NoLostInstance, FaultsKeepTrack, NEW t \in Threads, Deliver(t)
  PROVE  NoNewOrphan
<1> USE DEF TypeOK
<1>1. frame[t].rid \in Instances /\ frame[t].job \in Jobs
  BY DEF SubmitOK, SubmitSteps, Deliver
<1>2. CASE SendCommand(frame[t].rid, frame[t].job) /\ UNCHANGED modeVars
  BY <1>1, <1>2, SendCommandKeeps
<1>3. CASE SendCommandFails(frame[t].rid) /\ Abandon(frame[t].rid)
  <2>1. faults' > faults => "terminate" \notin Faults
    BY <1>3 DEF SendCommandFails, NoFault, Fault, FaultsKeepTrack, ModeTypeOK, AwsTypeOK
  <2> QED
    BY <1>1, <1>3, <2>1, AbandonKeeps
<1> QED
  BY <1>2, <1>3 DEF Deliver

\* The record of the new instance.
LEMMA TrackColdKeeps ==
  ASSUME TypeOK, NoLostInstance, FaultsKeepTrack, NEW t \in Threads, TrackCold(t)
  PROVE  NoNewOrphan
<1> USE DEF TypeOK
<1>1. frame[t].rid \in Instances /\ frame[t].job \in Jobs
  BY DEF SubmitOK, SubmitSteps, TrackCold
<1>2. CASE TrackCommand(frame[t].rid, frame[t].job)
  BY <1>1, <1>2, TrackCommandKeeps
<1>3. CASE NoFault /\ Abandon(frame[t].rid)
  <2>1. ~(faults' > faults)
    BY <1>3 DEF NoFault, ModeTypeOK, AwsTypeOK
  <2> QED
    BY <1>1, <1>3, <2>1, AbandonKeeps
<1> QED
  BY <1>2, <1>3 DEF TrackCold

\* A poll over SSM.
LEMMA PollSsmKeeps ==
  ASSUME TypeOK, NoLostInstance, FaultsKeepTrack, NEW t \in Threads, PollSsm(t)
  PROVE  NoNewOrphan
<1> USE DEF TypeOK
<1>1. frame[t] \in Frame /\ frame[t].rids \subseteq Instances
      /\ frame[t].todo \subseteq Instances
  BY DEF CallsTypeOK, Frame
<1> QED
  BY <1>1, PollCommandsKeeps DEF PollSsm

\* A poll of EC2.
LEMMA PollEc2Keeps ==
  ASSUME TypeOK, NoLostInstance, FaultsKeepTrack, NEW t \in Threads, PollEc2(t)
  PROVE  NoNewOrphan
<1> USE DEF TypeOK
<1>1. frame[t] \in Frame /\ frame[t].rids \subseteq Instances
      /\ frame[t].todo \subseteq Instances
  BY DEF CallsTypeOK, Frame
<1> QED
  BY <1>1, PollInstancesKeeps DEF PollEc2

\* A poll that raises.
LEMMA PollRaisesKeeps ==
  ASSUME TypeOK, NoLostInstance, FaultsKeepTrack, NEW t \in Threads, PollRaises(t)
  PROVE  NoNewOrphan
<1> USE DEF TypeOK
<1>1. frame[t] \in Frame /\ frame[t].rids \subseteq Instances
      /\ frame[t].todo \subseteq Instances
  BY DEF CallsTypeOK, Frame
<1>2. PICK done \in SUBSET frame[t].todo :
        \E answer \in [done -> Answers] :
          PollCommandsRaises(frame[t].todo, done, answer)
  BY DEF PollRaises
<1> QED
  BY <1>1, <1>2, PollCommandsRaisesKeeps

\* The call cancel() makes.
LEMMA CancelCallKeeps ==
  ASSUME TypeOK, NoLostInstance, FaultsKeepTrack, NEW t \in Threads, CancelCall(t)
  PROVE  NoNewOrphan
<1> USE DEF TypeOK
<1>1. frame[t] \in Frame /\ frame[t].rids \subseteq Instances
      /\ frame[t].todo \subseteq Instances
  BY DEF CallsTypeOK, Frame
<1> QED
  BY <1>1, CancelJobsKeeps DEF CancelCall

\* The call a cleanup pass makes.
LEMMA TerminateDoomedKeeps ==
  ASSUME TypeOK, NoLostInstance, FaultsKeepTrack, NEW t \in Threads, TerminateDoomed(t)
  PROVE  NoNewOrphan
<1> USE DEF TypeOK
<1>1. frame[t] \in Frame /\ frame[t].rids \subseteq Instances
      /\ frame[t].todo \subseteq Instances
  BY DEF CallsTypeOK, Frame
<1> QED
  BY <1>1, CleanupResourcesKeeps DEF TerminateDoomed

\* The call cleanup_infrastructure() makes.
LEMMA InfrastructureKeeps ==
  ASSUME TypeOK, NoLostInstance, FaultsKeepTrack, NEW t \in Threads, Infrastructure(t)
  PROVE  NoNewOrphan
<1> USE DEF TypeOK
<1> QED
  BY CleanupResourcesKeeps DEF Infrastructure, CleanupAll

\* A launch: the new instance has no record yet, but its submit() waits for it.
LEMMA CreateTracks ==
  ASSUME TypeOK, NoLostInstance, FaultsKeepTrack, NEW t \in Threads, Create(t)
  PROVE  NoLostInstance'
<1> USE DEF TypeOK, CallsTypeOK
<1>1. pc[t] # "wait"
  BY DEF Create
<1>2. CASE RunInstanceFails /\ Return(t)
  <2>1. NoNewOrphan
    BY <1>2 DEF NoNewOrphan, NoLostInstance, Tracked, RunInstanceFails, modeVars
  <2> QED
    BY <1>1, <1>2, <2>1, OthersWaitAfterReturn, TrackingKept
<1>3. ASSUME NEW i \in Instances, RunInstance(i, frame[t].job),
             Goto(t, "wait"), frame' = [frame EXCEPT ![t].rid = i]
      PROVE  NoLostInstance'
  <2> DEFINE f == [frame[t] EXCEPT !.rid = i]
  <2>1. StillWaiting /\ pc'[t] = "wait"
    BY <1>1, <1>3, OthersWait DEF Goto
  <2>2. frame[t] \in Frame /\ frame'[t] = f
    BY <1>3
  <2>3. f.rid = i
    BY <2>2 DEF Frame
  <2>4. \A k \in Instances : ec2'[k] # "gone"
          /\ (ec2'[k] = "running" => k = i \/ ec2[k] = "running")
          /\ (Tracked(k) => Tracked(k)')
    BY <1>3 DEF RunInstance, ModeTypeOK, AwsTypeOK, NoLostInstance, Tracked, modeVars
  <2>5. ASSUME NEW k \in Instances, ec2'[k] = "running", ~Tracked(k)'
        PROVE  \E u \in Threads : pc'[u] = "wait" /\ frame'[u].rid = k
    <3>1. CASE k = i
      BY <2>1, <2>2, <2>3, <3>1
    <3>2. CASE k # i
      <4>1. ec2[k] = "running" /\ ~Tracked(k)
        BY <2>4, <2>5, <3>2
      <4>2. PICK u \in Threads : pc[u] = "wait" /\ frame[u].rid = k
        BY <4>1 DEF NoLostInstance, LiveInstanceTracked, Running
      <4> QED
        BY <2>1, <4>2 DEF StillWaiting
    <3> QED
      BY <3>1, <3>2
  <2> QED
    BY <2>4, <2>5 DEF NoLostInstance, LiveInstanceTracked, Running
<1> QED
  BY <1>2, <1>3 DEF Create

\* The end of the wait: the instance gets its record, or is not running.
LEMMA WaitRunningTracks ==
  ASSUME TypeOK, NoLostInstance, FaultsKeepTrack, NEW t \in Threads, WaitRunning(t)
  PROVE  NoLostInstance'
<1> USE DEF TypeOK
<1> DEFINE i == frame[t].rid
<1>1. i \in Instances
  BY DEF SubmitOK, SubmitSteps, WaitRunning
<1>2. \A u \in Threads \ {t} : pc'[u] = pc[u] /\ frame'[u] = frame[u]
  BY DEF CallsTypeOK, WaitRunning, Goto, Return
<1>3. /\ UNCHANGED ec2 /\ (ec2[i] = "running" => mode_resources'[i].status # Absent)
      /\ \A k \in Instances : Tracked(k) => Tracked(k)'
  <2>1. CASE TrackInstance(i)
    BY <1>1, <2>1 DEF TrackInstance, Tracked, ModeTypeOK, awsVars, Absent
  <2>2. CASE WaitFails(i)
    BY <2>2 DEF WaitFails, Fault, FaultsKeepTrack, Tracked, modeVars
  <2> QED
    BY <2>1, <2>2 DEF WaitRunning
<1>4. \A k \in Instances : k # i /\ ec2[k] = "running" /\ ~Tracked(k)
        => \E u \in Threads \ {t} : pc[u] = "wait" /\ frame[u].rid = k
  BY DEF NoLostInstance, LiveInstanceTracked, Running
<1> QED
  BY <1>1, <1>2, <1>3, <1>4 DEF NoLostInstance, LiveInstanceTracked, Running, Tracked

\* Every step keeps track of the running instances.
LEMMA TrackingStep ==
  ASSUME TypeOK, NoLostInstance, FaultsKeepTrack, [Next]_vars
  PROVE  NoLostInstance'
<1> USE DEF TypeOK
<1>0. ASSUME UNCHANGED <<mode_resources, ec2>>
      PROVE  NoNewOrphan
  BY <1>0 DEF NoLostInstance, NoNewOrphan, Tracked
<1>1. ASSUME NEW t \in Threads, SubmitStep(t), ~Create(t), ~WaitRunning(t)
      PROVE  NoLostInstance'
  <2>1. NoNewOrphan
    <3>1. CASE SubmitUninitialized(t) \/ TakeCold(t) \/ RecordJob(t) \/ SaveJob(t)
      BY <3>1, <1>0 DEF modeVars, awsVars, FinishInfrastructure, SubmitUninitialized, TakeCold, RecordJob, SaveJob
    <3> QED
      BY <1>1, <3>1, TakeWarmKeeps, DispatchWarmKeeps, TrackWarmKeeps, DeliverKeeps, TrackColdKeeps DEF SubmitStep
  <2>2. StillWaiting
    <3>1. CASE SubmitUninitialized(t)
      BY <3>1, OthersWait, OthersWaitAfterReturn, OthersWaitAfterToCleanup
         DEF SubmitUninitialized, Goto
    <3>2. CASE TakeCold(t)
      BY <3>2, OthersWait, OthersWaitAfterReturn, OthersWaitAfterToCleanup
         DEF TakeCold, Goto
    <3>3. CASE RecordJob(t)
      BY <3>3, OthersWait, OthersWaitAfterReturn, OthersWaitAfterToCleanup
         DEF RecordJob, Goto
    <3>4. CASE SaveJob(t)
      BY <3>4, OthersWait, OthersWaitAfterReturn, OthersWaitAfterToCleanup
         DEF SaveJob, Goto
    <3>5. CASE TakeWarm(t)
      BY <3>5, OthersWait, OthersWaitAfterReturn, OthersWaitAfterToCleanup
         DEF TakeWarm, Goto
    <3>6. CASE DispatchWarm(t)
      BY <3>6, OthersWait, OthersWaitAfterReturn, OthersWaitAfterToCleanup
         DEF DispatchWarm, Goto
    <3>7. CASE TrackWarm(t)
      BY <3>7, OthersWait, OthersWaitAfterReturn, OthersWaitAfterToCleanup
         DEF TrackWarm, Goto
    <3>8. CASE Deliver(t)
      BY <3>8, OthersWait, OthersWaitAfterReturn, OthersWaitAfterToCleanup
         DEF Deliver, Goto
    <3>9. CASE TrackCold(t)
      BY <3>9, OthersWait, OthersWaitAfterReturn, OthersWaitAfterToCleanup
         DEF TrackCold, Goto
    <3> QED
      BY <1>1, <3>1, <3>2, <3>3, <3>4, <3>5, <3>6, <3>7, <3>8, <3>9 DEF SubmitStep
  <2> QED
    BY <2>1, <2>2, TrackingKept
<1>2. ASSUME NEW t \in Threads, StatusStep(t)
      PROVE  NoLostInstance'
  <2>1. NoNewOrphan
    <3>1. CASE Group(t) \/ StatusUpdate(t) \/ SaveStatus(t)
      BY <3>1, <1>0 DEF modeVars, awsVars, FinishInfrastructure, Group, StatusUpdate, SaveStatus
    <3> QED
      BY <1>2, <3>1, PollSsmKeeps, PollEc2Keeps, PollRaisesKeeps DEF StatusStep
  <2>2. StillWaiting
    <3>1. CASE Group(t)
      BY <3>1, OthersWait, OthersWaitAfterReturn, OthersWaitAfterToCleanup
         DEF Group, Goto
    <3>2. CASE StatusUpdate(t)
      BY <3>2, OthersWait, OthersWaitAfterReturn, OthersWaitAfterToCleanup
         DEF StatusUpdate, Goto
    <3>3. CASE SaveStatus(t)
      BY <3>3, OthersWait, OthersWaitAfterReturn, OthersWaitAfterToCleanup
         DEF SaveStatus, Goto
    <3>4. CASE PollSsm(t)
      BY <3>4, OthersWait, OthersWaitAfterReturn, OthersWaitAfterToCleanup
         DEF PollSsm, Goto, Heard
    <3>5. CASE PollEc2(t)
      BY <3>5, OthersWait, OthersWaitAfterReturn, OthersWaitAfterToCleanup
         DEF PollEc2, Goto, Heard
    <3>6. CASE PollRaises(t)
      BY <3>6, OthersWait, OthersWaitAfterReturn, OthersWaitAfterToCleanup
         DEF PollRaises, Goto
    <3> QED
      BY <1>2, <3>1, <3>2, <3>3, <3>4, <3>5, <3>6 DEF StatusStep
  <2> QED
    BY <2>1, <2>2, TrackingKept
<1>3. ASSUME NEW t \in Threads, CancelStep(t)
      PROVE  NoLostInstance'
  <2>1. NoNewOrphan
    <3>1. CASE ScaleInCancels(t) \/ CancelUpdate(t)
      BY <3>1, <1>0 DEF modeVars, awsVars, FinishInfrastructure, ScaleInCancels, CancelUpdate
    <3> QED
      BY <1>3, <3>1, CancelCallKeeps DEF CancelStep
  <2>2. StillWaiting
    <3>1. CASE ScaleInCancels(t)
      BY <3>1, OthersWait, OthersWaitAfterReturn, OthersWaitAfterToCleanup
         DEF ScaleInCancels, Goto, Collect
    <3>2. CASE CancelUpdate(t)
      BY <3>2, OthersWait, OthersWaitAfterReturn, OthersWaitAfterToCleanup
         DEF CancelUpdate, Goto
    <3>3. CASE CancelCall(t)
      BY <3>3, OthersWait, OthersWaitAfterReturn, OthersWaitAfterToCleanup
         DEF CancelCall, Goto
    <3> QED
      BY <1>3, <3>1, <3>2, <3>3 DEF CancelStep
  <2> QED
    BY <2>1, <2>2, TrackingKept
<1>4. ASSUME NEW t \in Threads, CleanupStep(t)
      PROVE  NoLostInstance'
  <2>1. NoNewOrphan
    <3>1. CASE Scan(t) \/ PoolSnapshot(t) \/ TransitionSkipped(t) \/ TransitionToPool(t) \/ TransitionEvicting(t) \/ Unlist(t) \/ Forget(t) \/ SavePass(t) \/ SavePassMode(t) \/ Finish(t) \/ SaveCancel(t)
      BY <3>1, <1>0 DEF modeVars, awsVars, FinishInfrastructure, Scan, PoolSnapshot, TransitionSkipped, TransitionToPool, TransitionEvicting, Unlist, Forget, SavePass, SavePassMode, Finish, SaveCancel
    <3> QED
      BY <1>4, <3>1, TerminateDoomedKeeps DEF CleanupStep
  <2>2. StillWaiting
    <3>1. CASE Scan(t)
      BY <3>1, OthersWait, OthersWaitAfterReturn, OthersWaitAfterToCleanup
         DEF Scan, Goto
    <3>2. CASE PoolSnapshot(t)
      BY <3>2, OthersWait, OthersWaitAfterReturn, OthersWaitAfterToCleanup
         DEF PoolSnapshot, Goto
    <3>3. CASE TransitionSkipped(t)
      BY <3>3, OthersWait, OthersWaitAfterReturn, OthersWaitAfterToCleanup
         DEF TransitionSkipped, Goto, TransitionRound
    <3>4. CASE TransitionToPool(t)
      BY <3>4, OthersWait, OthersWaitAfterReturn, OthersWaitAfterToCleanup
         DEF TransitionToPool, Goto, TransitionRound
    <3>5. CASE TransitionEvicting(t)
      BY <3>5, OthersWait, OthersWaitAfterReturn, OthersWaitAfterToCleanup
         DEF TransitionEvicting, Goto, TransitionRound
    <3>6. CASE Unlist(t)
      BY <3>6, OthersWait, OthersWaitAfterReturn, OthersWaitAfterToCleanup
         DEF Unlist, Goto
    <3>7. CASE Forget(t)
      BY <3>7, OthersWait, OthersWaitAfterReturn, OthersWaitAfterToCleanup
         DEF Forget, Goto
    <3>8. CASE SavePass(t)
      BY <3>8, OthersWait, OthersWaitAfterReturn, OthersWaitAfterToCleanup
         DEF SavePass, Goto
    <3>9. CASE SavePassMode(t)
      BY <3>9, OthersWait, OthersWaitAfterReturn, OthersWaitAfterToCleanup
         DEF SavePassMode, Goto
    <3>10. CASE Finish(t)
      BY <3>10, OthersWait, OthersWaitAfterReturn, OthersWaitAfterToCleanup
         DEF Finish, Goto
    <3>11. CASE SaveCancel(t)
      BY <3>11, OthersWait, OthersWaitAfterReturn, OthersWaitAfterToCleanup
         DEF SaveCancel, Goto
    <3>12. CASE TerminateDoomed(t)
      BY <3>12, OthersWait, OthersWaitAfterReturn, OthersWaitAfterToCleanup
         DEF TerminateDoomed, Goto
    <3> QED
      BY <1>4, <3>1, <3>2, <3>3, <3>4, <3>5, <3>6, <3>7, <3>8, <3>9, <3>10, <3>11, <3>12 DEF CleanupStep
  <2> QED
    BY <2>1, <2>2, TrackingKept
<1>5. ASSUME NEW t \in Threads, ShutdownStep(t)
      PROVE  NoLostInstance'
  <2>1. NoNewOrphan
    <3>1. CASE Deinitialize(t) \/ Clear(t) \/ Erase(t)
      BY <3>1, <1>0 DEF modeVars, awsVars, FinishInfrastructure, Deinitialize, Clear, Erase
    <3> QED
      BY <1>5, <3>1, InfrastructureKeeps DEF ShutdownStep
  <2>2. StillWaiting
    <3>1. CASE Deinitialize(t)
      BY <3>1, OthersWait, OthersWaitAfterReturn, OthersWaitAfterToCleanup
         DEF Deinitialize, Goto
    <3>2. CASE Clear(t)
      BY <3>2, OthersWait, OthersWaitAfterReturn, OthersWaitAfterToCleanup
         DEF Clear, Goto
    <3>4. CASE Erase(t)
      BY <3>4, OthersWait, OthersWaitAfterReturn, OthersWaitAfterToCleanup
         DEF Erase, Goto
    <3>3. CASE Infrastructure(t)
      BY <3>3, OthersWait, OthersWaitAfterReturn, OthersWaitAfterToCleanup
         DEF Infrastructure, Goto
    <3> QED
      BY <1>5, <3>1, <3>2, <3>3, <3>4 DEF ShutdownStep
  <2> QED
    BY <2>1, <2>2, TrackingKept
<1>6. ASSUME NEW t \in Threads, Call(t)
      PROVE  NoLostInstance'
  <2>1. NoNewOrphan
    BY <1>6, <1>0 DEF modeVars, awsVars, Call, Submit, StatusBegin, Cancel, ScaleIn, Shutdown
  <2>2. StillWaiting
    <3>1. CASE \E j \in Jobs : Submit(t, j)
      BY <3>1, OthersWait DEF Submit, Goto, Begin
    <3>2. CASE StatusBegin(t)
      BY <3>2, OthersWait DEF StatusBegin, Goto, Begin
    <3>3. CASE \E J \in SUBSET Jobs : Cancel(t, J)
      BY <3>3, OthersWait DEF Cancel, Goto, Collect, Begin
    <3>4. CASE ScaleIn(t)
      BY <3>4, OthersWait DEF ScaleIn, Goto, Begin
    <3>5. CASE Shutdown(t)
      BY <3>5, OthersWait DEF Shutdown, Goto, Collect, Begin
    <3> QED
      BY <1>6, <3>1, <3>2, <3>3, <3>4, <3>5 DEF Call
  <2> QED
    BY <2>1, <2>2, TrackingKept
<1>7. ASSUME UNCHANGED callVars, NoNewOrphan
      PROVE  NoLostInstance'
  BY <1>7, TrackingKept DEF StillWaiting, callVars
<1>8. CASE Tick \/ UNCHANGED vars
  BY <1>8, <1>0, <1>7 DEF vars, Tick, modeVars, awsVars
<1>9. CASE Environment
  BY <1>9, <1>7, EnvironmentKeeps DEF Environment
<1>10. ~Restart
  BY DEF Restart, Fault, FaultsKeepTrack
<1>11. ASSUME NEW t \in Threads, Continue(t)
       PROVE  NoLostInstance'
  BY <1>11, <1>1, <1>2, <1>3, <1>4, <1>5, CreateTracks, WaitRunningTracks DEF Continue
<1> QED
  BY <1>6, <1>8, <1>9, <1>10, <1>11 DEF Next, Rest

-----------------------------------------------------------------------------
(* The theorem.                                                            *)

\* However many threads submit, poll, cancel, scale in and shut down at
\* once, and whatever launches, dispatches, polls and terminations fail on
\* the way, every running instance has a record in the mode, where the next
\* cleanup finds it, or a submit() that waits for it.  The excluded faults are
\* those of FaultsKeepTrack, and each of them is a real leak.
THEOREM InstancesTracked ==
  ASSUME FaultsKeepTrack
  PROVE  Spec => []LiveInstanceTracked
<1>1. Init => TypeOK /\ NoLostInstance
  <2>1. Init => NoLostInstance
    BY DEF Init, ModeInit, NoLostInstance, LiveInstanceTracked, Running
  <2> QED
    BY <2>1, InitType
<1>2. TypeOK /\ NoLostInstance /\ [Next]_vars => TypeOK' /\ NoLostInstance'
  BY TypeStep, TrackingStep
<1>3. NoLostInstance => LiveInstanceTracked
  BY DEF NoLostInstance
<1> QED
  BY <1>1, <1>2, <1>3, PTL DEF Spec

-----------------------------------------------------------------------------
(* One caller: the stored document leads every job to its instance.        *)

OneThread == \A t, u \in Threads : t = u

\* The steps at which a call holds a snapshot it is about to write.
Saves == {"save_job", "save_status", "save_pass", "save_cancel"}

\* A map that leads every job to the instance job_map leads it to.
LeadsAlike(map) == \A j \in Jobs : map[j].rid = job_map[j].rid

\* The snapshot about to be written, and else the stored document, leads every
\* job to its instance.
StoreFollows ==
  /\ \A t \in Threads : pc[t] \in Saves => LeadsAlike(frame[t].state.job_map)
  /\ (\A t \in Threads : pc[t] \notin Saves) => LeadsAlike(provider_store.job_map)

\* Between two saves nobody moves a job to another instance.
LEMMA StoreUntouched ==
  ASSUME StoreFollows, NEW t \in Threads, OneThread,
         pc[t] \notin Saves, pc'[t] \notin Saves,
         \A j \in Jobs : job_map'[j].rid = job_map[j].rid, UNCHANGED provider_store
  PROVE  StoreFollows'
BY DEF StoreFollows, LeadsAlike, OneThread

\* A snapshot is of the map as it has just become.
LEMMA SnapshotTaken ==
  ASSUME NEW t \in Threads, OneThread, pc'[t] \in Saves, NEW r,
         frame'[t].state = [present |-> TRUE, resources |-> r, job_map |-> job_map']
  PROVE  StoreFollows'
BY DEF StoreFollows, LeadsAlike, OneThread

\* What is written is what was copied.
LEMMA SnapshotWritten ==
  ASSUME StoreFollows, NEW t \in Threads, OneThread,
         pc[t] \in Saves, pc'[t] \notin Saves, WriteState(t), UNCHANGED job_map
  PROVE  StoreFollows'
BY DEF StoreFollows, LeadsAlike, OneThread, WriteState

\* WriteBack() changes statuses only.
LEMMA WriteBackLeads ==
  ASSUME BooksTypeOK, NEW J, NEW m, WriteBack(J, m)
  PROVE  (\A j \in Jobs : job_map'[j].rid = job_map[j].rid) /\ UNCHANGED provider_store
<1>1. \A j \in Jobs : job_map[j] \in JobEntry
  BY DEF BooksTypeOK
<1>2. \A e \in JobEntry : \A s : [e EXCEPT !.status = s].rid = e.rid
  BY DEF JobEntry, NoEntry
<1> QED
  BY <1>1, <1>2 DEF WriteBack

\* A step of submit().
LEMMA StoreSubmitStep ==
  ASSUME TypeOK, StoreFollows, OneThread, NEW t \in Threads, SubmitStep(t)
  PROVE  StoreFollows'
<1> USE DEF TypeOK, CallsTypeOK
<1>1. CASE RecordJob(t)
  <2>1. pc'[t] = "save_job" /\ frame[t] \in Frame
    BY <1>1 DEF RecordJob, Goto
  <2>2. frame'[t] = [frame[t] EXCEPT !.state = Snapshot]
    BY <1>1 DEF RecordJob
  <2>3. frame'[t].state = Snapshot
    BY <2>1, <2>2 DEF Frame
  <2> QED
    BY <2>1, <2>3, SnapshotTaken DEF Snapshot, Saves
<1>2. CASE SaveJob(t)
  BY <1>2, SnapshotWritten DEF SaveJob, Return, Goto, Saves
<1>3. CASE \/ SubmitUninitialized(t) \/ TakeWarm(t) \/ TakeCold(t)
           \/ DispatchWarm(t) \/ TrackWarm(t)
  BY <1>3, StoreUntouched DEF SubmitUninitialized, TakeWarm, TakeCold, DispatchWarm, TrackWarm,
     Return, Goto, Saves, provVars
<1>4. CASE Create(t) \/ WaitRunning(t) \/ Deliver(t) \/ TrackCold(t)
  BY <1>4, StoreUntouched DEF Create, WaitRunning, Deliver, TrackCold,
     Return, Goto, Saves, provVars
<1> QED
  BY <1>1, <1>2, <1>3, <1>4 DEF SubmitStep

\* The beginning of a cleanup pass, or the end of a status(), saves nothing.
LEMMA ToCleanupSavesNothing ==
  ASSUME CallsTypeOK, NEW t \in Threads, ToCleanup(t)
  PROVE  pc'[t] \notin Saves
BY DEF ToCleanup, CallsTypeOK, Return, Goto, Saves

\* A step of status().
LEMMA StoreStatusStep ==
  ASSUME TypeOK, StoreFollows, OneThread, NEW t \in Threads, StatusStep(t)
  PROVE  StoreFollows'
<1> USE DEF TypeOK, CallsTypeOK
<1>1. CASE StatusUpdate(t)
  <2>1. pc'[t] = "save_status" /\ NoFrame \in Frame
    BY <1>1, NoFrameType DEF StatusUpdate, Goto
  <2>2. frame'[t] = [NoFrame EXCEPT !.method = "status", !.state = Snapshot]
    BY <1>1 DEF StatusUpdate
  <2>3. frame'[t].state = Snapshot
    BY <2>1, <2>2 DEF Frame
  <2> QED
    BY <2>1, <2>3, SnapshotTaken DEF Snapshot, Saves
<1>2. CASE SaveStatus(t)
  BY <1>2, SnapshotWritten, ToCleanupSavesNothing DEF SaveStatus, Saves
<1>3. CASE Group(t) \/ PollSsm(t) \/ PollEc2(t)
  BY <1>3, StoreUntouched DEF Group, PollSsm, PollEc2, Heard, Goto, Saves, provVars
<1>4. CASE PollRaises(t)
  BY <1>4, StoreUntouched, ToCleanupSavesNothing DEF PollRaises, Saves, provVars
<1> QED
  BY <1>1, <1>2, <1>3, <1>4 DEF StatusStep

\* A step of cancel().
LEMMA StoreCancelStep ==
  ASSUME TypeOK, StoreFollows, OneThread, NEW t \in Threads, CancelStep(t)
  PROVE  StoreFollows'
<1> USE DEF TypeOK, CallsTypeOK
<1>1. CASE ScaleInCancels(t) \/ CancelCall(t)
  BY <1>1, StoreUntouched DEF ScaleInCancels, CancelCall, Collect, Goto, Saves, provVars
<1>2. CASE CancelUpdate(t)
  BY <1>2, StoreUntouched, ToCleanupSavesNothing, WriteBackLeads DEF CancelUpdate, Saves
<1> QED
  BY <1>1, <1>2 DEF CancelStep

\* A step of a cleanup pass.
LEMMA StoreCleanupStep ==
  ASSUME TypeOK, StoreFollows, OneThread, NEW t \in Threads, CleanupStep(t)
  PROVE  StoreFollows'
<1> USE DEF TypeOK, CallsTypeOK
<1>1. CASE Forget(t)
  <2>1. pc'[t] = "save_pass" /\ frame[t] \in Frame
    BY <1>1 DEF Forget, Goto
  <2>2. frame'[t] = [frame[t] EXCEPT !.state = Snapshot]
    BY <1>1 DEF Forget
  <2>3. frame'[t].state = Snapshot
    BY <2>1, <2>2 DEF Frame
  <2> QED
    BY <2>1, <2>3, SnapshotTaken DEF Snapshot, Saves
<1>2. CASE Finish(t)
  <2>1. pc'[t] = "save_cancel" /\ NoFrame \in Frame
    BY <1>2, NoFrameType DEF Finish, Goto
  <2>2. frame'[t] = [NoFrame EXCEPT !.method = frame[t].method, !.state = Snapshot]
    BY <1>2 DEF Finish
  <2>3. frame'[t].state = Snapshot
    BY <2>1, <2>2 DEF Frame
  <2> QED
    BY <2>1, <2>3, SnapshotTaken DEF Snapshot, Saves
<1>3. CASE SavePass(t) \/ SaveCancel(t)
  BY <1>3, SnapshotWritten DEF SavePass, SaveCancel, Return, Goto, Saves
<1>4. CASE Scan(t)
  BY <1>4, StoreUntouched DEF Scan, AfterPool, Goto, Saves, provVars
<1>5. CASE TransitionSkipped(t)
  BY <1>5, StoreUntouched DEF TransitionSkipped, TransitionRound, AfterPool, Goto, Saves, provVars
<1>6. CASE TransitionToPool(t)
  BY <1>6, StoreUntouched DEF TransitionToPool, TransitionRound, AfterPool, Goto, Saves, MarkWarm
<1>7. CASE TransitionEvicting(t)
  BY <1>7, StoreUntouched DEF TransitionEvicting, TransitionRound, AfterPool, Goto, Saves, MarkWarm
<1>8. CASE PoolSnapshot(t) \/ Unlist(t) \/ TerminateDoomed(t) \/ SavePassMode(t)
  BY <1>8, StoreUntouched DEF PoolSnapshot, Unlist, TerminateDoomed, SavePassMode, Return, Goto,
     Saves, provVars
<1> QED
  BY <1>1, <1>2, <1>3, <1>4, <1>5, <1>6, <1>7, <1>8 DEF CleanupStep

\* Every step keeps the document, or the snapshot that will be it, up to date.
LEMMA StoreStep ==
  ASSUME TypeOK, StoreFollows, OneThread, [Next]_vars
  PROVE  StoreFollows'
<1> USE DEF TypeOK, CallsTypeOK
<1>1. ASSUME NEW t \in Threads, Call(t)
      PROVE  StoreFollows'
  BY <1>1, StoreUntouched DEF Call, Submit, StatusBegin, Cancel, ScaleIn, Shutdown, Collect, Begin,
     Goto, Saves, provVars
<1>2. ASSUME NEW t \in Threads, ShutdownStep(t)
      PROVE  StoreFollows'
  <2>1. CASE Infrastructure(t) \/ Deinitialize(t)
    BY <2>1, StoreUntouched DEF Infrastructure, Deinitialize, Goto, Saves, provVars
  <2>2. CASE Clear(t)
    <3>1. pc'[t] = "erase"
      BY <2>2 DEF Clear, Goto
    <3>2. \A j \in Jobs : job_map'[j] = NoEntry /\ provider_store'.job_map[j] = NoEntry
      BY <2>2 DEF Clear, NoDocument
    <3> QED
      BY <3>1, <3>2 DEF StoreFollows, LeadsAlike, Saves, OneThread
  <2>3. CASE Erase(t)
    BY <2>3, StoreUntouched DEF Erase, Return, Goto, Saves, provVars
  <2> QED
    BY <1>2, <2>1, <2>2, <2>3 DEF ShutdownStep
<1>3. CASE Restart
  BY <1>3 DEF Restart, StoreFollows, LeadsAlike, Saves
<1>4. CASE UNCHANGED callVars /\ UNCHANGED <<job_map, provider_store>>
  BY <1>4 DEF StoreFollows, LeadsAlike, callVars
<1>5. CASE Tick \/ Environment \/ UNCHANGED vars
  BY <1>4, <1>5 DEF Tick, Environment, vars, provVars
<1> QED
  BY <1>1, <1>2, <1>3, <1>5, StoreSubmitStep, StoreStatusStep, StoreCancelStep, StoreCleanupStep
     DEF Next, Rest, Continue

\* With one caller, the document that a restarted provider loads leads every
\* accepted job to its instance whenever no call is under way.
THEOREM StoreKeptCurrent ==
  ASSUME OneThread
  PROVE  Spec => []StoreCurrent
<1>1. Init => TypeOK /\ StoreFollows
  <2>1. Init => StoreFollows
    BY DEF Init, StoreFollows, LeadsAlike, Saves, NoDocument
  <2> QED
    BY <2>1, InitType
<1>2. TypeOK /\ StoreFollows /\ [Next]_vars => TypeOK' /\ StoreFollows'
  BY TypeStep, StoreStep
<1>3. StoreFollows => StoreCurrent
  BY DEF StoreFollows, StoreCurrent, Quiet, Saves, LeadsAlike, AcceptedJobs
<1> QED
  BY <1>1, <1>2, <1>3, PTL DEF Spec

\* Whether the command of the job submitted by t has been sent.
Sent(t) == \/ pc[t] \in {"track_warm", "track_cold", "record", "save_job"}
           \/ pc[t] = "wait" /\ ~UsesSsmDispatch
Unsent(t) == pc[t] \in SubmitSteps /\ ~Sent(t)

\* j is known outside the submit() that brings it.
Submitted(j) == reported[j] # "none" \/ \E t \in Threads : pc[t] = "save_job" /\ frame[t].job = j

\* i is named by a record, a list or a call under way.
Handled(i) ==
  \/ Recorded(i) \/ Tracked(i)
  \/ \E n \in 1 .. Len(warm_instances) : warm_instances[n] = i
  \/ \E j \in Jobs : job_map[j].rid = i
  \/ \E u \in Threads : i \in frame[u].rids \cup frame[u].todo \cup frame[u].pool

Asking == {"group", "poll", "update"}
PreRecord == SubmitSteps \ {"save_job"}

\* Only submit() has a job and an instance of its own.
FramesKept ==
  \A t \in Threads :
    /\ pc[t] \notin SubmitSteps => frame[t].rid = NoInstance /\ frame[t].job = NoJob
    /\ pc[t] \in {"take", "create"} => frame[t].rid = NoInstance
    /\ pc[t] \in {"dispatch_warm", "track_warm"} => WarmPoolSize > 0

\* Nobody knows an instance never launched, and only the call that waits for it
\* one just launched.
InstancesNew ==
  /\ \A i \in Instances : ec2[i] = "unused" =>
       /\ ~Handled(i)
       /\ \A t \in Threads : frame[t].rid # i
       /\ \A j \in Jobs : host[j] # i
  /\ \A t \in Threads : pc[t] = "wait" =>
       /\ ~Handled(frame[t].rid)
       /\ \A u \in Threads : u # t => frame[u].rid # frame[t].rid
       /\ \A j \in Jobs : host[j] = frame[t].rid => ~UsesSsmDispatch /\ j = frame[t].job

\* Without a warm pool no two calls and no two jobs share an instance.
HostsApart ==
  WarmPoolSize = 0 =>
    /\ \A t, u \in Threads : t # u /\ frame[t].rid = frame[u].rid => frame[t].rid = NoInstance
    /\ \A t \in Threads : pc[t] = "deliver" => \A j \in Jobs : host[j] # frame[t].rid
    /\ \A j, k \in Jobs : j # k /\ host[j] = host[k] => host[j] = NoInstance

\* Nobody knows a job before its submit() returns, no two calls submit the same,
\* and its command is not sent before its instance can take it.
JobsNew ==
  /\ \A j \in Jobs : ~Submitted(j) =>
       /\ \A i \in Instances : resources[i].job # j
       /\ ~Mapped(j) /\ j \notin cancelled
       /\ \A u \in Threads : j \notin frame[u].jobs
  /\ \A t \in Threads : pc[t] \in PreRecord => ~Submitted(frame[t].job)
  /\ \A t, u \in Threads : t # u /\ frame[t].job = frame[u].job => frame[t].job = NoJob
  /\ \A t \in Threads : Unsent(t) => command[frame[t].job] = "none"
  /\ \A t \in Threads : pc[t] \in Asking => \A j \in frame[t].jobs : reported[j] # "none"

\* A job runs where its call, its record and its entry say.
HostsKnown ==
  /\ \A t \in Threads : Sent(t) => host[frame[t].job] = frame[t].rid
  /\ \A i \in Instances : resources[i].job # NoJob => host[resources[i].job] = i
  /\ \A j \in Jobs : Mapped(j) => host[j] = job_map[j].rid

\* What the frames and the books say of jobs, instances and hosts.
Base == FramesKept /\ InstancesNew /\ HostsApart /\ JobsNew /\ HostsKnown

\* AWS and the mode's records during a step that launches, sends and tracks nothing.
Fading ==
  /\ host' = host
  /\ \A j \in Jobs : /\ command[j] = "none" => command'[j] = "none"
                     /\ command'[j] = "inprogress" => command[j] = "inprogress"
  /\ \A i \in Instances : /\ ec2'[i] = "unused" <=> ec2[i] = "unused"
                          /\ ec2'[i] = "running" => ec2[i] = "running"
                          /\ Tracked(i)' => Tracked(i)

\* The provider's books during a step that records no job.
Dropping ==
  /\ \A i \in Instances : resources'[i].job \in {resources[i].job, NoJob}
  /\ \A i \in Instances : Recorded(i)' => Recorded(i)
  /\ \A j \in Jobs : (Mapped(j)' => Mapped(j)) /\ job_map'[j].rid \in {job_map[j].rid, NoInstance}
  /\ \A j \in Jobs : reported'[j] = "none" <=> reported[j] = "none"

\* Only t's call takes a step.
Others(t) == \A u \in Threads : u # t => pc'[u] = pc[u] /\ frame'[u] = frame[u]

\* t's call takes a step into nothing a submit() does, or returns.
Turning(t) ==
  /\ Others(t) /\ pc[t] # "save_job" /\ pc'[t] \notin SubmitSteps
  /\ frame'[t].job = NoJob /\ frame'[t].rid = NoInstance
  /\ \A i \in Instances : i \in frame'[t].rids \cup frame'[t].todo \cup frame'[t].pool => Handled(i)
  /\ \A j \in Jobs : j \in frame'[t].jobs \cup cancelled' => Submitted(j)
  /\ \A n \in 1 .. Len(warm_instances') : Handled(warm_instances'[n])
  /\ pc'[t] \in Asking => \A j \in frame'[t].jobs : reported[j] # "none"

\* Nothing is handled that was not.
LEMMA HandledFades ==
  ASSUME TypeOK, NEW t \in Threads, Fading, Dropping, Turning(t), NEW i \in Instances, Handled(i)'
  PROVE  Handled(i)
<1> USE DEF TypeOK
<1>1. CASE Recorded(i)'
  BY <1>1 DEF Dropping, Handled
<1>2. CASE Tracked(i)'
  BY <1>2 DEF Fading, Handled
<1>3. CASE \E n \in 1 .. Len(warm_instances') : warm_instances'[n] = i
  BY <1>3 DEF Turning
<1>4. CASE \E j \in Jobs : job_map'[j].rid = i
  BY <1>4, ModeAssumption DEF Dropping, Handled
<1>5. ASSUME NEW u \in Threads, i \in frame'[u].rids \cup frame'[u].todo \cup frame'[u].pool
      PROVE  Handled(i)
  BY <1>5 DEF Turning, Others, Handled
<1> QED
  BY <1>1, <1>2, <1>3, <1>4, <1>5 DEF Handled

\* A step that records no job leaves the same jobs submitted.
LEMMA SubmittedFades ==
  ASSUME NEW t \in Threads, Dropping, Turning(t), NEW j \in Jobs
  PROVE  Submitted(j)' <=> Submitted(j)
BY DEF Dropping, Turning, Others, Submitted, SubmitSteps

\* A step of a call other than submit() leaves jobs and instances to submit() alone.
LEMMA TurningKeepsFrames ==
  ASSUME TypeOK, Base, NEW t \in Threads, Turning(t)
  PROVE  FramesKept'
BY DEF Base, FramesKept, Turning, Others, SubmitSteps

\* Such a step handles no instance that is unused or being waited for, and puts
\* no two jobs on one.
LEMMA TurningKeepsInstances ==
  ASSUME TypeOK, Base, NEW t \in Threads, Fading, Dropping, Turning(t)
  PROVE  InstancesNew' /\ HostsApart'
<1> USE DEF TypeOK, Base
<1>1. \A i \in Instances : Handled(i)' => Handled(i)
  BY HandledFades
<1>2. \A i \in Instances : ec2'[i] = "unused" =>
       ~Handled(i)' /\ (\A u \in Threads : frame'[u].rid # i) /\ (\A j \in Jobs : host'[j] # i)
  BY <1>1, ModeAssumption DEF InstancesNew, Fading, Turning, Others
<1>3. ASSUME NEW u \in Threads, pc'[u] = "wait"
      PROVE  /\ ~Handled(frame[u].rid)' /\ frame'[u] = frame[u] /\ u # t
             /\ \A v \in Threads : v # u => frame'[v].rid # frame'[u].rid
             /\ \A j \in Jobs : host'[j] = frame'[u].rid => ~UsesSsmDispatch /\ j = frame'[u].job
  <2>1. u # t /\ pc[u] = "wait" /\ frame'[u] = frame[u] /\ frame[u].rid \in Instances
    BY <1>3 DEF Turning, Others, SubmitSteps, SubmitOK
  <2>2. PICK i \in Instances : i = frame[u].rid /\ i = frame'[u].rid
    BY <2>1
  <2>3. ~Handled(i)
    BY <2>1, <2>2 DEF InstancesNew
  <2>4. ~Handled(i)' /\ ~Handled(frame[u].rid)'
    BY <1>1, <2>2, <2>3
  <2>5. \A v \in Threads : v # u => frame'[v].rid # i
    BY <2>1, <2>2, ModeAssumption DEF InstancesNew, Turning, Others
  <2>6. \A j \in Jobs : host'[j] = i => ~UsesSsmDispatch /\ j = frame[u].job
    BY <2>1, <2>2 DEF InstancesNew, Fading
  <2> QED
    BY <2>1, <2>2, <2>4, <2>5, <2>6
<1>4. InstancesNew'
  BY <1>2, <1>3 DEF InstancesNew
<1>5. HostsApart'
  BY DEF HostsApart, Turning, Others, Fading, SubmitSteps
<1> QED
  BY <1>4, <1>5

\* Nor does it make a job known that was not, or move one to another host.
LEMMA TurningKeepsJobs ==
  ASSUME TypeOK, TypeOK', Base, NEW t \in Threads, Fading, Dropping, Turning(t)
  PROVE  JobsNew' /\ HostsKnown'
<1> USE DEF TypeOK, Base
<1>1. \A j \in Jobs : Submitted(j)' <=> Submitted(j)
  BY SubmittedFades
<1>2. ASSUME NEW j \in Jobs, ~Submitted(j)
      PROVE  /\ \A i \in Instances : resources'[i].job # j
             /\ ~Mapped(j)' /\ j \notin cancelled'
             /\ \A u \in Threads : j \notin frame'[u].jobs
  BY <1>2, ModeAssumption DEF JobsNew, Dropping, Turning, Others
<1>3. \A u \in Threads : pc'[u] \in SubmitSteps => u # t /\ pc[u] = pc'[u] /\ frame[u] = frame'[u]
                             /\ frame[u].job \in Jobs
  BY DEF Turning, Others, SubmitOK
<1>4. \A u \in Threads : pc'[u] \in PreRecord => ~Submitted(frame'[u].job)
  BY <1>3 DEF JobsNew, PreRecord
<1>5. \A u, v \in Threads : u # v /\ frame'[u].job = frame'[v].job => frame'[u].job = NoJob
  BY DEF JobsNew, Turning, Others
<1>6. \A u \in Threads : Unsent(u)' => command'[frame'[u].job] = "none"
  BY <1>3 DEF JobsNew, Fading, Unsent, Sent, SubmitSteps
<1>a. \A u \in Threads : pc'[u] \in Asking => \A j \in frame'[u].jobs : reported'[j] # "none"
  <2>1. \A u \in Threads : frame'[u].jobs \subseteq Jobs
    BY DEF CallsTypeOK, Frame
  <2> QED
    BY <2>1 DEF JobsNew, Turning, Others, Dropping
<1>7. JobsNew'
  <2>1. \A u \in Threads : pc'[u] \in PreRecord => frame'[u].job \in Jobs
    BY <1>3 DEF PreRecord
  <2> QED
    BY <1>1, <1>2, <1>4, <1>5, <1>6, <1>a, <2>1 DEF JobsNew
<1>8. \A u \in Threads : Sent(u)' => host'[frame'[u].job] = frame'[u].rid
  BY <1>3 DEF HostsKnown, Fading, Sent, SubmitSteps
<1>9. \A i \in Instances : resources'[i].job # NoJob => host'[resources'[i].job] = i
  BY DEF HostsKnown, Fading, Dropping
<1>10. \A j \in Jobs : Mapped(j)' => host'[j] = job_map'[j].rid
  <2>1. \A j \in Jobs : Mapped(j)' => job_map'[j].rid # NoInstance
    BY ModeAssumption DEF BooksTypeOK, Mapped, JobEntry, NoEntry
  <2> QED
  BY <2>1 DEF HostsKnown, Fading, Dropping
<1> QED
  BY <1>7, <1>8, <1>9, <1>10 DEF HostsKnown

\* A quiet step of AWS and the mode.
LEMMA FadingQuiet ==
  ASSUME UNCHANGED <<ec2, command, host>>,
         \A i \in Instances : Tracked(i)' => Tracked(i)
  PROVE  Fading
BY DEF Fading

\* terminate_instances() launches, sends and tracks nothing.
LEMMA FadingTerminate ==
  ASSUME AwsTypeOK, NEW S, Terminate(S),
         \A i \in Instances : Tracked(i)' => Tracked(i)
  PROVE  Fading
BY DEF Fading, Terminate, AwsTypeOK

\* Nor does the termination of an instance that is given up.
LEMMA FadingAbandon ==
  ASSUME ModeTypeOK, NEW i \in Instances, Abandon(i)
  PROVE  Fading
<1>1. \A k \in Instances : Tracked(k)' => Tracked(k)
  BY DEF Abandon, Tracked, NoModeRecord, ModeTypeOK
<1> QED
  BY <1>1, FadingQuiet, FadingTerminate DEF Abandon, ModeTypeOK

\* Nor does a poll of the commands, which only updates records of the mode.
LEMMA FadingPollCommands ==
  ASSUME ModeTypeOK, NEW S, NEW answer, PollCommands(S, answer)
  PROVE  Fading
<1>1. \A k \in Instances : Tracked(k)' => Tracked(k)
  BY DEF PollCommands, WithAnswers, Tracked, ModeTypeOK
<1> QED
  BY <1>1, FadingQuiet DEF PollCommands

\* Nor does a poll of the commands that raises half way.
LEMMA FadingPollCommandsRaises ==
  ASSUME ModeTypeOK, NEW S, NEW done, NEW answer, PollCommandsRaises(S, done, answer)
  PROVE  Fading
<1>1. \A k \in Instances : Tracked(k)' => Tracked(k)
  BY DEF PollCommandsRaises, WithAnswers, Tracked, ModeTypeOK
<1> QED
  BY <1>1, FadingQuiet DEF PollCommandsRaises

\* Nor does a poll of the instances, which drops records of the mode at most.
LEMMA FadingPollInstances ==
  ASSUME ModeTypeOK, NEW S, NEW outcome, PollInstances(S, outcome)
  PROVE  Fading
<1>1. \A k \in Instances : Tracked(k)' => Tracked(k)
  BY DEF PollInstances, Tracked, ModeTypeOK
<1> QED
  BY <1>1, FadingQuiet DEF PollInstances

\* Nor does cancel_jobs(), which terminates and marks.
LEMMA FadingCancelJobs ==
  ASSUME ModeTypeOK, NEW S, NEW outcome, CancelJobs(S, outcome)
  PROVE  Fading
<1>1. \A k \in Instances : Tracked(k)' => Tracked(k)
  BY DEF CancelJobs, Tracked, ModeTypeOK
<1> QED
  BY <1>1, FadingQuiet, FadingTerminate DEF CancelJobs, ModeTypeOK

\* Nor does cleanup_resources(), which terminates and drops.
LEMMA FadingCleanup ==
  ASSUME ModeTypeOK, NEW S, CleanupResources(S)
  PROVE  Fading
<1>1. \A k \in Instances : Tracked(k)' => Tracked(k)
  BY DEF CleanupResources, Tracked, ModeTypeOK, NoModeRecord
<1> QED
  BY <1>1, FadingQuiet, FadingTerminate DEF CleanupResources, ModeTypeOK

\* Nor does AWS: commands end, instances end or are interrupted or forgotten.
LEMMA FadingEnvironment ==
  ASSUME ModeTypeOK, InstancesNew, Environment
  PROVE  Fading
<1> USE DEF ModeTypeOK, AwsTypeOK
<1>1. CASE \E j \in Jobs : FinishCommand(j) \/ ShutDownAfter(j)
  BY <1>1 DEF FinishCommand, ShutDownAfter, modeVars, Fading, Tracked, InstancesNew
<1>2. CASE \E i \in Instances : Reclaim(i)
  BY <1>2, FadingTerminate DEF Reclaim, modeVars, Tracked
<1>3. CASE \E i \in Instances : ForgetInstance(i)
  BY <1>3 DEF ForgetInstance, modeVars, Fading, Tracked
<1>4. CASE \E i \in Instances : HandleInstanceInterruption(i)
  <2>1. \A k \in Instances : Tracked(k)' => Tracked(k)
    BY <1>4 DEF HandleInstanceInterruption, Tracked
  <2> QED
    BY <1>4, <2>1, FadingQuiet DEF HandleInstanceInterruption
<1> QED
  BY <1>1, <1>2, <1>3, <1>4 DEF Environment

\* A step that leaves the provider's books alone records no job.
LEMMA DroppingQuiet ==
  ASSUME UNCHANGED <<resources, job_map, reported>>
  PROVE  Dropping
BY DEF Dropping, Recorded, Mapped

\* Writing back what a poll has told changes statuses only, and records no job.
LEMMA WriteBackDrops ==
  ASSUME BooksTypeOK, NEW J, NEW m, WriteBack(J, m)
  PROVE  /\ \A i \in Instances : resources'[i].job = resources[i].job /\ (Recorded(i)' => Recorded(i))
         /\ \A j \in Jobs : job_map'[j].rid = job_map[j].rid /\ (Mapped(j)' => Mapped(j))
<1>1. \A j \in Jobs : job_map[j] \in JobEntry
  BY DEF BooksTypeOK
<1>2. \A e \in JobEntry : \A s : [e EXCEPT !.status = s].rid = e.rid
  BY DEF JobEntry, NoEntry
<1>3. \A i \in Instances : resources[i] \in Record
  BY DEF BooksTypeOK
<1>4. \A e \in Record : \A s : [e EXCEPT !.status = s].job = e.job
  BY DEF Record, NoRecord
<1>5. \A j \in Jobs : job_map'[j].rid = job_map[j].rid /\ (Mapped(j)' => Mapped(j))
  BY <1>1, <1>2 DEF WriteBack, Mapped
<1>6. \A i \in Instances : resources'[i].job = resources[i].job /\ (Recorded(i)' => Recorded(i))
  BY <1>3, <1>4 DEF WriteBack, Recorded
<1> QED
  BY <1>5, <1>6

\* submit() that ends without a job.
LEMMA TurningReturn ==
  ASSUME TypeOK, Base, NEW t \in Threads, Return(t), pc[t] # "save_job",
         UNCHANGED <<warm_instances, cancelled>>
  PROVE  Turning(t)
<1> USE DEF TypeOK, Base
<1>1. frame'[t] = NoFrame /\ pc'[t] = "idle" /\ Others(t)
  BY DEF Return, Goto, CallsTypeOK, Others
<1>2. \A j \in Jobs : j \in cancelled' => Submitted(j)
  BY DEF JobsNew
<1>3. \A n \in 1 .. Len(warm_instances) : Handled(warm_instances[n])
  BY DEF Handled
<1> QED
  BY <1>1, <1>2, <1>3 DEF Turning, SubmitSteps, Asking, NoFrame

\* A submit() refused because the mode is not initialized ends where it began.
LEMMA TurnSubmitUninitialized ==
  ASSUME TypeOK, Base, NEW t \in Threads, SubmitUninitialized(t)
  PROVE  Fading /\ Dropping /\ Turning(t)
BY FadingQuiet, DroppingQuiet, TurningReturn
   DEF SubmitUninitialized, modeVars, awsVars, provVars, Tracked

\* status() begins with the jobs it is asked about, all of them submitted.
LEMMA TurnStatusBegin ==
  ASSUME TypeOK, Base, NEW t \in Threads, StatusBegin(t)
  PROVE  Fading /\ Dropping /\ Turning(t)
<1> USE DEF TypeOK, Base
<1>1. Fading /\ Dropping
  BY FadingQuiet, DroppingQuiet DEF StatusBegin, modeVars, awsVars, provVars, Tracked
<1>2. Others(t) /\ pc[t] = "idle" /\ pc'[t] \in {"update", "group"}
  BY DEF StatusBegin, Begin, Goto, CallsTypeOK, Others
<1>3. /\ frame'[t].job = NoJob /\ frame'[t].rid = NoInstance
      /\ frame'[t].jobs = AcceptedJobs /\ frame'[t].todo = {} /\ frame'[t].pool = {}
      /\ \A i \in frame'[t].rids : \E j \in Jobs : job_map[j].rid = i
      /\ \A j \in frame'[t].jobs : reported[j] # "none"
  BY DEF StatusBegin, CallsTypeOK, NoFrame, AcceptedJobs
<1>4. \A j \in Jobs : j \in frame'[t].jobs \cup cancelled' => Submitted(j)
  BY <1>3 DEF StatusBegin, JobsNew, AcceptedJobs, Submitted
<1>5. \A i \in Instances : i \in frame'[t].rids \cup frame'[t].todo \cup frame'[t].pool => Handled(i)
  BY <1>3 DEF Handled
<1>6. \A n \in 1 .. Len(warm_instances') : Handled(warm_instances'[n])
  BY DEF StatusBegin, modeVars, Handled
<1> QED
  BY <1>1, <1>2, <1>3, <1>4, <1>5, <1>6 DEF Turning, SubmitSteps

\* A call that collects the instances of jobs that were submitted names only
\* instances that are handled.
LEMMA CollectTurns ==
  ASSUME TypeOK, Base, NEW t \in Threads, pc[t] \notin SubmitSteps, NEW method, NEW J \in SUBSET Jobs,
         Collect(t, method, J), UNCHANGED warm_instances,
         \A j \in J : Submitted(j)
  PROVE  Turning(t)
<1> USE DEF TypeOK, Base
<1>2. Others(t) /\ pc'[t] = "cancel_call"
  BY DEF Collect, Goto, CallsTypeOK, Others
<1>3. /\ frame'[t].job = NoJob /\ frame'[t].rid = NoInstance
      /\ frame'[t].jobs = J /\ frame'[t].todo = {} /\ frame'[t].pool = {}
      /\ \A i \in frame'[t].rids : \E j \in Jobs : job_map[j].rid = i
  BY DEF Collect, CallsTypeOK, NoFrame
<1>4. \A j \in Jobs : j \in frame'[t].jobs \cup cancelled' => Submitted(j)
  BY <1>3 DEF Collect, JobsNew
<1>5. \A i \in Instances : i \in frame'[t].rids \cup frame'[t].todo \cup frame'[t].pool => Handled(i)
  BY <1>3 DEF Handled
<1>6. \A n \in 1 .. Len(warm_instances') : Handled(warm_instances'[n])
  BY DEF Handled
<1> QED
  BY <1>2, <1>3, <1>4, <1>5, <1>6 DEF Turning, SubmitSteps, Asking

\* cancel() collects the instances of the jobs it is given.
LEMMA TurnCancel ==
  ASSUME TypeOK, Base, NEW t \in Threads, NEW J \in SUBSET Jobs, Cancel(t, J)
  PROVE  Fading /\ Dropping /\ Turning(t)
<1>1. pc[t] \notin SubmitSteps /\ \A j \in J : Submitted(j)
  BY DEF Cancel, AcceptedJobs, Submitted, Begin, SubmitSteps
<1> QED
  BY <1>1, CollectTurns, FadingQuiet, DroppingQuiet DEF Cancel, modeVars, awsVars, provVars, Tracked

\* shutdown() collects the instances of every job that has an entry.
LEMMA TurnShutdown ==
  ASSUME TypeOK, Base, NEW t \in Threads, Shutdown(t)
  PROVE  Fading /\ Dropping /\ Turning(t)
<1> USE DEF TypeOK, Base
<1>1. pc[t] \notin SubmitSteps /\ \A j \in Jobs : Mapped(j) => Submitted(j)
  BY DEF Shutdown, JobsNew, Begin, SubmitSteps
<1>2. Fading /\ Dropping
  BY FadingQuiet, DroppingQuiet DEF Shutdown, modeVars, awsVars, provVars, Tracked
<1>3. ASSUME Goto(t, "infrastructure"), UNCHANGED cancelled,
             frame' = [frame EXCEPT ![t] = [NoFrame EXCEPT !.method = "shutdown"]]
      PROVE  Turning(t)
  <2>1. \A j \in Jobs : j \in cancelled => Submitted(j)
    BY DEF JobsNew
  <2>2. \A n \in 1 .. Len(warm_instances) : Handled(warm_instances[n])
    BY DEF Handled
  <2> QED
    BY <1>1, <1>3, <2>1, <2>2 DEF Shutdown, Turning, Others, Goto, CallsTypeOK, NoFrame, SubmitSteps, modeVars
<1> QED
  BY <1>1, <1>2, <1>3, CollectTurns DEF Shutdown, modeVars

\* scale_in() picks jobs recorded on running instances.
LEMMA TurnScaleIn ==
  ASSUME TypeOK, Base, NEW t \in Threads, ScaleIn(t)
  PROVE  Fading /\ Dropping /\ Turning(t)
<1> USE DEF TypeOK, Base
<1>1. pc[t] \notin SubmitSteps /\ \A j \in Jobs : j \in cancelled => Submitted(j)
  BY DEF ScaleIn, JobsNew, Begin, SubmitSteps
<1>2. Fading /\ Dropping
  BY FadingQuiet, DroppingQuiet DEF ScaleIn, modeVars, awsVars, provVars, Tracked
<1>3. \A i \in Instances : resources[i].job \in Jobs => Submitted(resources[i].job)
  BY DEF JobsNew
<1>4. PICK S \in SUBSET InStatus({"RUNNING"}) :
         frame' = [frame EXCEPT ![t] = [NoFrame EXCEPT
                      !.method = "scale_in", !.jobs = {resources[i].job : i \in S} \ {NoJob}]]
  BY DEF ScaleIn
<1>5. \A j \in Jobs : j \in frame'[t].jobs => Submitted(j)
  BY <1>3, <1>4 DEF CallsTypeOK, NoFrame, InStatus
<1>6. /\ frame'[t].job = NoJob /\ frame'[t].rid = NoInstance
      /\ frame'[t].todo = {} /\ frame'[t].pool = {} /\ frame'[t].rids = {}
  BY <1>4 DEF CallsTypeOK, NoFrame
<1>7. \A n \in 1 .. Len(warm_instances') : Handled(warm_instances'[n])
  BY DEF Handled, ScaleIn, modeVars
<1>8. Others(t) /\ pc'[t] = "cancel" /\ UNCHANGED cancelled
  BY <1>4 DEF ScaleIn, Goto, CallsTypeOK, Others
<1> QED
  BY <1>1, <1>2, <1>5, <1>6, <1>7, <1>8 DEF Turning, SubmitSteps, Asking

\* scale_in() goes on to cancel the blocks it has picked.
LEMMA TurnScaleInCancels ==
  ASSUME TypeOK, Base, NEW t \in Threads, ScaleInCancels(t)
  PROVE  Fading /\ Dropping /\ Turning(t)
<1>1. pc[t] \notin SubmitSteps /\ \A j \in frame[t].jobs : Submitted(j)
  BY DEF ScaleInCancels, Base, JobsNew, SubmitSteps, TypeOK, CallsTypeOK, Frame
<1>2. frame[t].jobs \in SUBSET Jobs
  BY DEF TypeOK, CallsTypeOK, Frame
<1> QED
  BY <1>1, <1>2, CollectTurns, FadingQuiet, DroppingQuiet DEF ScaleInCancels, modeVars, awsVars, provVars, Tracked

\* A call that is not a submit() goes on with what it has in its frame.
LEMMA TurningGoesOn ==
  ASSUME TypeOK, Base, NEW t \in Threads, pc[t] \notin SubmitSteps, NEW step,
         pc' = [pc EXCEPT ![t] = step], step \notin SubmitSteps,
         NEW f \in Frame, frame' = [frame EXCEPT ![t] = f] \/ (UNCHANGED frame /\ f = frame[t]),
         f.job = frame[t].job, f.rid = frame[t].rid, f.jobs \subseteq frame[t].jobs,
         \A i \in f.rids \cup f.todo \cup f.pool : Handled(i),
         step \in Asking => pc[t] \in Asking,
         UNCHANGED cancelled, \A n \in 1 .. Len(warm_instances') : Handled(warm_instances'[n])
  PROVE  Turning(t)
<1> USE DEF TypeOK, Base
<1>1. Others(t) /\ pc'[t] = step /\ frame'[t] = f
  BY DEF CallsTypeOK, Others
<1>2. f.job = NoJob /\ f.rid = NoInstance
  BY DEF FramesKept
<1>3. \A j \in Jobs : j \in f.jobs \cup cancelled => Submitted(j)
  BY DEF JobsNew
<1>4. pc[t] # "save_job"
  BY DEF SubmitSteps
<1>5. step \in Asking => \A j \in f.jobs : reported[j] # "none"
  BY DEF JobsNew
<1> QED
  BY <1>1, <1>2, <1>3, <1>4, <1>5 DEF Turning

\* ... or starts afresh.
LEMMA TurningAnew ==
  ASSUME TypeOK, Base, NEW t \in Threads, pc[t] \notin SubmitSteps, NEW step,
         pc' = [pc EXCEPT ![t] = step], step \notin SubmitSteps, step \notin Asking,
         NEW f, frame' = [frame EXCEPT ![t] = f],
         f.job = NoJob, f.rid = NoInstance, f.jobs = {}, f.rids = {}, f.todo = {}, f.pool = {},
         UNCHANGED <<cancelled, warm_instances>>
  PROVE  Turning(t)
<1> USE DEF TypeOK, Base
<1>1. Others(t) /\ pc'[t] = step /\ frame'[t] = f
  BY DEF CallsTypeOK, Others
<1>2. \A j \in Jobs : j \in cancelled => Submitted(j)
  BY DEF JobsNew
<1>3. \A n \in 1 .. Len(warm_instances) : Handled(warm_instances[n])
  BY DEF Handled
<1>4. pc[t] # "save_job"
  BY DEF SubmitSteps
<1> QED
  BY <1>1, <1>2, <1>3, <1>4 DEF Turning

\* What is in a frame or on the list is handled.
LEMMA InFrames ==
  /\ \A t \in Threads : \A i \in frame[t].rids \cup frame[t].todo \cup frame[t].pool : Handled(i)
  /\ \A n \in 1 .. Len(warm_instances) : Handled(warm_instances[n])
BY DEF Handled

\* The step to the cleanup pass names nothing at all.
LEMMA ToCleanupTurns ==
  ASSUME TypeOK, Base, NEW t \in Threads, pc[t] \notin SubmitSteps, ToCleanup(t),
         UNCHANGED <<cancelled, warm_instances>>
  PROVE  Turning(t)
<1>1. CASE frame[t].method # "status" \/ UsesSsmDispatch
  <2> DEFINE f == [NoFrame EXCEPT !.method = frame[t].method]
  <2>1. f.job = NoJob /\ f.rid = NoInstance /\ f.jobs = {} /\ f.rids = {} /\ f.todo = {} /\ f.pool = {}
    BY DEF NoFrame
  <2>2. pc' = [pc EXCEPT ![t] = "scan"] /\ frame' = [frame EXCEPT ![t] = f]
    BY <1>1 DEF ToCleanup, Goto
  <2> HIDE DEF f
  <2> QED
    BY <2>1, <2>2, TurningAnew DEF SubmitSteps, Asking
<1>2. CASE ~(frame[t].method # "status" \/ UsesSsmDispatch)
  BY <1>2, TurningReturn DEF ToCleanup, SubmitSteps
<1> QED
  BY <1>1, <1>2

\* A poll turns to the instances its jobs are mapped to.
LEMMA TurnGroup ==
  ASSUME TypeOK, Base, NEW t \in Threads, Group(t)
  PROVE  Fading /\ Dropping /\ Turning(t)
<1> USE DEF TypeOK, Base
<1>1. Fading /\ Dropping
  BY FadingQuiet, DroppingQuiet DEF Group, modeVars, awsVars, provVars, Tracked
<1> DEFINE f == [frame[t] EXCEPT !.told = LocalStatuses(frame[t].rids), !.todo = MustAskAws(frame[t].rids)]
<1>2. pc[t] \notin SubmitSteps /\ frame[t] \in Frame /\ pc[t] \in Asking
  BY DEF Group, SubmitSteps, CallsTypeOK, Asking
<1>3. /\ frame' = [frame EXCEPT ![t] = f] /\ f = frame'[t]
      /\ pc' = [pc EXCEPT ![t] = "poll"]
  BY DEF Group, Goto, CallsTypeOK
<1>4. f.job = frame[t].job /\ f.rid = frame[t].rid /\ f.jobs = frame[t].jobs
      /\ f.rids = frame[t].rids /\ f.pool = frame[t].pool /\ f.todo \subseteq frame[t].rids
  BY <1>2 DEF Frame, MustAskAws
<1>5. TypeOK' => f \in Frame
  BY <1>3 DEF CallsTypeOK
<1>6. TypeOK'
  BY GroupType
<1>7. UNCHANGED <<cancelled, warm_instances>>
  BY DEF Group, modeVars
<1> HIDE DEF f
<1>8. \A i \in f.rids \cup f.todo \cup f.pool : Handled(i)
  BY <1>4, InFrames
<1>9. \A n \in 1 .. Len(warm_instances') : Handled(warm_instances'[n])
  BY <1>7, InFrames
<1> QED
  BY <1>1, <1>2, <1>3, <1>4, <1>5, <1>6, <1>7, <1>8, <1>9, TurningGoesOn DEF SubmitSteps

\* What a poll hears goes into its answers; it names no other instance.
LEMMA HeardTurns ==
  ASSUME TypeOK, TypeOK', Base, NEW t \in Threads, pc[t] = "poll", NEW m, Heard(t, m), UNCHANGED warm_instances
  PROVE  Turning(t) /\ Dropping
<1> USE DEF TypeOK, Base
<1>1. Dropping
  BY DroppingQuiet DEF Heard, provVars
<1> DEFINE g == [i \in Instances |-> IF i \in frame[t].todo THEN m[i] ELSE frame[t].told[i]]
           f == [frame[t] EXCEPT !.told = g, !.todo = {}]
<1>2. pc[t] \notin SubmitSteps /\ frame[t] \in Frame
  BY DEF SubmitSteps, CallsTypeOK
<1>3. /\ frame' = [frame EXCEPT ![t] = f] /\ f = frame'[t]
      /\ pc' = [pc EXCEPT ![t] = "update"]
  BY DEF Heard, Goto, CallsTypeOK
<1> HIDE DEF g
<1>4. f.job = frame[t].job /\ f.rid = frame[t].rid /\ f.jobs = frame[t].jobs
      /\ f.rids = frame[t].rids /\ f.pool = frame[t].pool /\ f.todo = {}
  BY <1>2 DEF Frame
<1>5. f \in Frame
  BY <1>3 DEF CallsTypeOK
<1>7. UNCHANGED <<cancelled, warm_instances>>
  BY DEF Heard
<1> HIDE DEF f
<1> QED
  BY <1>1, <1>2, <1>3, <1>4, <1>5, <1>7, TurningGoesOn, InFrames DEF SubmitSteps, Asking

\* Either poll, of the commands or of the instances, hears something.
LEMMA TurnPolls ==
  ASSUME TypeOK, TypeOK', Base, NEW t \in Threads, PollSsm(t) \/ PollEc2(t)
  PROVE  Fading /\ Dropping /\ Turning(t)
<1>1. CASE PollSsm(t)
  <2>1. PICK answer \in [frame[t].todo -> Answers] :
          PollCommands(frame[t].todo, answer) /\ Heard(t, answer)
    BY <1>1 DEF PollSsm
  <2>2. UNCHANGED warm_instances /\ pc[t] = "poll"
    BY <1>1, <2>1 DEF PollCommands, PollSsm
  <2> QED
    BY <2>1, <2>2, HeardTurns, FadingPollCommands DEF TypeOK
<1>2. CASE PollEc2(t)
  <2>1. PICK outcome \in PollOutcomes : PollInstances(frame[t].todo, outcome)
       /\ Heard(t, InstanceStatuses(frame[t].todo, outcome))
    BY <1>2 DEF PollEc2
  <2>2. UNCHANGED warm_instances /\ pc[t] = "poll"
    BY <1>2, <2>1 DEF PollInstances, PollEc2
  <2> QED
    BY <2>1, <2>2, HeardTurns, FadingPollInstances DEF TypeOK
<1> QED
  BY <1>1, <1>2

\* A poll that raises gives its call up.
LEMMA TurnPollRaises ==
  ASSUME TypeOK, TypeOK', Base, NEW t \in Threads, PollRaises(t)
  PROVE  Fading /\ Dropping /\ Turning(t)
<1> USE DEF TypeOK, Base
<1>1. PICK done \in SUBSET frame[t].todo :
        \E answer \in [done -> Answers] :
          PollCommandsRaises(frame[t].todo, done, answer)
  BY DEF PollRaises
<1>2. Fading /\ UNCHANGED warm_instances
  BY <1>1, FadingPollCommandsRaises DEF PollCommandsRaises
<1>3. \A j \in Jobs : j \in frame[t].jobs => reported[j] # "none"
  BY DEF JobsNew, PollRaises, Asking
<1>4. pc[t] \notin SubmitSteps
  BY DEF PollRaises, SubmitSteps
<1>5. Turning(t)
  BY <1>2, <1>4, ToCleanupTurns DEF PollRaises
<1>6. Dropping
  <2>1. \A j \in Jobs : reported'[j] = "none" <=> reported[j] = "none"
    <3>1. \A j \in Jobs : frame[t].known[j] \in Status \cup {Absent}
      BY DEF CallsTypeOK, Frame
    <3> QED
      BY <1>3, <3>1 DEF PollRaises, Status
  <2> QED
    BY <2>1 DEF Dropping, PollRaises, provVars, Recorded, Mapped
<1> QED
  BY <1>2, <1>5, <1>6

\* The same, in terms of the frame after the step.
LEMMA TurningTo ==
  ASSUME TypeOK, Base, NEW t \in Threads, pc[t] \notin SubmitSteps, Others(t),
         pc'[t] \notin SubmitSteps, pc'[t] \notin Asking,
         frame'[t].job = frame[t].job \/ frame'[t].job = NoJob,
         frame'[t].rid = frame[t].rid \/ frame'[t].rid = NoInstance,
         frame'[t].jobs \subseteq frame[t].jobs,
         \A i \in frame'[t].rids : Handled(i),
         \A i \in frame'[t].todo : Handled(i),
         \A i \in frame'[t].pool : Handled(i),
         UNCHANGED cancelled, \A n \in 1 .. Len(warm_instances') : Handled(warm_instances'[n])
  PROVE  Turning(t)
<1> USE DEF TypeOK, Base
<1>2. frame'[t].job = NoJob /\ frame'[t].rid = NoInstance
  BY DEF FramesKept
<1>3. \A j \in Jobs : j \in frame'[t].jobs \cup cancelled => Submitted(j)
  BY DEF JobsNew
<1>4. pc[t] # "save_job"
  BY DEF SubmitSteps
<1> QED
  BY <1>2, <1>3, <1>4 DEF Turning

\* status() writes back what the poll has told.
LEMMA TurnStatusUpdate ==
  ASSUME TypeOK, Base, NEW t \in Threads, StatusUpdate(t)
  PROVE  Fading /\ Dropping /\ Turning(t)
<1> USE DEF TypeOK, Base
<1>1. Fading
  BY FadingQuiet DEF StatusUpdate, modeVars, awsVars, Tracked
<1>2. Dropping
  <2>1. \A j \in frame[t].jobs : reported[j] # "none"
    BY DEF JobsNew, StatusUpdate, Asking
  <2>2. \A j \in Jobs : Verdict(t, j) # "none"
    BY VerdictType DEF Status
  <2> QED
    BY <2>1, <2>2, WriteBackDrops DEF StatusUpdate, Dropping
<1>3. Turning(t)
  <2> DEFINE f == [NoFrame EXCEPT !.method = "status", !.state = Snapshot]
  <2>1. f.job = NoJob /\ f.rid = NoInstance /\ f.jobs = {} /\ f.rids = {} /\ f.todo = {} /\ f.pool = {}
    BY DEF NoFrame
  <2>2. pc' = [pc EXCEPT ![t] = "save_status"] /\ frame' = [frame EXCEPT ![t] = f]
        /\ pc[t] = "update" /\ UNCHANGED <<cancelled, warm_instances>>
    BY DEF StatusUpdate, Goto, modeVars
  <2> HIDE DEF f
  <2> QED
    BY <2>1, <2>2, TurningAnew DEF SubmitSteps, Asking
<1> QED
  BY <1>1, <1>2, <1>3

\* status() saves, and goes on to the cleanup pass.
LEMMA TurnSaveStatus ==
  ASSUME TypeOK, Base, NEW t \in Threads, SaveStatus(t)
  PROVE  Fading /\ Dropping /\ Turning(t)
<1>1. Fading /\ Dropping
  BY FadingQuiet, DroppingQuiet DEF SaveStatus, modeVars, awsVars, Tracked
<1>2. Turning(t)
  BY ToCleanupTurns DEF SaveStatus, modeVars, SubmitSteps
<1> QED
  BY <1>1, <1>2

\* cancel_jobs() leaves its call with the jobs and the instances it had.
LEMMA TurnCancelCall ==
  ASSUME TypeOK, Base, NEW t \in Threads, CancelCall(t)
  PROVE  Fading /\ Dropping /\ Turning(t)
<1> USE DEF TypeOK
<1>1. PICK outcome \in CancelOutcomes :
       /\ CancelJobs(frame[t].rids, outcome)
       /\ frame' = [frame EXCEPT ![t].told = CancelStatuses(frame[t].rids, outcome)]
  BY DEF CancelCall
<1>2. Fading
  BY <1>1, FadingCancelJobs
<1>3. Dropping
  BY DroppingQuiet DEF CancelCall, provVars
<1>4. Others(t) /\ pc[t] = "cancel_call" /\ pc'[t] = "cancel_update"
      /\ UNCHANGED <<cancelled, warm_instances>>
  BY <1>1 DEF CancelCall, Goto, CallsTypeOK, Others, CancelJobs
<1>5. /\ frame'[t].job = frame[t].job /\ frame'[t].rid = frame[t].rid
      /\ frame'[t].jobs = frame[t].jobs /\ frame'[t].rids = frame[t].rids
      /\ frame'[t].todo = frame[t].todo /\ frame'[t].pool = frame[t].pool
  BY <1>1 DEF CallsTypeOK, Frame
<1> QED
  BY <1>2, <1>3, <1>4, <1>5, TurningTo, InFrames DEF SubmitSteps, Asking

\* cancel() marks the records of the jobs it has cancelled.
LEMMA TurnCancelUpdate ==
  ASSUME TypeOK, Base, NEW t \in Threads, CancelUpdate(t)
  PROVE  Fading /\ Dropping /\ Turning(t)
<1>1. Fading
  BY FadingQuiet DEF CancelUpdate, modeVars, awsVars, Tracked
<1>2. Dropping
  BY WriteBackDrops DEF CancelUpdate, Dropping, TypeOK
<1>3. Turning(t)
  BY ToCleanupTurns DEF CancelUpdate, modeVars, SubmitSteps
<1> QED
  BY <1>1, <1>2, <1>3

\* The cleanup pass collects the recorded instances that are finished.
LEMMA TurnScan ==
  ASSUME TypeOK, Base, NEW t \in Threads, Scan(t)
  PROVE  Fading /\ Dropping /\ Turning(t)
<1> USE DEF TypeOK
<1>1. Fading /\ Dropping
  BY FadingQuiet, DroppingQuiet DEF Scan, modeVars, awsVars, provVars, Tracked
<1>2. Others(t) /\ pc[t] = "scan" /\ pc'[t] \notin SubmitSteps /\ pc'[t] \notin Asking
      /\ UNCHANGED <<cancelled, warm_instances>>
  BY DEF Scan, Goto, CallsTypeOK, Others, AfterPool, SubmitSteps, Asking, modeVars
<1>3. (\A i \in Doomed : Recorded(i)) /\ (\A i \in Reusable : Recorded(i))
  BY DEF Doomed, Reusable, Expired, InStatus, Recorded, Absent
<1>4. \A i \in Instances : Recorded(i) => Handled(i)
  BY DEF Handled
<1>5. Doomed \subseteq Instances /\ Reusable \subseteq Instances
  BY DEF Doomed, Reusable, Expired, InStatus
<1>6. /\ frame'[t].job \in {frame[t].job, NoJob} /\ frame'[t].rid \in {frame[t].rid, NoInstance}
      /\ frame'[t].jobs \subseteq frame[t].jobs /\ frame'[t].rids \subseteq Doomed
      /\ frame'[t].todo \subseteq Doomed \cup Reusable /\ frame'[t].pool \subseteq frame[t].pool
  <2>1. PICK S : \/ /\ frame' = [frame EXCEPT ![t] = [frame[t] EXCEPT !.rids = Doomed, !.todo = S]]
                    /\ S = Doomed \/ S = Reusable
                 \/ frame' = [frame EXCEPT ![t] = NoFrame]
    BY DEF Scan
  <2>2. frame[t] \in Frame
    BY DEF CallsTypeOK
  <2>3. CASE frame' = [frame EXCEPT ![t] = NoFrame]
    BY <2>3 DEF CallsTypeOK, NoFrame
  <2>4. CASE frame' = [frame EXCEPT ![t] = [frame[t] EXCEPT !.rids = Doomed, !.todo = S]]
             /\ (S = Doomed \/ S = Reusable)
    BY <2>2, <2>4 DEF CallsTypeOK, Frame
  <2> QED
    BY <2>1, <2>3, <2>4
<1>7. (\A i \in frame'[t].rids : Handled(i)) /\ (\A i \in frame'[t].todo : Handled(i))
      /\ (\A i \in frame'[t].pool : Handled(i))
  BY <1>3, <1>4, <1>5, <1>6, InFrames
<1> QED
  BY <1>1, <1>2, <1>6, <1>7, TurningTo, InFrames DEF SubmitSteps

\* The pass takes its snapshot of the warm pool, whose members are all listed.
LEMMA TurnPoolSnapshot ==
  ASSUME TypeOK, Base, NEW t \in Threads, PoolSnapshot(t)
  PROVE  Fading /\ Dropping /\ Turning(t)
<1> USE DEF TypeOK
<1>1. Fading /\ Dropping
  BY FadingQuiet, DroppingQuiet DEF PoolSnapshot, modeVars, awsVars, provVars, Tracked
<1>2. Others(t) /\ pc[t] = "pool" /\ pc'[t] = "transition"
      /\ UNCHANGED <<cancelled, warm_instances>>
  BY DEF PoolSnapshot, Goto, CallsTypeOK, Others, modeVars
<1>3. \A i \in InStatus({"WARM"}) : Handled(i)
  BY DEF InStatus, Recorded, Absent, Handled
<1>6. /\ frame'[t].job = frame[t].job /\ frame'[t].rid = frame[t].rid
      /\ frame'[t].jobs = frame[t].jobs /\ frame'[t].rids = frame[t].rids
      /\ frame'[t].todo = frame[t].todo /\ frame'[t].pool = InStatus({"WARM"})
  BY DEF PoolSnapshot, CallsTypeOK, Frame
<1> QED
  BY <1>1, <1>2, <1>3, <1>6, TurningTo, InFrames DEF SubmitSteps, Asking

\* One round of the pass handles an instance that was collected or is in the pool.
LEMMA RoundTurns ==
  ASSUME TypeOK, Base, NEW t \in Threads, pc[t] = "transition", NEW i, NEW rids, NEW pool, NEW dirty,
         TransitionRound(t, i, rids, pool, dirty), UNCHANGED cancelled,
         \A k \in rids : Handled(k), \A k \in pool : Handled(k),
         \A n \in 1 .. Len(warm_instances') : Handled(warm_instances'[n])
  PROVE  Turning(t)
<1> USE DEF TypeOK
<1>2. Others(t) /\ pc'[t] \notin SubmitSteps /\ pc'[t] \notin Asking
  BY DEF TransitionRound, Goto, CallsTypeOK, Others, AfterPool, SubmitSteps, Asking
<1>6. /\ frame'[t].job \in {frame[t].job, NoJob} /\ frame'[t].rid \in {frame[t].rid, NoInstance}
      /\ frame'[t].jobs \subseteq frame[t].jobs /\ frame'[t].rids \subseteq rids
      /\ frame'[t].todo \subseteq rids \cup frame[t].todo /\ frame'[t].pool \subseteq pool
  BY DEF TransitionRound, CallsTypeOK, Frame, NoFrame
<1>7. (\A k \in frame'[t].rids : Handled(k)) /\ (\A k \in frame'[t].todo : Handled(k))
      /\ (\A k \in frame'[t].pool : Handled(k))
  BY <1>6, InFrames
<1> QED
  BY <1>2, <1>6, <1>7, TurningTo DEF SubmitSteps

\* The elements of a concatenation.
LEMMA Concatenated ==
  ASSUME NEW S, NEW a \in Seq(S), NEW b \in Seq(S)
  PROVE  /\ Len(a \o b) = Len(a) + Len(b)
         /\ \A k \in 1 .. Len(a) + Len(b) :
              (a \o b)[k] = IF k <= Len(a) THEN a[k] ELSE b[k - Len(a)]
OBVIOUS

\* Taking an element out of a list leaves others.
LEMMA UnlistedElements ==
  ASSUME NEW S, NEW s \in Seq(S), NEW e
  PROVE  \A n \in 1 .. Len(Unlisted(s, e)) : \E m \in 1 .. Len(s) : Unlisted(s, e)[n] = s[m]
<1>1. CASE \E n \in 1 .. Len(s) : FirstAt(s, e, n)
  <2>1. PICK n \in 1 .. Len(s) : Unlisted(s, e) = RemoveAt(s, n)
    BY <1>1 DEF Unlisted
  <2> DEFINE a == SubSeq(s, 1, n - 1)
             b == SubSeq(s, n + 1, Len(s))
  <2>2. RemoveAt(s, n) = a \o b
    BY DEF RemoveAt
  <2>a. a \in Seq(S) /\ Len(a) = n - 1 /\ \A k \in 1 .. n - 1 : a[k] = s[k]
    OBVIOUS
  <2>b. b \in Seq(S) /\ Len(b) = Len(s) - n /\ \A k \in 1 .. Len(s) - n : b[k] = s[n + k]
    OBVIOUS
  <2> HIDE DEF a, b
  <2>3. \A k \in 1 .. Len(RemoveAt(s, n)) : \E m \in 1 .. Len(s) : RemoveAt(s, n)[k] = s[m]
    <3>0. /\ Len(a \o b) = Len(a) + Len(b)
          /\ \A k \in 1 .. Len(a) + Len(b) :
               (a \o b)[k] = IF k <= Len(a) THEN a[k] ELSE b[k - Len(a)]
      BY <2>a, <2>b, Concatenated
    <3>1. Len(RemoveAt(s, n)) = Len(s) - 1
      BY <2>2, <2>a, <2>b, <3>0
    <3>2. \A k \in 1 .. Len(s) - 1 : RemoveAt(s, n)[k] = IF k < n THEN s[k] ELSE s[k + 1]
      <4> SUFFICES ASSUME NEW k \in 1 .. Len(s) - 1
                   PROVE  (a \o b)[k] = IF k < n THEN s[k] ELSE s[k + 1]
        BY <2>2
      <4>1. (a \o b)[k] = IF k <= n - 1 THEN a[k] ELSE b[k - (n - 1)]
        BY <2>a, <2>b, <3>0
      <4>2. CASE k < n
        BY <2>a, <4>1, <4>2
      <4>3. CASE ~(k < n)
        <5>1. k - (n - 1) \in 1 .. Len(s) - n /\ n + (k - (n - 1)) = k + 1
          BY <4>3
        <5>2. b[k - (n - 1)] = s[k + 1]
          BY <2>b, <5>1
        <5> QED
          BY <4>1, <4>3, <5>2
      <4> QED
        BY <4>2, <4>3
    <3>3. ASSUME NEW k \in 1 .. Len(s) - 1
          PROVE  \E m \in 1 .. Len(s) : RemoveAt(s, n)[k] = s[m]
      <4>1. k \in 1 .. Len(s) /\ k + 1 \in 1 .. Len(s)
        OBVIOUS
      <4> QED
        BY <3>2, <4>1
    <3> QED
      BY <3>1, <3>3
  <2> QED
    BY <2>1, <2>3
<1>2. CASE ~\E n \in 1 .. Len(s) : FirstAt(s, e, n)
  BY <1>2 DEF Unlisted
<1> QED
  BY <1>1, <1>2

\* Whether it skips the instance, pools it, or evicts another for it.
LEMMA TurnTransitions ==
  ASSUME TypeOK, Base, NEW t \in Threads,
         TransitionSkipped(t) \/ TransitionToPool(t) \/ TransitionEvicting(t)
  PROVE  Fading /\ Dropping /\ Turning(t)
<1> USE DEF TypeOK
<1>1. Fading
  BY FadingQuiet DEF TransitionSkipped, TransitionToPool, TransitionEvicting, modeVars, awsVars, Tracked
<1>2. frame[t].todo \subseteq Instances /\ frame[t].pool \subseteq Instances
      /\ warm_instances \in Seq(Instances)
  BY DEF CallsTypeOK, Frame, ModeTypeOK
<1>3. CASE TransitionSkipped(t)
  <2>1. PICK i \in frame[t].todo :
          TransitionRound(t, i, frame[t].rids, frame[t].pool, frame[t].dirty)
    BY <1>3 DEF TransitionSkipped
  <2>2. Turning(t)
    BY <1>3, <2>1, RoundTurns, InFrames DEF TransitionSkipped, modeVars
  <2> QED
    BY <1>1, <1>3, <2>2, DroppingQuiet DEF TransitionSkipped, provVars
<1>4. ASSUME NEW i \in Instances, Recorded(i), MarkWarm(i), UNCHANGED reported
      PROVE  Dropping
  <2>1. \A k \in Instances : resources[k] \in Record
    BY DEF BooksTypeOK
  <2>2. \A k \in Instances : resources'[k].job = resources[k].job /\ (Recorded(k)' => Recorded(k))
    BY <1>4, <2>1 DEF MarkWarm, Recorded, Record, NoRecord
  <2> QED
    BY <1>4, <2>2 DEF MarkWarm, Dropping, Mapped
<1>5. CASE TransitionToPool(t)
  <2>1. PICK i \in frame[t].todo :
       /\ Recorded(i) /\ MarkWarm(i)
       /\ warm_instances' = Append(warm_instances, i)
       /\ TransitionRound(t, i, frame[t].rids, frame[t].pool \cup {i}, TRUE)
    BY <1>5 DEF TransitionToPool
  <2>2. Handled(i)
    BY <2>1 DEF Handled
  <2>3. \A n \in 1 .. Len(warm_instances') :
           warm_instances'[n] = i \/ \E m \in 1 .. Len(warm_instances) : warm_instances'[n] = warm_instances[m]
    BY <1>2, <2>1
  <2>4. \A n \in 1 .. Len(warm_instances') : Handled(warm_instances'[n])
    BY <2>2, <2>3, InFrames
  <2>a. (\A k \in frame[t].rids : Handled(k)) /\ (\A k \in frame[t].pool \cup {i} : Handled(k))
    BY <2>2, InFrames
  <2>5. Turning(t)
    BY <1>5, <2>1, <2>4, <2>a, RoundTurns DEF TransitionToPool
  <2> QED
    BY <1>1, <1>2, <1>4, <1>5, <2>1, <2>5 DEF TransitionToPool
<1>6. CASE TransitionEvicting(t)
  <2>1. PICK i \in frame[t].todo, oldest \in frame[t].pool :
       /\ Recorded(i) /\ MarkWarm(i)
       /\ warm_instances' = Append(Unlisted(warm_instances, oldest), i)
       /\ TransitionRound(t, i, frame[t].rids \cup {oldest}, (frame[t].pool \ {oldest}) \cup {i}, TRUE)
    BY <1>6 DEF TransitionEvicting
  <2>2. Handled(i) /\ Handled(oldest)
    BY <2>1, InFrames DEF Handled
  <2>3. PICK s \in Seq(Instances) : s = Unlisted(warm_instances, oldest)
    BY <1>2, UnlistedType
  <2>4. \A n \in 1 .. Len(s) : \E m \in 1 .. Len(warm_instances) : s[n] = warm_instances[m]
    BY <1>2, <2>3, UnlistedElements
  <2>5. \A n \in 1 .. Len(warm_instances') :
           warm_instances'[n] = i \/ \E m \in 1 .. Len(s) : warm_instances'[n] = s[m]
    BY <1>2, <2>1, <2>3
  <2>6. \A n \in 1 .. Len(warm_instances') : Handled(warm_instances'[n])
    BY <2>2, <2>4, <2>5, InFrames
  <2>a. /\ \A k \in frame[t].rids \cup {oldest} : Handled(k)
        /\ \A k \in (frame[t].pool \ {oldest}) \cup {i} : Handled(k)
    BY <2>2, InFrames
  <2>7. Turning(t)
    BY <1>6, <2>1, <2>6, <2>a, RoundTurns DEF TransitionEvicting
  <2> QED
    BY <1>1, <1>2, <1>4, <1>6, <2>1, <2>7 DEF TransitionEvicting
<1> QED
  BY <1>3, <1>5, <1>6

\* The pass takes the instances it will terminate out of the reuse list.
LEMMA TurnUnlist ==
  ASSUME TypeOK, Base, NEW t \in Threads, Unlist(t)
  PROVE  Fading /\ Dropping /\ Turning(t)
<1> USE DEF TypeOK
<1>1. Fading /\ Dropping
  BY FadingQuiet, DroppingQuiet DEF Unlist, provVars, awsVars, Tracked
<1>2. warm_instances \in Seq(Instances) /\ frame[t] \in Frame
  BY DEF CallsTypeOK, ModeTypeOK
<1>3. PICK i \in frame[t].todo :
       /\ warm_instances' \in {Unlisted(warm_instances, i), warm_instances}
       /\ frame' = [frame EXCEPT ![t].todo = frame[t].todo \ {i}]
  BY DEF Unlist
<1>4. \A n \in 1 .. Len(warm_instances') : \E m \in 1 .. Len(warm_instances) : warm_instances'[n] = warm_instances[m]
  BY <1>2, <1>3, UnlistedElements
<1>5. \A n \in 1 .. Len(warm_instances') : Handled(warm_instances'[n])
  BY <1>4, InFrames
<1>6. /\ frame'[t].job = frame[t].job /\ frame'[t].rid = frame[t].rid
      /\ frame'[t].jobs = frame[t].jobs /\ frame'[t].rids = frame[t].rids
      /\ frame'[t].todo \subseteq frame[t].todo /\ frame'[t].pool = frame[t].pool
  BY <1>2, <1>3 DEF CallsTypeOK, Frame
<1>7. Others(t) /\ pc[t] = "unlist" /\ pc'[t] \in {"terminate", "unlist"} /\ UNCHANGED cancelled
  BY <1>3 DEF Unlist, Goto, CallsTypeOK, Others
<1> QED
  BY <1>1, <1>5, <1>6, <1>7, TurningTo, InFrames DEF SubmitSteps, Asking

\* The frame does not change.
LEMMA TurningStill ==
  ASSUME TypeOK, Base, NEW t \in Threads, pc[t] \notin SubmitSteps, NEW step,
         Goto(t, step), step \notin SubmitSteps, step \notin Asking,
         UNCHANGED <<frame, cancelled, warm_instances>>
  PROVE  Turning(t)
<1>1. Others(t) /\ pc'[t] = step
  BY DEF Goto, CallsTypeOK, Others, TypeOK
<1> QED
  BY <1>1, TurningTo, InFrames

\* The pass terminates them.
LEMMA TurnTerminateDoomed ==
  ASSUME TypeOK, Base, NEW t \in Threads, TerminateDoomed(t)
  PROVE  Fading /\ Dropping /\ Turning(t)
<1>1. Fading /\ Dropping
  BY FadingCleanup, DroppingQuiet DEF TerminateDoomed, provVars, TypeOK
<1>2. Turning(t)
  BY TurningStill DEF TerminateDoomed, CleanupResources, SubmitSteps, Asking
<1> QED
  BY <1>1, <1>2

\* The pass drops their records and their jobs' entries, and takes a snapshot.
LEMMA TurnForget ==
  ASSUME TypeOK, Base, NEW t \in Threads, Forget(t)
  PROVE  Fading /\ Dropping /\ Turning(t)
<1> USE DEF TypeOK
<1>1. Fading
  BY FadingQuiet DEF Forget, modeVars, awsVars, Tracked
<1>2. Dropping
  BY DEF Forget, Dropping, Recorded, Mapped, NoRecord, NoEntry
<1>3. /\ frame'[t].job = frame[t].job /\ frame'[t].rid = frame[t].rid
      /\ frame'[t].jobs = frame[t].jobs /\ frame'[t].rids = frame[t].rids
      /\ frame'[t].todo = frame[t].todo /\ frame'[t].pool = frame[t].pool
  BY DEF Forget, CallsTypeOK, Frame
<1>4. Others(t) /\ pc[t] = "forget" /\ pc'[t] = "save_pass" /\ UNCHANGED <<cancelled, warm_instances>>
  BY DEF Forget, Goto, CallsTypeOK, Others, modeVars
<1> QED
  BY <1>1, <1>2, <1>3, <1>4, TurningTo, InFrames DEF SubmitSteps, Asking

\* The pass writes the snapshot it took of the books.
LEMMA TurnSavePass ==
  ASSUME TypeOK, Base, NEW t \in Threads, SavePass(t)
  PROVE  Fading /\ Dropping /\ Turning(t)
<1>1. Fading /\ Dropping
  BY FadingQuiet, DroppingQuiet DEF SavePass, modeVars, awsVars, Tracked
<1>2. Turning(t)
  BY TurningStill DEF SavePass, modeVars, SubmitSteps, Asking
<1> QED
  BY <1>1, <1>2

\* A call that keeps its method and nothing else.
LEMMA TurningMethod ==
  ASSUME TypeOK, Base, NEW t \in Threads, pc[t] \notin SubmitSteps, NEW step, NEW s, NEW m,
         Goto(t, step), step \notin SubmitSteps, step \notin Asking,
         \/ frame' = [frame EXCEPT ![t] = [NoFrame EXCEPT !.method = m]]
         \/ frame' = [frame EXCEPT ![t] = [NoFrame EXCEPT !.method = m, !.state = s]],
         UNCHANGED <<cancelled, warm_instances>>
  PROVE  Turning(t)
<1>1. Others(t) /\ pc'[t] = step
  BY DEF Goto, CallsTypeOK, Others, TypeOK
<1>2. /\ frame'[t].job = NoJob /\ frame'[t].rid = NoInstance /\ frame'[t].jobs = {}
      /\ frame'[t].rids = {} /\ frame'[t].todo = {} /\ frame'[t].pool = {}
  <2>1. CASE frame' = [frame EXCEPT ![t] = [NoFrame EXCEPT !.method = m]]
    BY <2>1 DEF NoFrame, CallsTypeOK, TypeOK
  <2>2. CASE frame' = [frame EXCEPT ![t] = [NoFrame EXCEPT !.method = m, !.state = s]]
    BY <2>2 DEF NoFrame, CallsTypeOK, TypeOK
  <2> QED
    BY <2>1, <2>2
<1> QED
  BY <1>1, <1>2, TurningTo, InFrames

\* The pass saves the mode's document, and a status() returns.
LEMMA TurnSavePassMode ==
  ASSUME TypeOK, Base, NEW t \in Threads, SavePassMode(t)
  PROVE  Fading /\ Dropping /\ Turning(t)
<1>1. Fading /\ Dropping
  BY FadingQuiet, DroppingQuiet DEF SavePassMode, provVars, awsVars, Tracked
<1>2. Turning(t)
  BY TurningMethod, TurningReturn DEF SavePassMode, SubmitSteps, Asking
<1> QED
  BY <1>1, <1>2

\* After the pass a cancel() takes its last snapshot.
LEMMA TurnFinish ==
  ASSUME TypeOK, Base, NEW t \in Threads, Finish(t)
  PROVE  Fading /\ Dropping /\ Turning(t)
<1>1. Fading /\ Dropping
  BY FadingQuiet, DroppingQuiet DEF Finish, modeVars, provVars, awsVars, Tracked
<1>2. Turning(t)
  BY TurningMethod DEF Finish, modeVars, SubmitSteps, Asking
<1> QED
  BY <1>1, <1>2

\* cancel() writes that snapshot and returns, or shutdown() goes on from there.
LEMMA TurnSaveCancel ==
  ASSUME TypeOK, Base, NEW t \in Threads, SaveCancel(t)
  PROVE  Fading /\ Dropping /\ Turning(t)
<1>1. Fading /\ Dropping
  BY FadingQuiet, DroppingQuiet DEF SaveCancel, modeVars, awsVars, Tracked
<1>2. Turning(t)
  BY TurningMethod, TurningReturn DEF SaveCancel, modeVars, SubmitSteps, Asking
<1> QED
  BY <1>1, <1>2

\* Each step of shutdown() after the cancel drops records or documents only.
LEMMA TurnShutdownStep ==
  ASSUME TypeOK, Base, NEW t \in Threads, ShutdownStep(t)
  PROVE  Fading /\ Dropping /\ Turning(t)
<1>1. CASE Infrastructure(t)
  <2>1. Fading /\ Dropping
    BY <1>1, FadingCleanup, DroppingQuiet DEF Infrastructure, CleanupAll, provVars, TypeOK
  <2>2. Turning(t)
    BY <1>1, TurningStill DEF Infrastructure, CleanupAll, CleanupResources, SubmitSteps, Asking
  <2> QED
    BY <2>1, <2>2
<1>2. CASE Deinitialize(t)
  <2>1. Fading /\ Dropping
    BY <1>2, FadingQuiet, DroppingQuiet DEF Deinitialize, FinishInfrastructure, provVars, awsVars, Tracked
  <2>2. Turning(t)
    BY <1>2, TurningStill DEF Deinitialize, FinishInfrastructure, SubmitSteps, Asking
  <2> QED
    BY <2>1, <2>2
<1>3. CASE Clear(t)
  <2>1. Fading
    BY <1>3, FadingQuiet DEF Clear, modeVars, awsVars, Tracked
  <2>2. Dropping
    BY <1>3 DEF Clear, Dropping, Recorded, Mapped, NoRecord, NoEntry
  <2>3. Turning(t)
    BY <1>3, TurningStill DEF Clear, modeVars, SubmitSteps, Asking
  <2> QED
    BY <2>1, <2>2, <2>3
<1>4. CASE Erase(t)
  <2>1. Fading /\ Dropping
    BY <1>4, FadingQuiet, DroppingQuiet DEF Erase, provVars, awsVars, Tracked
  <2>2. Turning(t)
    BY <1>4, TurningReturn DEF Erase
  <2> QED
    BY <2>1, <2>2
<1> QED
  BY <1>1, <1>2, <1>3, <1>4 DEF ShutdownStep

\* t's submit() goes on; r is its instance after the step.
Going(t) ==
  /\ Others(t) /\ pc[t] \in PreRecord /\ pc'[t] \in PreRecord
  /\ frame'[t].job = frame[t].job /\ frame'[t].jobs = frame[t].jobs
  /\ frame'[t].rids = frame[t].rids /\ frame'[t].todo = frame[t].todo /\ frame'[t].pool = frame[t].pool
  /\ UNCHANGED <<resources, job_map, reported, cancelled>>
  /\ \A j \in Jobs : j # frame[t].job => command'[j] = command[j] /\ host'[j] = host[j]

\* A step inside submit() keeps the jobs apart if its own job's command is sent
\* exactly when the frame says so, and to the instance it names.
LEMMA GoingKeepsJobs ==
  ASSUME TypeOK, Base, NEW t \in Threads, Going(t),
         Unsent(t)' => command'[frame[t].job] = "none",
         Sent(t)' => host'[frame[t].job] = frame'[t].rid
  PROVE  JobsNew' /\ HostsKnown'
<1> USE DEF TypeOK, Base
<1>1. \A j \in Jobs : Submitted(j)' <=> Submitted(j)
  BY DEF Going, Others, Submitted, PreRecord
<1>2. frame[t].job \in Jobs /\ ~Submitted(frame[t].job)
  BY DEF Going, PreRecord, SubmitOK, JobsNew
<1>3. \A u \in Threads : u # t => frame[u].job # frame[t].job
  BY <1>2, ModeAssumption DEF JobsNew
<1>4. \A j \in Jobs : ~Submitted(j)' =>
       /\ \A i \in Instances : resources'[i].job # j
       /\ ~Mapped(j)' /\ j \notin cancelled'
       /\ \A u \in Threads : j \notin frame'[u].jobs
  <2>1. \A u \in Threads : frame'[u].jobs = frame[u].jobs
    BY DEF Going, Others
  <2> QED
    BY <1>1, <2>1 DEF JobsNew, Going, Mapped
<1>5. \A u \in Threads : pc'[u] \in PreRecord => ~Submitted(frame[u].job)'
  <2>1. ASSUME NEW u \in Threads, pc'[u] \in PreRecord
        PROVE  ~Submitted(frame[u].job)'
    <3>1. pc[u] \in PreRecord /\ frame'[u].job = frame[u].job
      BY <2>1 DEF Going, Others
    <3>2. PICK j \in Jobs : j = frame[u].job
      BY <3>1 DEF SubmitOK, PreRecord
    <3>3. ~Submitted(j)
      BY <3>1, <3>2 DEF JobsNew
    <3>4. ~Submitted(j)'
      BY <1>1, <3>3
    <3> QED
      BY <3>1, <3>2, <3>4 DEF Submitted
  <2> QED
    BY <2>1
<1>6. \A u, v \in Threads : u # v /\ frame'[u].job = frame'[v].job => frame'[u].job = NoJob
  BY DEF JobsNew, Going, Others
<1>7. \A u \in Threads : Unsent(u)' => command'[frame'[u].job] = "none"
  BY <1>2, <1>3 DEF JobsNew, Going, Others, Unsent, Sent, SubmitOK
<1>8. \A u \in Threads : pc'[u] \in Asking => \A j \in frame'[u].jobs : reported'[j] # "none"
  BY DEF JobsNew, Going, Others, Asking, PreRecord, SubmitSteps
<1>9. \A u \in Threads : Sent(u)' => host'[frame'[u].job] = frame'[u].rid
  <2>1. \A u \in Threads : Sent(u) => pc[u] \in SubmitSteps /\ frame[u].job \in Jobs
    BY DEF Sent, SubmitSteps, SubmitOK
  <2> QED
    BY <1>3, <2>1 DEF HostsKnown, Going, Others, Sent
<1>10. \A i \in Instances : resources'[i].job # NoJob => host'[resources'[i].job] = i
  <2>1. \A i \in Instances : resources[i].job # NoJob => resources[i].job \in Jobs /\ resources[i].job # frame[t].job
    BY <1>2 DEF JobsNew, BooksTypeOK, Record, NoRecord
  <2> QED
    BY <2>1 DEF HostsKnown, Going
<1>11. \A j \in Jobs : Mapped(j)' => host'[j] = job_map'[j].rid
  BY <1>2 DEF HostsKnown, Going, JobsNew, Mapped
<1>12. JobsNew'
  BY <1>4, <1>5, <1>6, <1>7, <1>8 DEF JobsNew
<1> QED
  BY <1>9, <1>10, <1>11, <1>12 DEF HostsKnown

\* It keeps the instances apart if the one it takes was in the reuse list, or is
\* a new one that it goes on to wait for.
LEMMA GoingKeepsInstances ==
  ASSUME TypeOK, Base, NEW t \in Threads, Going(t), NEW r, frame'[t].rid = r,
         r = frame[t].rid \/ (Handled(r) /\ WarmPoolSize > 0) \/ (ec2[r] = "unused" /\ r \in Instances /\ pc'[t] = "wait"),
         pc'[t] = "wait" => ec2[r] = "unused" /\ r \in Instances,
         \A i \in Instances : ec2'[i] = "unused" => ec2[i] = "unused" /\ i # r,
         \A i \in Instances : Handled(i)' => Handled(i) \/ (i = r /\ pc'[t] # "wait"),
         pc'[t] = "deliver" => pc[t] = "wait" /\ UsesSsmDispatch /\ r = frame[t].rid /\ UNCHANGED host,
         \/ UNCHANGED host
         \/ /\ host'[frame[t].job] = r
            /\ \/ pc'[t] = "wait" /\ ~UsesSsmDispatch
               \/ pc[t] = "deliver" /\ r = frame[t].rid
               \/ WarmPoolSize > 0 /\ r = frame[t].rid /\ pc'[t] # "wait"
  PROVE  InstancesNew' /\ HostsApart'
<1> USE DEF TypeOK, Base
<1>0. \A j \in Jobs : host'[j] = host[j] \/ (host'[j] = r /\ j = frame[t].job)
  BY DEF Going
<1>1. ASSUME NEW i \in Instances, ec2'[i] = "unused"
      PROVE  ~Handled(i)' /\ (\A u \in Threads : frame'[u].rid # i) /\ (\A j \in Jobs : host'[j] # i)
  <2>1. ec2[i] = "unused" /\ i # r
    BY <1>1
  <2>2. ~Handled(i) /\ (\A u \in Threads : frame[u].rid # i) /\ (\A j \in Jobs : host[j] # i)
    BY <2>1 DEF InstancesNew
  <2>3. ~Handled(i)'
    BY <2>1, <2>2
  <2>4. \A u \in Threads : frame'[u].rid # i
    BY <2>1, <2>2 DEF Going, Others
  <2> QED
    BY <1>0, <2>1, <2>2, <2>3, <2>4
<1>2. ASSUME pc'[t] = "wait"
      PROVE  /\ ~Handled(r)' /\ \A u \in Threads : u # t => frame'[u].rid # r
             /\ \A j \in Jobs : host'[j] = r => ~UsesSsmDispatch /\ j = frame[t].job
  <2>1. ec2[r] = "unused" /\ r \in Instances
    BY <1>2
  <2>2. ~Handled(r) /\ (\A u \in Threads : frame[u].rid # r) /\ (\A j \in Jobs : host[j] # r)
    BY <2>1 DEF InstancesNew
  <2>3. ~Handled(r)'
    BY <1>2, <2>1, <2>2
  <2>4. \A u \in Threads : u # t => frame'[u].rid # r
    BY <2>2 DEF Going, Others
  <2>5. \A j \in Jobs : host'[j] = r => ~UsesSsmDispatch /\ j = frame[t].job
    BY <1>0, <1>2, <2>2 DEF FramesKept
  <2> QED
    BY <2>1, <2>2, <2>3, <2>4, <2>5
<1>3. ASSUME NEW u \in Threads, u # t, pc'[u] = "wait"
      PROVE  /\ frame'[u] = frame[u] /\ frame[u].rid \in Instances /\ frame[u].rid # r
             /\ ~Handled(frame[u].rid)'
             /\ \A v \in Threads : v # u => frame'[v].rid # frame[u].rid
             /\ \A j \in Jobs : host'[j] = frame[u].rid => ~UsesSsmDispatch /\ j = frame[u].job
  <2>1. pc[u] = "wait" /\ frame'[u] = frame[u] /\ frame[u].rid \in Instances
    BY <1>3 DEF Going, Others, SubmitOK, SubmitSteps
  <2>2. PICK w \in Instances : w = frame[u].rid /\ w = frame'[u].rid
    BY <2>1
  <2>3. ~Handled(w) /\ (\A v \in Threads : v # u => frame[v].rid # w)
        /\ \A j \in Jobs : host[j] = w => ~UsesSsmDispatch /\ j = frame[u].job
    BY <2>1, <2>2 DEF InstancesNew
  <2>4. w # r
    BY <1>3, <2>2, <2>3 DEF InstancesNew
  <2>5. ~Handled(w)'
    BY <2>3, <2>4
  <2>6. ~Handled(frame[u].rid)'
    BY <2>2, <2>5 DEF Handled
  <2>7. \A v \in Threads : v # u => frame'[v].rid # w
    BY <2>3, <2>4 DEF Going, Others
  <2>8. \A j \in Jobs : host'[j] = w => ~UsesSsmDispatch /\ j = frame[u].job
    BY <1>0, <2>3, <2>4
  <2> QED
    BY <2>1, <2>2, <2>4, <2>6, <2>7, <2>8
<1>4. InstancesNew'
  <2>1. ASSUME NEW u \in Threads, pc'[u] = "wait"
        PROVE  /\ ~Handled(frame[u].rid)'
               /\ \A v \in Threads : v # u => frame'[v].rid # frame'[u].rid
               /\ \A j \in Jobs : host'[j] = frame'[u].rid => ~UsesSsmDispatch /\ j = frame'[u].job
    <3>1. CASE u = t
      <4>1. ~Handled(r)' /\ r = frame'[t].rid
        BY <1>2, <2>1, <3>1
      <4>2. ~Handled(frame[u].rid)'
        BY <3>1, <4>1 DEF Handled
      <4> QED
        BY <1>2, <2>1, <3>1, <4>2 DEF Going
    <3>2. CASE u # t
      BY <1>3, <2>1, <3>2
    <3> QED
      BY <3>1, <3>2
  <2> QED
    BY <1>1, <2>1 DEF InstancesNew
<1>5. ASSUME WarmPoolSize = 0
      PROVE  /\ \A u, v \in Threads : u # v /\ frame'[u].rid = frame'[v].rid => frame'[u].rid = NoInstance
             /\ \A u \in Threads : pc'[u] = "deliver" => \A j \in Jobs : host'[j] # frame'[u].rid
             /\ \A j, k \in Jobs : j # k /\ host'[j] = host'[k] => host'[j] = NoInstance
  <2>1. r = frame[t].rid \/ (ec2[r] = "unused" /\ r \in Instances /\ pc'[t] = "wait")
    BY <1>5
  <2>2. \A u \in Threads : u # t /\ frame[u].rid = r => r = NoInstance
    BY <1>5, <2>1 DEF HostsApart, InstancesNew
  <2>3. \A u, v \in Threads : u # v /\ frame'[u].rid = frame'[v].rid => frame'[u].rid = NoInstance
    BY <1>5, <2>2 DEF HostsApart, Going, Others
  <2>4. pc[t] = "wait" /\ UsesSsmDispatch => \A j \in Jobs : host[j] # frame[t].rid
    BY DEF InstancesNew
  <2>5. ASSUME NEW u \in Threads, pc'[u] = "deliver", NEW j \in Jobs
        PROVE  host'[j] # frame'[u].rid
    <3>1. CASE u = t
      BY <2>4, <2>5, <3>1
    <3>2. CASE u # t
      <4>1. pc[u] = "deliver" /\ frame'[u] = frame[u] /\ frame[u].rid \in Instances
        BY <2>5, <3>2 DEF Going, Others, SubmitOK, SubmitSteps
      <4> QED
        BY <1>0, <1>5, <2>2, <3>2, <4>1, ModeAssumption DEF HostsApart
    <3> QED
      BY <3>1, <3>2
  <2>6. UNCHANGED host \/ \A j \in Jobs : host[j] # r
    BY <1>5 DEF HostsApart, InstancesNew
  <2>7. \A j, k \in Jobs : j # k /\ host'[j] = host'[k] => host'[j] = NoInstance
    BY <1>0, <1>5, <2>6 DEF HostsApart
  <2> QED
    BY <2>3, <2>5, <2>7
<1> QED
  BY <1>4, <1>5 DEF HostsApart

\* A step inside submit() brings at most one instance among those handled.
LEMMA HandledGoing ==
  ASSUME NEW t \in Threads, Going(t),
         \A n \in 1 .. Len(warm_instances') : Handled(warm_instances'[n]),
         NEW i \in Instances, Handled(i)'
  PROVE  Handled(i) \/ Tracked(i)'
<1>1. CASE Recorded(i)' \/ \E j \in Jobs : job_map'[j].rid = i
  BY <1>1 DEF Going, Handled, Recorded
<1>2. ASSUME NEW u \in Threads, i \in frame'[u].rids \cup frame'[u].todo \cup frame'[u].pool
      PROVE  Handled(i)
  BY <1>2 DEF Going, Others, Handled
<1> QED
  BY <1>1, <1>2 DEF Handled

\* It keeps what the frames of submit() look like if it waits and takes as it should.
LEMMA GoingKeepsFrames ==
  ASSUME TypeOK, Base, NEW t \in Threads, Going(t),
         pc'[t] \in {"take", "create"} => frame'[t].rid = NoInstance,
         pc'[t] \in {"dispatch_warm", "track_warm"} => WarmPoolSize > 0
  PROVE  FramesKept'
BY DEF Base, FramesKept, Going, Others, PreRecord

\* submit() turns to launching when the reuse list has nothing for it.
LEMMA BaseTakeCold ==
  ASSUME TypeOK, Base, NEW t \in Threads, TakeCold(t)
  PROVE  Base'
<1> USE DEF TypeOK
<1> DEFINE r == frame[t].rid
<1>1. Going(t) /\ pc[t] = "take" /\ pc'[t] = "create" /\ frame'[t].rid = r
      /\ UNCHANGED <<command, host, ec2, mode_resources, warm_instances>>
  BY DEF TakeCold, Going, Others, PreRecord, SubmitSteps, Goto, CallsTypeOK, modeVars, awsVars, provVars
<1>2. FramesKept'
  BY <1>1, GoingKeepsFrames DEF Base, FramesKept
<1>3. Unsent(t) /\ ~Sent(t)' /\ r = NoInstance
  BY <1>1 DEF Unsent, Sent, SubmitSteps, Base, FramesKept
<1>4. command[frame[t].job] = "none"
  BY <1>3 DEF Base, JobsNew
<1>5. JobsNew' /\ HostsKnown'
  BY <1>1, <1>3, <1>4, GoingKeepsJobs
<1>6. \A i \in Instances : Handled(i)' => Handled(i)
  <2>1. \A i \in Instances : Tracked(i)' => Handled(i)
    BY <1>1 DEF Handled, Tracked
  <2> QED
    BY <1>1, <2>1, HandledGoing, InFrames
<1>7. \A i \in Instances : ec2'[i] = "unused" => ec2[i] = "unused" /\ i # r
  BY <1>1, <1>3, ModeAssumption
<1> HIDE DEF r
<1>8. InstancesNew' /\ HostsApart'
  BY <1>1, <1>6, <1>7, GoingKeepsInstances DEF r
<1> QED
  BY <1>2, <1>5, <1>8 DEF Base

\* An instance out of the reuse list is one that is handled.
LEMMA BaseTakeWarm ==
  ASSUME TypeOK, Base, NEW t \in Threads, TakeWarm(t)
  PROVE  Base'
<1> USE DEF TypeOK
<1>0. PICK r \in Instances : r = Head(warm_instances) /\ Handled(r) /\ WarmPoolSize > 0
         /\ \A n \in 1 .. Len(warm_instances') : Handled(warm_instances'[n])
  <2>1. warm_instances \in Seq(Instances) /\ warm_instances # << >> /\ warm_instances' = Tail(warm_instances)
    BY DEF ModeTypeOK, TakeWarm, GetWarmInstance
  <2>2. Head(warm_instances) \in Instances /\ Head(warm_instances) = warm_instances[1] /\ 1 \in 1 .. Len(warm_instances)
    BY <2>1
  <2>3. \A n \in 1 .. Len(warm_instances') : \E m \in 1 .. Len(warm_instances) : warm_instances'[n] = warm_instances[m]
    <3>1. \A n \in 1 .. Len(warm_instances') : n + 1 \in 1 .. Len(warm_instances) /\ warm_instances'[n] = warm_instances[n + 1]
      BY <2>1
    <3> QED
      BY <3>1
  <2> QED
    BY <2>2, <2>3, InFrames DEF TakeWarm
<1>1. Going(t) /\ pc[t] = "take" /\ pc'[t] = "dispatch_warm" /\ frame'[t].rid = r
      /\ UNCHANGED <<command, host, ec2>>
  BY <1>0 DEF TakeWarm, Going, Others, PreRecord, SubmitSteps, Goto, CallsTypeOK, Frame, awsVars, provVars
<1>2. FramesKept'
  BY <1>0, <1>1, GoingKeepsFrames
<1>3. Unsent(t) /\ ~Sent(t)'
  BY <1>1 DEF Unsent, Sent, SubmitSteps
<1>4. command[frame[t].job] = "none"
  BY <1>3 DEF Base, JobsNew
<1>5. JobsNew' /\ HostsKnown'
  BY <1>1, <1>3, <1>4, GoingKeepsJobs
<1>6. \A i \in Instances : Handled(i)' => Handled(i)
  <2>1. \A i \in Instances : Tracked(i)' => Handled(i)
    BY <1>0 DEF Handled, Tracked, TakeWarm, GetWarmInstance, ModeTypeOK
  <2> QED
    BY <1>0, <1>1, <2>1, HandledGoing
<1>7. \A i \in Instances : ec2'[i] = "unused" => ec2[i] = "unused" /\ i # r
  BY <1>0, <1>1 DEF Base, InstancesNew
<1>8. InstancesNew' /\ HostsApart'
  BY <1>0, <1>1, <1>6, <1>7, GoingKeepsInstances
<1> QED
  BY <1>2, <1>5, <1>8 DEF Base

\* A submit() that goes on with its instance.
LEMMA BaseGoesOn ==
  ASSUME TypeOK, Base, NEW t \in Threads, Going(t), NEW r \in Instances,
         frame[t].rid = r, frame'[t].rid = r, pc[t] \notin {"take", "create"},
         pc'[t] \notin {"take", "create", "wait"},
         pc'[t] \in {"dispatch_warm", "track_warm"} => WarmPoolSize > 0,
         UNCHANGED <<ec2, warm_instances>>,
         \A i \in Instances : Tracked(i)' => Tracked(i) \/ i = r,
         Unsent(t)' => command'[frame[t].job] = "none",
         Sent(t)' => host'[frame[t].job] = r,
         pc'[t] = "deliver" => pc[t] = "wait" /\ UsesSsmDispatch /\ UNCHANGED host,
         \/ UNCHANGED host
         \/ /\ host'[frame[t].job] = r
            /\ pc[t] = "deliver" \/ WarmPoolSize > 0
  PROVE  Base'
<1>1. FramesKept'
  BY GoingKeepsFrames
<1>2. JobsNew' /\ HostsKnown'
  BY GoingKeepsJobs
<1>3. \A i \in Instances : Handled(i)' => Handled(i) \/ i = r
  <2>1. \A n \in 1 .. Len(warm_instances') : Handled(warm_instances'[n])
    BY InFrames
  <2>2. \A i \in Instances : Tracked(i) => Handled(i)
    BY DEF Handled
  <2> QED
    BY <2>1, <2>2, HandledGoing
<1>4. \A i \in Instances : ec2'[i] = "unused" => ec2[i] = "unused" /\ i # r
  BY DEF Base, InstancesNew
<1>5. InstancesNew' /\ HostsApart'
  BY <1>3, <1>4, GoingKeepsInstances
<1> QED
  BY <1>1, <1>2, <1>5 DEF Base

\* A dispatch to it sends the one command of the job, or fails and lets it go.
LEMMA BaseDispatchWarm ==
  ASSUME TypeOK, TypeOK', Base, NEW t \in Threads, DispatchWarm(t)
  PROVE  Base' \/ (Fading /\ Dropping /\ Turning(t))
<1> USE DEF TypeOK
<1>0. PICK r \in Instances : r = frame[t].rid
  BY DEF DispatchWarm, SubmitOK, SubmitSteps
<1>1. CASE SendCommand(r, frame[t].job) /\ Goto(t, "track_warm") /\ UNCHANGED frame
  <2>1. Going(t) /\ pc[t] = "dispatch_warm" /\ pc'[t] = "track_warm" /\ frame'[t].rid = r
        /\ UNCHANGED <<ec2, warm_instances, mode_resources>>
    BY <1>0, <1>1 DEF DispatchWarm, SendCommand, StartCommand, Going, Others, PreRecord, SubmitSteps, Goto, CallsTypeOK, modeVars, provVars,
       ModeTypeOK, AwsTypeOK
  <2>2. host'[frame[t].job] = r /\ ~Unsent(t)' /\ WarmPoolSize > 0
    BY <1>0, <1>1, <2>1 DEF SendCommand, StartCommand, Unsent, Sent, ModeTypeOK, AwsTypeOK, SubmitOK, SubmitSteps, Base, FramesKept
  <2> QED
    BY <1>0, <2>1, <2>2, BaseGoesOn DEF Tracked
<1>2. CASE SendCommandFails(r) /\ Return(t) /\ UNCHANGED <<ec2, command, host, warned>>
  BY <1>2, FadingQuiet, DroppingQuiet, TurningReturn DEF DispatchWarm, modeVars, provVars, Tracked
<1> QED
  BY <1>0, <1>1, <1>2 DEF DispatchWarm

\* The mode records the job on it.
LEMMA BaseTrackWarm ==
  ASSUME TypeOK, TypeOK', Base, NEW t \in Threads, TrackWarm(t)
  PROVE  Base' \/ (Fading /\ Dropping /\ Turning(t))
<1> USE DEF TypeOK
<1>0. PICK r \in Instances : r = frame[t].rid
  BY DEF TrackWarm, SubmitOK, SubmitSteps
<1>1. CASE TrackCommand(r, frame[t].job) /\ Goto(t, "record") /\ UNCHANGED frame
  <2>1. Going(t) /\ pc[t] = "track_warm" /\ pc'[t] = "record" /\ frame'[t].rid = r
        /\ UNCHANGED <<ec2, command, host, warm_instances>>
    BY <1>0, <1>1 DEF TrackWarm, TrackCommand, Going, Others, PreRecord, SubmitSteps, Goto, CallsTypeOK, awsVars, provVars
  <2>2. host'[frame[t].job] = r /\ ~Unsent(t)'
    BY <1>0, <2>1 DEF Unsent, Sent, Base, HostsKnown
  <2>3. \A i \in Instances : Tracked(i)' => Tracked(i) \/ i = r
    BY <1>1 DEF TrackCommand, Tracked, ModeTypeOK
  <2> QED
    BY <1>0, <2>1, <2>2, <2>3, BaseGoesOn
<1>2. CASE ~Tracked(r) /\ Return(t) /\ UNCHANGED <<modeVars, awsVars>>
  BY <1>2, FadingQuiet, DroppingQuiet, TurningReturn DEF TrackWarm, modeVars, awsVars, provVars, Tracked
<1> QED
  BY <1>0, <1>1, <1>2 DEF TrackWarm

\* A new instance gets the command of the job that launched it.
LEMMA BaseDeliver ==
  ASSUME TypeOK, TypeOK', Base, NEW t \in Threads, Deliver(t)
  PROVE  Base' \/ (Fading /\ Dropping /\ Turning(t))
<1> USE DEF TypeOK
<1>0. PICK r \in Instances : r = frame[t].rid
  BY DEF Deliver, SubmitOK, SubmitSteps
<1>1. CASE SendCommand(r, frame[t].job) /\ UNCHANGED modeVars /\ Goto(t, "track_cold") /\ UNCHANGED frame
  <2>1. Going(t) /\ pc[t] = "deliver" /\ pc'[t] = "track_cold" /\ frame'[t].rid = r
        /\ UNCHANGED <<ec2, warm_instances, mode_resources>>
    BY <1>0, <1>1 DEF Deliver, SendCommand, StartCommand, Going, Others, PreRecord, SubmitSteps, Goto, CallsTypeOK, modeVars, provVars,
       ModeTypeOK, AwsTypeOK
  <2>2. host'[frame[t].job] = r /\ ~Unsent(t)'
    BY <1>0, <1>1, <2>1 DEF SendCommand, StartCommand, Unsent, Sent, ModeTypeOK, AwsTypeOK, SubmitOK, SubmitSteps
  <2> QED
    BY <1>0, <2>1, <2>2, BaseGoesOn DEF Tracked
<1>2. CASE SendCommandFails(r) /\ Abandon(r) /\ Return(t)
  BY <1>2, FadingAbandon, DroppingQuiet, TurningReturn DEF Deliver, Abandon, provVars
<1> QED
  BY <1>0, <1>1, <1>2 DEF Deliver

\* The mode records a new instance with its job, or terminates it.
LEMMA BaseTrackCold ==
  ASSUME TypeOK, TypeOK', Base, NEW t \in Threads, TrackCold(t)
  PROVE  Base' \/ (Fading /\ Dropping /\ Turning(t))
<1> USE DEF TypeOK
<1>0. PICK r \in Instances : r = frame[t].rid
  BY DEF TrackCold, SubmitOK, SubmitSteps
<1>1. CASE TrackCommand(r, frame[t].job) /\ Goto(t, "record") /\ UNCHANGED frame
  <2>1. Going(t) /\ pc[t] = "track_cold" /\ pc'[t] = "record" /\ frame'[t].rid = r
        /\ UNCHANGED <<ec2, command, host, warm_instances>>
    BY <1>0, <1>1 DEF TrackCold, TrackCommand, Going, Others, PreRecord, SubmitSteps, Goto, CallsTypeOK, awsVars, provVars
  <2>2. host'[frame[t].job] = r /\ ~Unsent(t)'
    BY <1>0, <2>1 DEF Unsent, Sent, Base, HostsKnown
  <2>3. \A i \in Instances : Tracked(i)' => Tracked(i) \/ i = r
    BY <1>1 DEF TrackCommand, Tracked, ModeTypeOK
  <2> QED
    BY <1>0, <2>1, <2>2, <2>3, BaseGoesOn
<1>2. CASE Abandon(r) /\ Return(t)
  BY <1>2, FadingAbandon, DroppingQuiet, TurningReturn DEF TrackCold, Abandon, provVars
<1> QED
  BY <1>0, <1>1, <1>2 DEF TrackCold

\* The wait for a new instance ends, or it is given up.
LEMMA BaseWaitRunning ==
  ASSUME TypeOK, TypeOK', Base, NEW t \in Threads, WaitRunning(t)
  PROVE  Base' \/ (Fading /\ Dropping /\ Turning(t))
<1> USE DEF TypeOK
<1>0. PICK r \in Instances : r = frame[t].rid
  BY DEF WaitRunning, SubmitOK, SubmitSteps
<1>1. CASE TrackInstance(r) /\ Goto(t, IF UsesSsmDispatch THEN "deliver" ELSE "record") /\ UNCHANGED frame
  <2>1. Going(t) /\ pc[t] = "wait" /\ pc'[t] \in {"deliver", "record"} /\ frame'[t].rid = r
        /\ UNCHANGED <<ec2, command, host, warm_instances>>
        /\ (pc'[t] = "deliver" <=> UsesSsmDispatch)
    BY <1>0, <1>1 DEF WaitRunning, TrackInstance, Going, Others, PreRecord, SubmitSteps, Goto, CallsTypeOK, awsVars, provVars
  <2>2. Sent(t)' => host'[frame[t].job] = r
    BY <1>0, <2>1 DEF Sent, Base, HostsKnown
  <2>a. Unsent(t)' => command'[frame[t].job] = "none"
    BY <2>1 DEF Unsent, Sent, Base, JobsNew, SubmitSteps
  <2>3. \A i \in Instances : Tracked(i)' => Tracked(i) \/ i = r
    BY <1>1 DEF TrackInstance, Tracked, ModeTypeOK
  <2> QED
    BY <1>0, <2>1, <2>2, <2>a, <2>3, BaseGoesOn
<1>2. CASE WaitFails(r) /\ Return(t)
  BY <1>2, FadingQuiet, DroppingQuiet, TurningReturn DEF WaitRunning, WaitFails, modeVars, provVars, Tracked
<1> QED
  BY <1>0, <1>1, <1>2 DEF WaitRunning

\* run_instances() returns an instance never used before, or none.
LEMMA BaseCreate ==
  ASSUME TypeOK, TypeOK', Base, NEW t \in Threads, Create(t)
  PROVE  Base' \/ (Fading /\ Dropping /\ Turning(t))
<1> USE DEF TypeOK
<1>1. ASSUME NEW r \in Instances, RunInstance(r, frame[t].job), Goto(t, "wait"), frame' = [frame EXCEPT ![t].rid = r]
      PROVE  Base'
  <2>1. frame[t].job \in Jobs /\ frame[t] \in Frame /\ pc[t] = "create"
    BY DEF Create, SubmitOK, SubmitSteps, CallsTypeOK
  <2>2. Going(t) /\ pc'[t] = "wait" /\ frame'[t].rid = r
        /\ UNCHANGED <<mode_resources, warm_instances>>
    BY <1>1, <2>1 DEF Create, RunInstance, StartCommand, Going, Others, PreRecord, SubmitSteps, Goto, CallsTypeOK, Frame, modeVars, provVars,
       ModeTypeOK, AwsTypeOK
  <2>3. /\ ec2[r] = "unused" /\ \A i \in Instances : ec2'[i] = "unused" => ec2[i] = "unused" /\ i # r
        /\ UsesSsmDispatch => UNCHANGED <<command, host>>
        /\ ~UsesSsmDispatch => host'[frame[t].job] = r
    BY <1>1, <2>1 DEF RunInstance, StartCommand, ModeTypeOK, AwsTypeOK
  <2>4. FramesKept'
    BY <2>2, GoingKeepsFrames
  <2>5. JobsNew' /\ HostsKnown'
    <3>1. Unsent(t)' => command'[frame[t].job] = "none"
      BY <2>1, <2>2, <2>3 DEF Unsent, Sent, SubmitSteps, Base, JobsNew
    <3>2. Sent(t)' => host'[frame[t].job] = r
      BY <2>2, <2>3 DEF Sent
    <3> QED
      BY <2>2, <3>1, <3>2, GoingKeepsJobs
  <2>6. \A i \in Instances : Handled(i)' => Handled(i)
    <3>1. \A i \in Instances : Tracked(i)' => Handled(i)
      BY <2>2 DEF Handled, Tracked
    <3> QED
      BY <2>2, <3>1, HandledGoing, InFrames
  <2>7. InstancesNew' /\ HostsApart'
    BY <2>2, <2>3, <2>6, GoingKeepsInstances
  <2> QED
    BY <2>4, <2>5, <2>7 DEF Base
<1>2. CASE RunInstanceFails /\ Return(t)
  BY <1>2, FadingQuiet, DroppingQuiet, TurningReturn DEF Create, RunInstanceFails, modeVars, provVars, Tracked
<1> QED
  BY <1>1, <1>2 DEF Create

-----------------------------------------------------------------------------
(* What happens to commands, and what begins what.                         *)

\* The steps of a thread in which no submit() goes on.
Turned(t) ==
  \/ SubmitUninitialized(t) \/ StatusStep(t) \/ CancelStep(t) \/ CleanupStep(t) \/ ShutdownStep(t)
  \/ StatusBegin(t) \/ (\E J \in SUBSET Jobs : Cancel(t, J)) \/ ScaleIn(t) \/ Shutdown(t)

\* Commands end, and their jobs keep their hosts.
Ending ==
  /\ UNCHANGED host
  /\ \A j \in Jobs : command'[j] # command[j] =>
       command[j] = "inprogress" /\ command'[j] \in {"success", "failed", "killed"}

\* submit() of t sends the command of its job to i.
Sending(t, i) ==
  /\ pc[t] \in {"dispatch_warm", "create", "deliver"}
  /\ StartCommand(i, frame[t].job)

\* terminate_instances() ends commands.
LEMMA TerminateEnding ==
  ASSUME ModeTypeOK, NEW S, Terminate(S)
  PROVE  Ending
BY DEF Terminate, Ending, ModeTypeOK, AwsTypeOK

\* So does the termination of a new instance that did not get its command.
LEMMA AbandonEnding ==
  ASSUME ModeTypeOK, NEW i, Abandon(i)
  PROVE  Ending
BY TerminateEnding DEF Abandon, Ending

\* submit() sends one command, or ends none but that of the instance it gives up.
LEMMA SubmitCommands ==
  ASSUME TypeOK, NEW t \in Threads, SubmitStep(t)
  PROVE  Ending \/ \E i \in Instances : Sending(t, i)
<1> USE DEF TypeOK
<1>1. CASE \/ SubmitUninitialized(t) \/ TakeWarm(t) \/ TakeCold(t) \/ TrackWarm(t)
           \/ WaitRunning(t) \/ RecordJob(t) \/ SaveJob(t)
  BY <1>1 DEF SubmitUninitialized, TakeWarm, TakeCold, TrackWarm, TrackCommand, WaitRunning, TrackInstance, WaitFails,
     RecordJob, SaveJob, awsVars, Ending
<1>2. CASE DispatchWarm(t) \/ Deliver(t)
  <2>1. pc[t] \in {"dispatch_warm", "deliver"} /\ frame[t].rid \in Instances
    BY <1>2 DEF DispatchWarm, Deliver, SubmitOK, SubmitSteps
  <2> QED
    BY <1>2, <2>1, AbandonEnding DEF DispatchWarm, Deliver, SendCommand, Sending, Ending
<1>3. CASE Create(t)
  BY <1>3 DEF Create, RunInstance, RunInstanceFails, Sending, Ending
<1>4. CASE TrackCold(t)
  BY <1>4, AbandonEnding DEF TrackCold, TrackCommand, awsVars, Ending
<1> QED
  BY <1>1, <1>2, <1>3, <1>4 DEF SubmitStep

\* The other methods send nothing.
LEMMA TurnedCommands ==
  ASSUME TypeOK, NEW t \in Threads, Turned(t)
  PROVE  Ending
<1> USE DEF TypeOK
<1>1. CASE SubmitUninitialized(t) \/ StatusStep(t) \/ StatusBegin(t)
  BY <1>1 DEF SubmitUninitialized, StatusStep, StatusBegin, Group, PollSsm, PollCommands, PollEc2, PollInstances,
     PollRaises, PollCommandsRaises, StatusUpdate, SaveStatus, awsVars, Ending
<1>2. CASE CancelStep(t) \/ ScaleIn(t) \/ Shutdown(t) \/ \E J \in SUBSET Jobs : Cancel(t, J)
  BY <1>2, TerminateEnding DEF CancelStep, ScaleInCancels, CancelCall, CancelJobs, CancelUpdate, ScaleIn, Shutdown, Cancel,
     awsVars, Ending
<1>3. CASE CleanupStep(t)
  BY <1>3, TerminateEnding DEF CleanupStep, Scan, PoolSnapshot, TransitionSkipped, TransitionToPool,
     TransitionEvicting, Unlist, TerminateDoomed, CleanupResources, Forget, SavePass, SavePassMode, Finish,
     SaveCancel, awsVars, Ending
<1>4. CASE ShutdownStep(t)
  BY <1>4, TerminateEnding DEF ShutdownStep, Infrastructure, CleanupAll, CleanupResources, Deinitialize,
     FinishInfrastructure, Clear, Erase, awsVars, Ending
<1> QED
  BY <1>1, <1>2, <1>3, <1>4 DEF Turned

\* Every step ends commands, or sends one of a submit() under way.
LEMMA CommandStep ==
  ASSUME TypeOK, [Next]_vars
  PROVE  Ending \/ \E t \in Threads, i \in Instances : Sending(t, i)
<1> USE DEF TypeOK
<1>1. ASSUME NEW t \in Threads, Continue(t) \/ Call(t)
      PROVE  Ending \/ \E i \in Instances : Sending(t, i)
  BY <1>1, SubmitCommands, TurnedCommands DEF Continue, Call, Turned, Submit, awsVars, Ending
<1>2. CASE Environment
  BY <1>2, TerminateEnding DEF Environment, FinishCommand, ShutDownAfter, Reclaim, ForgetInstance,
     HandleInstanceInterruption, Ending, ModeTypeOK, AwsTypeOK
<1>3. CASE Tick \/ Restart \/ UNCHANGED vars
  BY <1>3 DEF Tick, Restart, vars, awsVars, Ending
<1> QED
  BY <1>1, <1>2, <1>3 DEF Next, Rest

\* A job has a host once its command is sent, and not before.
SentToHost == \A j \in Jobs : host[j] \in Instances <=> command[j] # "none"

\* The host is set with the command and never cleared.
LEMMA HostStep ==
  ASSUME TypeOK, SentToHost, [Next]_vars
  PROVE  SentToHost'
<1>1. CASE Ending
  BY <1>1 DEF SentToHost, Ending
<1>2. ASSUME NEW t \in Threads, NEW i \in Instances, Sending(t, i)
      PROVE  SentToHost'
  BY <1>2 DEF SentToHost, Sending, StartCommand, TypeOK, ModeTypeOK, AwsTypeOK
<1> QED
  BY <1>1, <1>2, CommandStep

\* No job has a host at first.
LEMMA InitHosts == Init => SentToHost
BY ModeAssumption DEF Init, ModeInit, SentToHost

\* Only status() asks, only submit() saves a new job, only cancel() its answer.
LEMMA AsksNothing ==
  ASSUME TypeOK, NEW t \in Threads, Continue(t) \/ Call(t),
         ~(StatusBegin(t) \/ Group(t) \/ PollSsm(t) \/ PollEc2(t))
  PROVE  /\ pc'[t] \notin Asking
         /\ pc'[t] = "save_job" => RecordJob(t)
         /\ pc'[t] = "cancel_update" => CancelCall(t)
<1> USE DEF TypeOK, CallsTypeOK, Asking
<1>1. CASE SubmitStep(t) \/ \E j \in Jobs : Submit(t, j)
  BY <1>1 DEF SubmitStep, Submit, SubmitUninitialized, TakeWarm, TakeCold, DispatchWarm, TrackWarm,
     Create, WaitRunning, Deliver, TrackCold, RecordJob, SaveJob, Return, Goto
<1>2. CASE PollRaises(t) \/ SaveStatus(t) \/ CancelUpdate(t)
  BY <1>2 DEF PollRaises, SaveStatus, CancelUpdate, ToCleanup, Return, Goto
<1>3. CASE StatusUpdate(t) \/ ScaleIn(t) \/ CancelCall(t)
  BY <1>3 DEF StatusUpdate, ScaleIn, CancelCall, Goto
<1>4. CASE ScaleInCancels(t) \/ Shutdown(t) \/ \E J \in SUBSET Jobs : Cancel(t, J)
  BY <1>4 DEF ScaleInCancels, Shutdown, Cancel, Collect, Goto
<1>5. CASE Scan(t)
  BY <1>5 DEF Scan, AfterPool, Goto
<1>6. CASE TransitionSkipped(t) \/ TransitionToPool(t) \/ TransitionEvicting(t)
  <2>1. PICK i, rids, pool, dirty : TransitionRound(t, i, rids, pool, dirty)
    BY <1>6 DEF TransitionSkipped, TransitionToPool, TransitionEvicting
  <2> QED
    BY <2>1 DEF TransitionRound, AfterPool, Goto
<1>7. CASE PoolSnapshot(t) \/ Unlist(t) \/ TerminateDoomed(t) \/ Forget(t) \/ SavePass(t)
  BY <1>7 DEF PoolSnapshot, Unlist, TerminateDoomed, Forget, SavePass, Goto
<1>8. CASE SavePassMode(t) \/ Finish(t) \/ SaveCancel(t)
  BY <1>8 DEF SavePassMode, Finish, SaveCancel, Return, Goto
<1>9. CASE ShutdownStep(t)
  BY <1>9 DEF ShutdownStep, Infrastructure, Deinitialize, Clear, Erase, Return, Goto
<1> QED
  BY <1>1, <1>2, <1>3, <1>4, <1>5, <1>6, <1>7, <1>8, <1>9
     DEF Continue, Call, StatusStep, CancelStep, CleanupStep

-----------------------------------------------------------------------------
(* Crashes: what a successor process finds.                                *)

\* One thread calls, and every job has a new instance and its command over SSM; EC2
\* terminates what it is asked to and forgets nothing.  Crashes may be many.
OneShotCaller == OneThread /\ OneShot /\ "terminate" \notin Faults /\ "forget" \notin Faults

\* submit() before and after it has sent the command.
Sends == {"take", "create", "wait", "deliver"}
HasSent == {"track_cold", "record", "save_job"}

\* Every command has an instance to itself, and the job that a submit() brings is
\* nobody's yet.
OwnHosts ==
  /\ \A i \in Instances : ec2[i] # "gone"
  /\ \A j \in Jobs : host[j] \in Instances => ec2[host[j]] # "unused"
  /\ \A j, k \in Jobs : j # k /\ host[j] = host[k] => host[j] = NoInstance
  /\ \A t \in Threads :
       /\ pc[t] \notin {"dispatch_warm", "track_warm"}
       /\ pc[t] \in SubmitSteps => reported[frame[t].job] = "none"
       /\ pc[t] \in Asking => \A j \in frame[t].jobs : reported[j] # "none"
       /\ pc[t] \in Sends => command[frame[t].job] = "none"
       /\ pc[t] \in {"wait", "deliver"} => /\ ec2[frame[t].rid] # "unused"
                                           /\ \A j \in Jobs : host[j] # frame[t].rid
       /\ pc[t] \in HasSent => host[frame[t].job] = frame[t].rid

\* Records, in memory, in the document and in a copy about to be written, name the
\* job that was sent there.
NamesSent(r) == \A i \in Instances : r[i].job # NoJob => host[r[i].job] = i
DocumentsKnow ==
  /\ NamesSent(resources) /\ NamesSent(provider_store.resources)
  /\ \A t \in Threads : NamesSent(frame[t].state.resources)

\* The instance's record in the mode, and its copy in the mode's document, name j.
InCharge(j, i) == Tracked(i) /\ mode_resources[i].cmd = j /\ mode_store.resources[i].cmd = j

AtWork == {j \in Jobs : reported[j] # "none" /\ command[j] = "inprogress"}

\* Both documents lead an accepted job at work to its instance.
Adoptable ==
  /\ \A j \in AtWork : InCharge(j, host[j]) /\ job_map[j].rid = host[j] /\ provider_store.job_map[j].rid = host[j]
  /\ \A t \in Threads :
       /\ pc[t] \in {"record", "save_job"} => InCharge(frame[t].job, frame[t].rid)
       /\ pc[t] = "save_job" => job_map[frame[t].job].rid = frame[t].rid
       /\ pc[t] = "forget" => \A j \in AtWork : host[j] \notin frame[t].rids
       /\ pc[t] \in {"deinitialize", "clear", "erase"} => AtWork = {}


\* A record stays with its job, and its copy in the document is no other's.
StaysInCharge(i) ==
  /\ Tracked(i) => Tracked(i)' /\ mode_resources'[i].cmd = mode_resources[i].cmd
  /\ mode_store'.resources[i].cmd \in {mode_store.resources[i].cmd, mode_resources[i].cmd}

\* Nothing is at work on i after the step.
Silenced(i) == \A j \in Jobs : host[j] = i => command'[j] # "inprogress"

\* Saving the document writes what the records say.
LEMMA SavedInCharge ==
  ASSUME SaveMode, NEW i \in Instances, Tracked(i) => Tracked(i)' /\ mode_resources'[i].cmd = mode_resources[i].cmd, Tracked(i)
  PROVE  StaysInCharge(i)
BY DEF SaveMode, StaysInCharge

\* A change of some records' statuses, by the method of the mode that makes it.
LEMMA StatusesInCharge ==
  ASSUME ModeTypeOK, NEW i \in Instances,
         \/ mode_resources'[i] = mode_resources[i]
         \/ \E s \in Status : mode_resources'[i] = [mode_resources[i] EXCEPT !.status = s]
  PROVE  Tracked(i) => Tracked(i)' /\ mode_resources'[i].cmd = mode_resources[i].cmd
<1>1. mode_resources[i] \in ModeRecord
  BY DEF ModeTypeOK
<1>2. \A s \in Status : LET r == [mode_resources[i] EXCEPT !.status = s] IN r.status = s /\ r.cmd = mode_resources[i].cmd
  BY <1>1 DEF ModeRecord
<1>3. Absent \notin Status
  BY DEF Absent, Status
<1> QED
  BY <1>2, <1>3 DEF Tracked

\* terminate_instances() for i and others silences i.
LEMMA TerminatedSilent ==
  ASSUME ModeTypeOK, NEW S, Terminate(S), NEW i \in S
  PROVE  Silenced(i)
BY DEF Terminate, Silenced, ModeTypeOK, AwsTypeOK

\* Where EC2 knows all and terminates what it is asked to, what loses its record is silent.
LEMMA CleanedUp ==
  ASSUME ModeTypeOK, OwnHosts, OneShotCaller, NEW S \in SUBSET Instances, CleanupResources(S), NEW i \in Instances, Tracked(i)
  PROVE  IF i \in S THEN Silenced(i) ELSE StaysInCharge(i)
<1>1. Terminate({k \in S : Tracked(k)}) /\ \A k \in Instances : k \notin S => mode_resources'[k] = mode_resources[k]
  BY DEF CleanupResources, OneShotCaller, OwnHosts, Known, Fault
<1>2. CASE i \in S
  BY <1>1, <1>2, TerminatedSilent
<1>3. CASE i \notin S
  <2>1. mode_resources'[i] = mode_resources[i]
    BY <1>1, <1>3
  <2>2. CASE S = {}
    BY <1>3, <2>1, <2>2 DEF CleanupResources, StaysInCharge, Tracked
  <2>3. CASE S # {}
    <3>1. SaveMode
      BY <2>3 DEF CleanupResources
    <3> QED
      BY <1>3, <2>1, <3>1, SavedInCharge DEF Tracked
  <2> QED
    BY <2>2, <2>3
<1> QED
  BY <1>2, <1>3

\* submit() leaves every record in place but its own instance's.
LEMMA SubmitInCharge ==
  ASSUME TypeOK, OwnHosts, OneShotCaller, NEW t \in Threads, SubmitStep(t), NEW i \in Instances, Tracked(i)
  PROVE  StaysInCharge(i) \/ Silenced(i) \/ (pc[t] \in {"wait", "track_cold"} /\ frame[t].rid = i)
<1> USE DEF TypeOK
<1>0. WarmPoolSize = 0
  BY ModeAssumption DEF OneShotCaller
<1>1. UNCHANGED <<mode_resources, mode_store>> => StaysInCharge(i)
  BY DEF StaysInCharge, Tracked
<1>2. CASE \/ SubmitUninitialized(t) \/ TakeCold(t) \/ DispatchWarm(t) \/ Create(t) \/ RecordJob(t) \/ SaveJob(t)
  BY <1>1, <1>2 DEF SubmitUninitialized, TakeCold, DispatchWarm, Create, RunInstance, RunInstanceFails, RecordJob, SaveJob,
     modeVars
<1>3. ~TakeWarm(t) /\ ~TrackWarm(t)
  BY <1>0 DEF TakeWarm, TrackWarm, OwnHosts
<1>4. ASSUME Abandon(frame[t].rid), pc[t] \in {"deliver", "track_cold"}
      PROVE  StaysInCharge(i) \/ Silenced(i)
  <2>1. frame[t].rid \in Instances
    BY <1>4 DEF SubmitOK, SubmitSteps
  <2>2. Terminate({frame[t].rid})
    BY <1>4, <2>1 DEF Abandon, OneShotCaller, OwnHosts, Known
  <2>3. CASE i = frame[t].rid
    BY <2>2, <2>3, TerminatedSilent
  <2>4. CASE i # frame[t].rid
    <3>1. mode_resources'[i] = mode_resources[i] /\ SaveMode
      BY <1>4, <2>4 DEF Abandon, ModeTypeOK
    <3> QED
      BY <3>1, SavedInCharge DEF Tracked
  <2> QED
    BY <2>3, <2>4
<1>5. CASE WaitRunning(t)
  <2> SUFFICES ASSUME frame[t].rid # i PROVE StaysInCharge(i)
    BY <1>5 DEF WaitRunning
  <2>1. mode_resources'[i] = mode_resources[i] /\ (UNCHANGED mode_store \/ SaveMode)
    BY <1>5 DEF WaitRunning, TrackInstance, WaitFails, modeVars, ModeTypeOK
  <2> QED
    BY <2>1, SavedInCharge DEF Tracked, StaysInCharge
<1>6. CASE Deliver(t)
  <2>1. UNCHANGED modeVars \/ Abandon(frame[t].rid)
    BY <1>6 DEF Deliver
  <2> QED
    BY <1>1, <1>4, <1>6, <2>1 DEF Deliver, modeVars
<1>7. CASE TrackCold(t)
  <2>1. CASE Abandon(frame[t].rid)
    BY <1>4, <1>7, <2>1 DEF TrackCold
  <2>2. CASE TrackCommand(frame[t].rid, frame[t].job)
    <3> SUFFICES ASSUME frame[t].rid # i PROVE StaysInCharge(i)
      BY <1>7 DEF TrackCold
    <3>1. mode_resources'[i] = mode_resources[i] /\ SaveMode
      BY <2>2 DEF TrackCommand, ModeTypeOK
    <3> QED
      BY <3>1, SavedInCharge DEF Tracked
  <2> QED
    BY <1>7, <2>1, <2>2 DEF TrackCold
<1> QED
  BY <1>2, <1>3, <1>5, <1>6, <1>7 DEF SubmitStep

\* No other call takes a record from a job at work; the end of shutdown() takes all.
LEMMA OthersInCharge ==
  ASSUME TypeOK, OwnHosts, OneShotCaller, NEW t \in Threads, Turned(t), ~Erase(t), NEW i \in Instances, Tracked(i)
  PROVE  StaysInCharge(i) \/ Silenced(i)
<1> USE DEF TypeOK
<1>1. UNCHANGED <<mode_resources, mode_store>> => StaysInCharge(i)
  BY DEF StaysInCharge, Tracked
<1>2. UNCHANGED mode_resources /\ SaveMode => StaysInCharge(i)
  BY SavedInCharge DEF Tracked
<1>3. CASE SubmitUninitialized(t) \/ StatusBegin(t) \/ Group(t) \/ StatusUpdate(t) \/ SaveStatus(t)
  BY <1>1, <1>3 DEF SubmitUninitialized, StatusBegin, Group, StatusUpdate, SaveStatus, modeVars
<1>4. CASE PollSsm(t)
  <2>1. PICK answer \in [frame[t].todo -> Answers] : PollCommands(frame[t].todo, answer)
    BY <1>4 DEF PollSsm
  <2>2. mode_resources' = WithAnswers(frame[t].todo, answer) /\ SaveMode
    BY <2>1 DEF PollCommands
  <2>3. mode_resources'[i] = mode_resources[i] \/ \E s \in Status : mode_resources'[i] = [mode_resources[i] EXCEPT !.status = s]
    BY <2>2 DEF WithAnswers, Answers, Status
  <2> QED
    BY <2>2, <2>3, StatusesInCharge, SavedInCharge
<1>5. CASE PollRaises(t)
  <2>1. PICK done \in SUBSET frame[t].todo : \E answer \in [done -> Answers] :
          PollCommandsRaises(frame[t].todo, done, answer)
    BY <1>5 DEF PollRaises
  <2>2. PICK answer \in [done -> Answers] : PollCommandsRaises(frame[t].todo, done, answer)
    BY <2>1
  <2>3. mode_resources' = WithAnswers(done, answer) /\ UNCHANGED mode_store
    BY <2>2 DEF PollCommandsRaises
  <2>4. mode_resources'[i] = mode_resources[i] \/ \E s \in Status : mode_resources'[i] = [mode_resources[i] EXCEPT !.status = s]
    BY <2>3 DEF WithAnswers, Answers, Status
  <2> QED
    BY <2>3, <2>4, StatusesInCharge DEF StaysInCharge
<1>6. ~PollEc2(t)
  BY DEF PollEc2, UsesSsmDispatch, OneShotCaller
<1>7. CASE CancelCall(t)
  <2>1. PICK outcome \in CancelOutcomes : CancelJobs(frame[t].rids, outcome)
    BY <1>7 DEF CancelCall
  <2>2. mode_resources'[i] = mode_resources[i] \/ \E s \in Status : mode_resources'[i] = [mode_resources[i] EXCEPT !.status = s]
    BY <2>1 DEF CancelJobs, CancelOutcomes, Status
  <2>3. Tracked(i) => Tracked(i)' /\ mode_resources'[i].cmd = mode_resources[i].cmd
    BY <2>2, StatusesInCharge
  <2>4. UNCHANGED mode_store \/ SaveMode
    BY <2>1 DEF CancelJobs
  <2> QED
    BY <2>3, <2>4, SavedInCharge DEF StaysInCharge
<1>8. CASE ScaleInCancels(t) \/ CancelUpdate(t) \/ ScaleIn(t) \/ Shutdown(t) \/ \E J \in SUBSET Jobs : Cancel(t, J)
  BY <1>1, <1>8 DEF ScaleInCancels, CancelUpdate, ScaleIn, Shutdown, Cancel, modeVars
<1>9. CASE TerminateDoomed(t)
  <2>1. frame[t].rids \in SUBSET Instances /\ CleanupResources(frame[t].rids)
    BY <1>9 DEF TerminateDoomed, CallsTypeOK, Frame
  <2> QED
    BY <2>1, CleanedUp
<1>10. CASE Infrastructure(t)
  BY <1>10, CleanedUp DEF Infrastructure, CleanupAll
<1>11. CASE CleanupStep(t) /\ ~TerminateDoomed(t)
  BY <1>1, <1>2, <1>11 DEF CleanupStep, Scan, PoolSnapshot, TransitionSkipped, TransitionToPool,
     TransitionEvicting, Unlist, Forget, SavePass, SavePassMode, Finish, SaveCancel, modeVars
<1>12. CASE Deinitialize(t)
  BY <1>2, <1>12 DEF Deinitialize, FinishInfrastructure
<1>13. CASE Clear(t)
  BY <1>1, <1>13 DEF Clear, modeVars
<1> QED
  BY <1>3, <1>4, <1>5, <1>6, <1>7, <1>8, <1>9, <1>10, <1>11, <1>12, <1>13 DEF Turned, StatusStep, CancelStep, ShutdownStep

\* Instances do not become unused, nor forgotten.
LEMMA InstancesStep ==
  ASSUME TypeOK, "forget" \notin Faults, [Next]_vars, NEW i \in Instances
  PROVE  /\ ec2'[i] = "gone" => ec2[i] = "gone"
         /\ ec2'[i] = "unused" => ec2[i] = "unused"
<1> DEFINE Kept == (ec2'[i] = "gone" => ec2[i] = "gone") /\ (ec2'[i] = "unused" => ec2[i] = "unused")
<1>1. ASSUME NEW S, Terminate(S)
      PROVE  Kept
  BY <1>1 DEF Terminate
<1>2. ASSUME NEW t \in Threads, Call(t) \/ Continue(t)
      PROVE  Kept
  <2>1. CASE SubmitStep(t)
    BY <1>1, <2>1 DEF SubmitStep, SubmitUninitialized, TakeWarm, TakeCold, DispatchWarm, TrackWarm, Create, WaitRunning,
       Deliver, TrackCold, RecordJob, SaveJob, SendCommand, TrackCommand, RunInstance, RunInstanceFails, TrackInstance,
       WaitFails, Abandon, awsVars, TypeOK, ModeTypeOK, AwsTypeOK
  <2>2. CASE StatusStep(t)
    BY <2>2 DEF StatusStep, Group, PollSsm, PollEc2, PollRaises, StatusUpdate, SaveStatus, PollCommands, PollInstances,
       PollCommandsRaises, awsVars
  <2>3. CASE CancelStep(t)
    BY <1>1, <2>3 DEF CancelStep, ScaleInCancels, CancelCall, CancelUpdate, CancelJobs, awsVars
  <2>4. CASE CleanupStep(t)
    BY <1>1, <2>4 DEF CleanupStep, Scan, PoolSnapshot, TransitionSkipped, TransitionToPool, TransitionEvicting, Unlist,
       TerminateDoomed, CleanupResources, Forget, SavePass, SavePassMode, Finish, SaveCancel, awsVars
  <2>5. CASE ShutdownStep(t)
    BY <1>1, <2>5 DEF ShutdownStep, Infrastructure, CleanupAll, CleanupResources, Deinitialize, FinishInfrastructure,
       Clear, Erase, awsVars
  <2>6. CASE Call(t)
    BY <2>6 DEF Call, Submit, StatusBegin, Cancel, ScaleIn, Shutdown, awsVars
  <2> QED
    BY <1>2, <2>1, <2>2, <2>3, <2>4, <2>5, <2>6 DEF Continue
<1>3. CASE Tick \/ Rest \/ Restart \/ UNCHANGED vars
  BY <1>3 DEF Tick, Rest, Restart, vars, awsVars
<1>4. CASE Environment
  <2>1. \A k \in Instances : ~ForgetInstance(k)
    BY DEF ForgetInstance, Fault
  <2> QED
    BY <1>1, <1>4, <2>1 DEF Environment, FinishCommand, ShutDownAfter, Reclaim, HandleInstanceInterruption,
       TypeOK, ModeTypeOK, AwsTypeOK
<1> QED
  BY <1>2, <1>3, <1>4 DEF Next

\* Only a status() tells somebody something, and only the owners of jobs it asks for;
\* no other call enters submit(), and none asks for a job that was not accepted.
LEMMA TurnedTells ==
  ASSUME TypeOK, OwnHosts, NEW t \in Threads, Turned(t)
  PROVE  /\ pc'[t] \notin SubmitSteps
         /\ \A j \in Jobs : reported'[j] # "none" <=> reported[j] # "none"
         /\ pc'[t] \in Asking => \A j \in frame'[t].jobs : reported[j] # "none"
<1> USE DEF TypeOK, CallsTypeOK
<1>1. CASE StatusBegin(t)
  <2>1. pc'[t] \in {"update", "group"} /\ UNCHANGED reported /\ frame'[t].jobs = AcceptedJobs
    BY <1>1 DEF StatusBegin, Goto, NoFrame
  <2> QED
    BY <2>1 DEF SubmitSteps, AcceptedJobs
<1>2. CASE Group(t) \/ PollSsm(t) \/ PollEc2(t)
  <2>1. pc[t] \in Asking /\ pc'[t] \in {"poll", "update"} /\ UNCHANGED reported
    BY <1>2 DEF Group, PollSsm, PollEc2, Heard, Goto, Asking
  <2>2. frame'[t].jobs = frame[t].jobs
    BY <1>2 DEF Group, PollSsm, PollEc2, Heard, Frame
  <2> QED
    BY <2>1, <2>2 DEF SubmitSteps, OwnHosts
<1>3. CASE ~(StatusBegin(t) \/ Group(t) \/ PollSsm(t) \/ PollEc2(t)) /\ ~SubmitUninitialized(t)
  <2>1. pc'[t] \notin Asking
    BY <1>3, AsksNothing DEF Turned, Call, Continue
  <2>2. \A j \in Jobs : reported'[j] # "none" <=> reported[j] # "none"
    <3>1. CASE PollRaises(t)
      <4>1. \A j \in frame[t].jobs : reported[j] # "none"
        BY <3>1 DEF PollRaises, OwnHosts, Asking
      <4>2. \A j \in Jobs : frame[t].known[j] # "none"
        BY DEF Frame, Status, Absent
      <4> QED
        BY <3>1, <4>1, <4>2 DEF PollRaises
    <3>2. CASE StatusUpdate(t)
      <4>1. \A j \in frame[t].jobs : reported[j] # "none"
        BY <3>2 DEF StatusUpdate, OwnHosts, Asking
      <4>2. \A j \in Jobs : Verdict(t, j) # "none"
        <5>1. /\ \A j \in Jobs : frame[t].known[j] # "none"
              /\ \A i \in Instances : frame[t].told[i] # "none"
          BY DEF Frame, Status, Absent
        <5>2. \A j \in Jobs : Mapped(j) => job_map[j].rid \in Instances
          BY DEF BooksTypeOK, JobEntry, NoEntry, Mapped
        <5> QED
          BY <5>1, <5>2 DEF Verdict
      <4> QED
        BY <3>2, <4>1, <4>2 DEF StatusUpdate
    <3>3. ~PollRaises(t) /\ ~StatusUpdate(t) => UNCHANGED reported
      BY <1>3 DEF Turned, StatusStep, SaveStatus, CancelStep, ScaleInCancels, CancelCall, CancelUpdate, CleanupStep, Scan,
         PoolSnapshot, TransitionSkipped, TransitionToPool, TransitionEvicting, Unlist, TerminateDoomed, Forget, SavePass,
         SavePassMode, Finish, SaveCancel, ShutdownStep, Infrastructure, Deinitialize, Clear, Erase, Cancel, ScaleIn, Shutdown
    <3> QED
      BY <3>1, <3>2, <3>3
  <2>3. pc'[t] \notin SubmitSteps
    <3>1. CASE PollRaises(t) \/ SaveStatus(t) \/ CancelUpdate(t)
      BY <3>1 DEF PollRaises, SaveStatus, CancelUpdate, ToCleanup, Return, Goto, SubmitSteps
    <3>2. CASE StatusUpdate(t) \/ ScaleIn(t) \/ CancelCall(t)
      BY <3>2 DEF StatusUpdate, ScaleIn, CancelCall, Goto, SubmitSteps
    <3>3. CASE ScaleInCancels(t) \/ Shutdown(t) \/ \E J \in SUBSET Jobs : Cancel(t, J)
      BY <3>3 DEF ScaleInCancels, Shutdown, Cancel, Collect, Goto, SubmitSteps
    <3>4. CASE Scan(t)
      BY <3>4 DEF Scan, AfterPool, Goto, SubmitSteps
    <3>5. CASE TransitionSkipped(t) \/ TransitionToPool(t) \/ TransitionEvicting(t)
      <4>1. PICK i, rids, pool, dirty : TransitionRound(t, i, rids, pool, dirty)
        BY <3>5 DEF TransitionSkipped, TransitionToPool, TransitionEvicting
      <4> QED
        BY <4>1 DEF TransitionRound, AfterPool, Goto, SubmitSteps
    <3>6. CASE PoolSnapshot(t) \/ Unlist(t) \/ TerminateDoomed(t) \/ Forget(t) \/ SavePass(t)
      BY <3>6 DEF PoolSnapshot, Unlist, TerminateDoomed, Forget, SavePass, Goto, SubmitSteps
    <3>7. CASE SavePassMode(t) \/ Finish(t) \/ SaveCancel(t)
      BY <3>7 DEF SavePassMode, Finish, SaveCancel, Return, Goto, SubmitSteps
    <3>8. CASE ShutdownStep(t)
      BY <3>8 DEF ShutdownStep, Infrastructure, Deinitialize, Clear, Erase, Return, Goto, SubmitSteps
    <3> QED
      BY <1>3, <3>1, <3>2, <3>3, <3>4, <3>5, <3>6, <3>7, <3>8 DEF Turned, StatusStep, CancelStep, CleanupStep
  <2> QED
    BY <2>1, <2>2, <2>3
<1>4. CASE SubmitUninitialized(t)
  BY <1>4 DEF SubmitUninitialized, Return, Goto, SubmitSteps, Asking
<1> QED
  BY <1>1, <1>2, <1>3, <1>4

\* One caller's step of submit() keeps its command and its instance its own.
LEMMA SubmitOwns ==
  ASSUME TypeOK, OwnHosts, SentToHost, OneShotCaller, NEW t \in Threads,
         SubmitStep(t) \/ (\E j \in Jobs : Submit(t, j)), [Next]_vars
  PROVE  OwnHosts'
<1> USE DEF TypeOK, CallsTypeOK
<1> DEFINE Own == /\ pc'[t] \notin {"dispatch_warm", "track_warm"}
                  /\ pc'[t] \in SubmitSteps => reported'[frame'[t].job] = "none"
                  /\ pc'[t] \notin Asking
                  /\ pc'[t] \in Sends => command'[frame'[t].job] = "none"
                  /\ pc'[t] \in {"wait", "deliver"} => /\ ec2'[frame'[t].rid] # "unused"
                                                      /\ \A j \in Jobs : host'[j] # frame'[t].rid
                  /\ pc'[t] \in HasSent => host'[frame'[t].job] = frame'[t].rid
           Hosts == /\ \A j \in Jobs : host'[j] \in Instances => ec2'[host'[j]] # "unused"
                    /\ \A j, k \in Jobs : j # k /\ host'[j] = host'[k] => host'[j] = NoInstance
<1>1. WarmPoolSize = 0 /\ UsesSsmDispatch
  BY ModeAssumption DEF OneShotCaller, UsesSsmDispatch
<1>2. \A i \in Instances : /\ ec2'[i] # "gone"
                           /\ ec2[i] # "unused" => ec2'[i] # "unused"
  BY InstancesStep DEF OneShotCaller, OwnHosts
<1> SUFFICES Own /\ Hosts
  BY <1>2 DEF OwnHosts, OneShotCaller, OneThread
<1>3. UNCHANGED host => Hosts
  BY <1>2 DEF OwnHosts
<1>4. pc[t] \in SubmitSteps => frame[t].job \in Jobs /\ reported[frame[t].job] = "none"
  BY DEF SubmitOK, OwnHosts
<1>5. pc[t] \in SubmitSteps \ {"take", "create"} => frame[t].rid \in Instances
  BY DEF SubmitOK
<1>6. frame[t] \in Frame
  OBVIOUS
<1>7. ASSUME NEW j \in Jobs, Submit(t, j)
      PROVE  UNCHANGED host /\ Own
  <2>1. /\ pc'[t] = "take" /\ UNCHANGED <<reported, command, host>>
        /\ reported[j] = "none" /\ command[j] = "none"
    BY <1>7 DEF Submit, Goto, Fresh, awsVars
  <2>2. frame'[t].job = j
    BY <1>7 DEF Submit, NoFrame
  <2> QED
    BY <2>1, <2>2 DEF Asking, Sends, HasSent
<1>8. CASE SubmitUninitialized(t) \/ SaveJob(t)
  <2>1. pc'[t] = "idle" /\ UNCHANGED host
    BY <1>8 DEF SubmitUninitialized, SaveJob, Return, Goto, awsVars
  <2> QED
    BY <1>3, <2>1 DEF SubmitSteps, Asking, Sends, HasSent
<1>9. CASE TakeCold(t)
  BY <1>4, <1>9 DEF TakeCold, Goto, awsVars, OwnHosts, SubmitSteps, Asking, Sends, HasSent
<1>10. CASE Create(t)
  <2>1. CASE Return(t) /\ UNCHANGED host
    BY <1>3, <2>1 DEF Return, Goto, SubmitSteps, Asking, Sends, HasSent
  <2>2. CASE \E i \in Instances : RunInstance(i, frame[t].job) /\ Goto(t, "wait") /\ frame' = [frame EXCEPT ![t].rid = i]
    <3>1. PICK i \in Instances : RunInstance(i, frame[t].job) /\ Goto(t, "wait") /\ frame' = [frame EXCEPT ![t].rid = i]
      BY <2>2
    <3>2. pc'[t] = "wait" /\ frame'[t].rid = i /\ frame'[t].job = frame[t].job /\ UNCHANGED reported
      BY <1>6, <1>10, <3>1 DEF Create, Goto, Frame
    <3>3. UNCHANGED <<command, host>> /\ ec2[i] = "unused" /\ ec2'[i] = "running"
      BY <1>1, <3>1 DEF RunInstance, ModeTypeOK, AwsTypeOK
    <3>4. \A j \in Jobs : host[j] # i
      BY <3>3 DEF OwnHosts
    <3> QED
      BY <1>3, <1>4, <1>10, <3>2, <3>3, <3>4 DEF Create, OwnHosts, SubmitSteps, Asking, Sends, HasSent
  <2> QED
    BY <1>10, <2>1, <2>2 DEF Create, RunInstanceFails
<1>11. CASE WaitRunning(t)
  <2>1. UNCHANGED <<command, host, reported>>
    BY <1>11 DEF WaitRunning, TrackInstance, WaitFails, awsVars
  <2>2. pc[t] = "wait" /\ (pc'[t] = "idle" \/ (pc'[t] = "deliver" /\ UNCHANGED frame))
    BY <1>1, <1>11 DEF WaitRunning, Return, Goto
  <2>3. ec2'[frame[t].rid] # "unused" /\ \A j \in Jobs : host'[j] # frame[t].rid
    BY <1>2, <1>5, <2>1, <2>2 DEF OwnHosts, SubmitSteps
  <2>4. command[frame[t].job] = "none"
    BY <2>2 DEF OwnHosts, Sends
  <2> QED
    BY <1>3, <1>4, <2>1, <2>2, <2>3, <2>4 DEF SubmitSteps, Asking, Sends, HasSent
<1>12. CASE Deliver(t)
  <2>1. pc[t] = "deliver" /\ UNCHANGED reported
    BY <1>12 DEF Deliver
  <2>2. CASE SendCommandFails(frame[t].rid) /\ Abandon(frame[t].rid) /\ Return(t)
    <3>1. pc'[t] = "idle" /\ UNCHANGED host
      BY <2>2 DEF Return, Goto, Abandon, Terminate
    <3> QED
      BY <1>3, <3>1 DEF SubmitSteps, Asking, Sends, HasSent
  <2>3. CASE SendCommand(frame[t].rid, frame[t].job) /\ Goto(t, "track_cold") /\ UNCHANGED frame
    <3>1. pc'[t] = "track_cold" /\ host' = [host EXCEPT ![frame[t].job] = frame[t].rid]
      BY <2>3 DEF Goto, SendCommand, StartCommand
    <3>2. host'[frame[t].job] = frame[t].rid
      BY <1>4, <2>1, <3>1 DEF SubmitSteps, ModeTypeOK, AwsTypeOK
    <3>3. ec2[frame[t].rid] # "unused" /\ \A j \in Jobs : host[j] # frame[t].rid
      BY <2>1 DEF OwnHosts
    <3>4. Hosts
      BY <1>2, <1>5, <2>1, <3>1, <3>2, <3>3 DEF OwnHosts, SubmitSteps, ModeTypeOK, AwsTypeOK
    <3> QED
      BY <1>4, <2>1, <2>3, <3>1, <3>2, <3>4 DEF SubmitSteps, Asking, Sends, HasSent
  <2> QED
    BY <1>12, <2>2, <2>3 DEF Deliver
<1>13. CASE TrackCold(t)
  <2>1. UNCHANGED <<host, reported>> /\ pc[t] = "track_cold" /\ (pc'[t] = "idle" \/ (pc'[t] = "record" /\ UNCHANGED frame))
    BY <1>13 DEF TrackCold, TrackCommand, Abandon, Terminate, Return, Goto, awsVars
  <2> QED
    BY <1>3, <1>4, <2>1 DEF OwnHosts, SubmitSteps, Asking, Sends, HasSent
<1>14. CASE RecordJob(t)
  <2>1. UNCHANGED <<host, reported>> /\ pc[t] = "record" /\ pc'[t] = "save_job"
    BY <1>14 DEF RecordJob, Goto, awsVars
  <2>2. frame'[t].job = frame[t].job /\ frame'[t].rid = frame[t].rid
    BY <1>6, <1>14 DEF RecordJob, Frame
  <2> QED
    BY <1>3, <1>4, <2>1, <2>2 DEF OwnHosts, SubmitSteps, Asking, Sends, HasSent
<1>15. ~TakeWarm(t) /\ ~DispatchWarm(t) /\ ~TrackWarm(t)
  BY <1>1 DEF TakeWarm, DispatchWarm, TrackWarm, OwnHosts
<1> QED
  BY <1>3, <1>7, <1>8, <1>9, <1>10, <1>11, <1>12, <1>13, <1>14, <1>15 DEF SubmitStep

\* Every step keeps every command on an instance of its own.
LEMMA OwnHostsStep ==
  ASSUME TypeOK, OwnHosts, SentToHost, OneShotCaller, [Next]_vars
  PROVE  OwnHosts'
<1>1. \A i \in Instances : /\ ec2'[i] # "gone"
                           /\ ec2[i] # "unused" => ec2'[i] # "unused"
  BY InstancesStep DEF OneShotCaller, OwnHosts
<1>2. ASSUME NEW t \in Threads, Turned(t)
      PROVE  OwnHosts'
  <2>1. UNCHANGED host
    BY <1>2, TurnedCommands DEF Ending
  <2>2. /\ pc'[t] \notin SubmitSteps /\ pc'[t] \notin Sends /\ pc'[t] \notin HasSent
        /\ pc'[t] \notin {"dispatch_warm", "track_warm", "wait", "deliver"}
        /\ pc'[t] \in Asking => \A j \in frame'[t].jobs : reported'[j] # "none"
    <3>1. TypeOK' /\ (pc'[t] \in Asking => frame'[t].jobs \subseteq Jobs)
      BY TypeStep DEF TypeOK, CallsTypeOK, Frame
    <3> QED
      BY <1>2, <3>1, TurnedTells DEF SubmitSteps, Sends, HasSent
  <2> QED
    BY <1>1, <2>1, <2>2 DEF OwnHosts, OneShotCaller, OneThread
<1>3. CASE Restart
  <2>1. UNCHANGED host /\ \A t \in Threads : pc'[t] = "idle"
    BY <1>3 DEF Restart
  <2> QED
    BY <1>1, <2>1 DEF OwnHosts, SubmitSteps, Asking, Sends, HasSent
<1>4. CASE Tick \/ Environment \/ UNCHANGED vars
  <2>1. UNCHANGED <<pc, frame, reported, host>>
    BY <1>4 DEF Tick, Environment, vars, callVars, awsVars, FinishCommand, ShutDownAfter, Reclaim, Terminate, ForgetInstance,
       HandleInstanceInterruption
  <2>2. \A j \in Jobs : command[j] = "none" => command'[j] = "none"
    BY <1>4 DEF Tick, Environment, vars, awsVars, FinishCommand, ShutDownAfter, Reclaim, Terminate, ForgetInstance,
       HandleInstanceInterruption, TypeOK, ModeTypeOK, AwsTypeOK
  <2>3. \A t \in Threads : /\ pc[t] \in Sends => frame[t].job \in Jobs
                           /\ pc[t] \in {"wait", "deliver"} => frame[t].rid \in Instances
    BY DEF TypeOK, SubmitOK, SubmitSteps, Sends
  <2> QED
    BY <1>1, <2>1, <2>2, <2>3 DEF OwnHosts
<1> QED
  BY <1>2, <1>3, <1>4, SubmitOwns DEF Next, Rest, Continue, Call, Turned

\* What a call's step leaves of the books and the documents: a record's job, an entry's
\* instance, the stored document and the copy to be written change in these ways only.
LEMMA BooksStay ==
  ASSUME TypeOK, NEW t \in Threads, Call(t) \/ Continue(t), ~RecordJob(t)
  PROVE  /\ \A i \in Instances : resources'[i].job \in {resources[i].job, NoJob}
         /\ \A j \in Jobs : \/ job_map'[j].rid = job_map[j].rid
                            \/ Clear(t)
                            \/ Forget(t) /\ \E i \in frame[t].rids : resources[i].job = j
         /\ \/ UNCHANGED provider_store
            \/ Clear(t) /\ provider_store' = NoDocument
            \/ pc[t] \in Saves /\ provider_store' = frame[t].state
         /\ \/ frame'[t].state \in {frame[t].state, NoDocument}
            \/ frame'[t].state.resources = resources'
<1> USE DEF TypeOK, CallsTypeOK
<1> DEFINE Records == \A i \in Instances : resources'[i].job \in {resources[i].job, NoJob}
           Entries == \A j \in Jobs : job_map'[j].rid = job_map[j].rid
           Store == \/ UNCHANGED provider_store
                    \/ Clear(t) /\ provider_store' = NoDocument
                    \/ pc[t] \in Saves /\ provider_store' = frame[t].state
           Copy == frame'[t].state \in {frame[t].state, NoDocument} \/ frame'[t].state.resources = resources'
<1>1. frame[t] \in Frame /\ NoFrame \in Frame /\ NoFrame.state = NoDocument
  BY NoFrameType DEF NoFrame
<1>2. Return(t) => Copy
  BY <1>1 DEF Return
<1>3. ToCleanup(t) => Copy
  BY <1>1, <1>2 DEF ToCleanup, Frame
<1>4. UNCHANGED provVars => Records /\ Entries /\ Store
  BY DEF provVars
<1>5. ASSUME NEW J, NEW m, WriteBack(J, m)
      PROVE  Records /\ Entries /\ Store
  <2>1. \A i \in Instances : resources[i] \in Record
    BY DEF BooksTypeOK
  <2>2. \A r \in Record : \A s : [r EXCEPT !.status = s].job = r.job
    BY DEF Record, NoRecord
  <2>3. Records
    BY <1>5, <2>1, <2>2 DEF WriteBack
  <2> QED
    BY <1>5, <2>3, WriteBackLeads
<1>6. ASSUME NEW i, MarkWarm(i)
      PROVE  Records /\ Entries /\ Store
  <2>1. \A k \in Instances : resources[k] \in Record
    BY DEF BooksTypeOK
  <2>2. \A r \in Record : \A s : [r EXCEPT !.status = s].job = r.job
    BY DEF Record, NoRecord
  <2> QED
    BY <1>6, <2>1, <2>2 DEF MarkWarm, BooksTypeOK
<1>7. CASE SubmitStep(t) \/ \E j \in Jobs : Submit(t, j)
  <2>1. CASE SaveJob(t)
    BY <1>2, <2>1 DEF SaveJob, WriteState, Saves
  <2>2. CASE \E j \in Jobs : Submit(t, j)
    BY <1>1, <1>4, <2>2 DEF Submit, Frame
  <2>3. CASE SubmitUninitialized(t) \/ TakeCold(t) \/ DispatchWarm(t) \/ TrackWarm(t) \/ WaitRunning(t)
    BY <1>2, <1>4, <2>3 DEF SubmitUninitialized, TakeCold, DispatchWarm, TrackWarm, WaitRunning
  <2>4. CASE Deliver(t) \/ TrackCold(t)
    BY <1>2, <1>4, <2>4 DEF Deliver, TrackCold
  <2>5. CASE TakeWarm(t)
    BY <1>1, <1>4, <2>5 DEF TakeWarm, Frame
  <2>6. CASE Create(t)
    BY <1>1, <1>2, <1>4, <2>6 DEF Create, Frame
  <2> QED
    BY <1>7, <2>1, <2>2, <2>3, <2>4, <2>5, <2>6 DEF SubmitStep
<1>8. CASE StatusBegin(t) \/ ScaleIn(t) \/ Shutdown(t) \/ ScaleInCancels(t) \/ \E J \in SUBSET Jobs : Cancel(t, J)
  <2>1. ASSUME NEW method, NEW J, Collect(t, method, J)
        PROVE  frame'[t].state = NoDocument
    BY <2>1 DEF Collect, NoFrame
  <2>2. CASE StatusBegin(t)
    BY <1>4, <2>2 DEF StatusBegin, NoFrame
  <2>3. CASE ScaleIn(t)
    BY <1>4, <2>3 DEF ScaleIn, NoFrame
  <2>4. CASE Shutdown(t)
    <3>1. frame'[t].state = NoDocument
      BY <2>1, <2>4 DEF Shutdown, NoFrame
    <3> QED
      BY <1>4, <2>4, <3>1 DEF Shutdown
  <2>5. CASE ScaleInCancels(t) \/ \E J \in SUBSET Jobs : Cancel(t, J)
    BY <1>4, <2>1, <2>5 DEF Cancel, ScaleInCancels
  <2> QED
    BY <1>8, <2>2, <2>3, <2>4, <2>5
<1>9. CASE Group(t) \/ PollSsm(t) \/ PollEc2(t)
  BY <1>1, <1>4, <1>9 DEF Group, PollSsm, PollEc2, Heard, Frame
<1>10. CASE PollRaises(t)
  BY <1>3, <1>4, <1>10 DEF PollRaises
<1>11. CASE StatusUpdate(t)
  <2>1. frame'[t].state = Snapshot
    BY <1>1, <1>11 DEF StatusUpdate, Frame, NoFrame
  <2> QED
    BY <1>5, <1>11, <2>1 DEF StatusUpdate, Snapshot
<1>12. CASE SaveStatus(t) \/ SavePass(t) \/ SaveCancel(t)
  <2>1. UNCHANGED <<resources, job_map>> /\ pc[t] \in Saves /\ provider_store' = frame[t].state
    BY <1>12 DEF SaveStatus, SavePass, SaveCancel, WriteState, Saves
  <2>2. Copy
    BY <1>1, <1>2, <1>3, <1>12 DEF SaveStatus, SavePass, SaveCancel, Frame, NoFrame
  <2> QED
    BY <2>1, <2>2
<1>13. CASE CancelCall(t)
  BY <1>1, <1>4, <1>13 DEF CancelCall, Frame
<1>14. CASE CancelUpdate(t)
  BY <1>3, <1>5, <1>14 DEF CancelUpdate
<1>15. CASE Scan(t) \/ PoolSnapshot(t) \/ Unlist(t) \/ TerminateDoomed(t)
  <2>1. CASE Scan(t)
    <3>1. PICK next, rids, todo : frame'[t] = IF next = "idle" THEN NoFrame ELSE [frame[t] EXCEPT !.rids = rids, !.todo = todo]
      BY <2>1 DEF Scan
    <3>2. Copy
      BY <1>1, <3>1 DEF Frame
    <3> QED
      BY <1>4, <2>1, <3>2 DEF Scan
  <2>2. CASE PoolSnapshot(t) \/ Unlist(t) \/ TerminateDoomed(t)
    BY <1>1, <1>4, <2>2 DEF PoolSnapshot, Unlist, TerminateDoomed, Frame
  <2> QED
    BY <1>15, <2>1, <2>2
<1>16. CASE TransitionSkipped(t) \/ TransitionToPool(t) \/ TransitionEvicting(t)
  <2>1. PICK i, rids, pool, dirty : TransitionRound(t, i, rids, pool, dirty)
    BY <1>16 DEF TransitionSkipped, TransitionToPool, TransitionEvicting
  <2>2. Copy
    BY <1>1, <2>1 DEF TransitionRound, Frame
  <2> QED
    BY <1>4, <1>6, <1>16, <2>2 DEF TransitionSkipped, TransitionToPool, TransitionEvicting
<1>17. CASE Forget(t)
  <2>1. frame'[t].state = Snapshot
    BY <1>1, <1>17 DEF Forget, Frame
  <2> QED
    BY <1>17, <2>1 DEF Forget, Snapshot, NoRecord
<1>18. CASE SavePassMode(t)
  BY <1>1, <1>2, <1>4, <1>18 DEF SavePassMode, Frame, NoFrame
<1>19. CASE Finish(t)
  <2>1. frame'[t].state = Snapshot
    BY <1>1, <1>19 DEF Finish, Frame, NoFrame
  <2> QED
    BY <1>4, <1>19, <2>1 DEF Finish, Snapshot
<1>20. CASE Infrastructure(t) \/ Deinitialize(t)
  BY <1>4, <1>20 DEF Infrastructure, Deinitialize
<1>21. CASE Clear(t)
  BY <1>21 DEF Clear, NoRecord
<1>22. CASE Erase(t)
  BY <1>2, <1>4, <1>22 DEF Erase
<1> QED
  BY <1>7, <1>8, <1>9, <1>10, <1>11, <1>12, <1>13, <1>14, <1>15, <1>16, <1>17, <1>18, <1>19, <1>20, <1>21, <1>22
     DEF Call, Continue, StatusStep, CancelStep, CleanupStep, ShutdownStep

\* A job that has a host keeps it.
LEMMA HostsStay ==
  ASSUME TypeOK, OwnHosts, SentToHost, [Next]_vars, NEW j \in Jobs, host[j] \in Instances
  PROVE  host'[j] = host[j]
<1>1. ASSUME NEW t \in Threads, NEW i \in Instances, Sending(t, i)
      PROVE  host'[j] = host[j]
  <2>1. frame[t].job \in Jobs /\ command[frame[t].job] = "none"
    BY <1>1 DEF Sending, OwnHosts, Sends, TypeOK, SubmitOK, SubmitSteps
  <2>2. frame[t].job # j
    BY <2>1 DEF SentToHost
  <2> QED
    BY <1>1, <2>2 DEF Sending, StartCommand, TypeOK, ModeTypeOK, AwsTypeOK
<1> QED
  BY <1>1, CommandStep DEF Ending

\* Every record still names the job that was sent to its instance.
LEMMA DocumentsKnowStep ==
  ASSUME TypeOK, TypeOK', OwnHosts, SentToHost, OneShotCaller, DocumentsKnow, [Next]_vars
  PROVE  DocumentsKnow'
<1> USE DEF TypeOK, CallsTypeOK
<1> DEFINE Stays(r) == \A i \in Instances : r[i].job # NoJob => host'[r[i].job] = i
<1>1. /\ \A i \in Instances : resources[i].job \in Jobs \cup {NoJob}
      /\ \A i \in Instances : provider_store.resources[i].job \in Jobs \cup {NoJob}
      /\ \A t \in Threads : \A i \in Instances : frame[t].state.resources[i].job \in Jobs \cup {NoJob}
  BY DEF BooksTypeOK, Record, NoRecord, ProviderDocument, Frame
<1>2. Stays(resources) /\ Stays(provider_store.resources) /\ \A t \in Threads : Stays(frame[t].state.resources)
  BY <1>1, HostsStay DEF DocumentsKnow, NamesSent
<1>3. Stays(NoDocument.resources)
  BY DEF NoDocument, NoRecord
<1> SUFFICES /\ Stays(resources') /\ Stays(provider_store'.resources)
             /\ \A t \in Threads : Stays(frame'[t].state.resources)
  BY DEF DocumentsKnow, NamesSent
<1>4. CASE Tick \/ Environment \/ UNCHANGED vars
  <2>1. UNCHANGED <<resources, provider_store, frame>>
    BY <1>4 DEF Tick, Environment, vars, provVars, callVars
  <2> QED
    BY <1>2, <2>1
<1>5. CASE Restart
  <2>1. /\ resources' = provider_store.resources /\ UNCHANGED provider_store
        /\ \A t \in Threads : frame'[t].state = NoDocument
    BY <1>5 DEF Restart, NoFrame
  <2> QED
    BY <1>2, <1>3, <2>1
<1>6. ASSUME NEW t \in Threads, RecordJob(t)
      PROVE  Stays(resources') /\ Stays(provider_store'.resources) /\ Stays(frame'[t].state.resources)
  <2>1. /\ resources' = [resources EXCEPT ![frame[t].rid] = [job |-> frame[t].job, status |-> "PENDING"]]
        /\ UNCHANGED <<provider_store, host>> /\ pc[t] = "record"
    BY <1>6 DEF RecordJob, awsVars
  <2>2. frame[t].rid \in Instances /\ host[frame[t].job] = frame[t].rid
    BY <2>1 DEF SubmitOK, SubmitSteps, OwnHosts, HasSent
  <2>3. Stays(resources')
    BY <1>2, <2>1, <2>2 DEF BooksTypeOK
  <2>4. frame'[t].state.resources = resources'
    BY <1>6 DEF RecordJob, Snapshot, Frame
  <2> QED
    BY <1>2, <2>1, <2>3, <2>4
<1>7. ASSUME NEW t \in Threads, Call(t) \/ Continue(t), ~RecordJob(t)
      PROVE  Stays(resources') /\ Stays(provider_store'.resources) /\ Stays(frame'[t].state.resources)
  <2>1. Stays(resources')
    BY <1>2, <1>7, BooksStay
  <2>2. Stays(provider_store'.resources)
    BY <1>2, <1>3, <1>7, BooksStay
  <2>3. Stays(frame'[t].state.resources)
    BY <1>2, <1>3, <1>7, <2>1, BooksStay
  <2> QED
    BY <2>1, <2>2, <2>3
<1> QED
  BY <1>4, <1>5, <1>6, <1>7 DEF Next, Rest, OneShotCaller, OneThread

\* An accepted job at work was so before, unless its submit() has just returned.
LEMMA WorkStep ==
  ASSUME TypeOK, OwnHosts, SentToHost, OneShotCaller, [Next]_vars, NEW j \in AtWork'
  PROVE  /\ host'[j] = host[j] /\ host[j] \in Instances
         /\ \/ j \in AtWork
            \/ \E t \in Threads : SaveJob(t) /\ j = frame[t].job
<1> USE DEF TypeOK, CallsTypeOK
<1>0. j \in Jobs /\ reported'[j] # "none" /\ command'[j] = "inprogress"
  BY DEF AtWork
<1>1. reported[j] # "none" \/ \E t \in Threads : SaveJob(t) /\ j = frame[t].job
  <2>1. ASSUME NEW t \in Threads, Turned(t)
        PROVE  reported[j] # "none"
    BY <1>0, <2>1, TurnedTells
  <2>2. ASSUME NEW t \in Threads, SaveJob(t)
        PROVE  reported[j] # "none" \/ j = frame[t].job
    BY <1>0, <2>2 DEF SaveJob
  <2>3. ASSUME NEW t \in Threads, SubmitStep(t) \/ (\E k \in Jobs : Submit(t, k)), ~SaveJob(t)
        PROVE  UNCHANGED reported
    BY <2>3 DEF SubmitStep, Submit, SubmitUninitialized, TakeWarm, TakeCold, DispatchWarm, TrackWarm, Create, WaitRunning,
       Deliver, TrackCold, RecordJob
  <2>4. Restart => reported'[j] = "none"
    BY <1>0 DEF Restart
  <2>5. Tick \/ Environment \/ UNCHANGED vars => UNCHANGED reported
    BY DEF Tick, Environment, vars
  <2> QED
    BY <1>0, <2>1, <2>2, <2>3, <2>4, <2>5 DEF Next, Rest, Call, Continue, Turned
<1>2. command[j] = "inprogress"
  <2>1. CASE Ending
    BY <1>0, <2>1 DEF Ending
  <2>2. ASSUME NEW t \in Threads, NEW i \in Instances, Sending(t, i), command[j] # "inprogress"
        PROVE  FALSE
    <3>1. pc[t] \in SubmitSteps /\ pc[t] # "save_job" /\ reported[frame[t].job] = "none"
      BY <2>2 DEF Sending, SubmitSteps, OwnHosts
    <3>2. j = frame[t].job
      BY <1>0, <2>2 DEF Sending, StartCommand, ModeTypeOK, AwsTypeOK
    <3> QED
      BY <1>1, <3>1, <3>2 DEF SaveJob, OneShotCaller, OneThread
  <2> QED
    BY <2>1, <2>2, CommandStep
<1>3. host[j] \in Instances
  BY <1>0, <1>2 DEF SentToHost
<1> QED
  BY <1>0, <1>1, <1>2, <1>3, HostsStay DEF AtWork

\* An accepted job at work, or the job of a submit() that has recorded its command, keeps
\* its record in the mode and in the mode's document.
LEMMA ChargeStep ==
  ASSUME TypeOK, OwnHosts, OneShotCaller, NEW t \in Threads, Call(t) \/ Continue(t), ~Erase(t),
         NEW j \in Jobs, NEW i \in Instances, host[j] = i, InCharge(j, i), command'[j] = "inprogress",
         pc[t] \in SubmitSteps \ {"record", "save_job"} => j # frame[t].job
  PROVE  InCharge(j, i)'
<1> USE DEF TypeOK
<1>1. Tracked(i) /\ mode_resources[i].cmd = j /\ mode_store.resources[i].cmd = j
  BY DEF InCharge
<1>2. ~Silenced(i)
  BY DEF Silenced
<1>3. CASE Turned(t)
  BY <1>1, <1>2, <1>3, OthersInCharge DEF StaysInCharge, InCharge
<1>4. CASE SubmitStep(t)
  <2>1. ~(pc[t] \in {"wait", "track_cold"} /\ frame[t].rid = i)
    <3>1. pc[t] = "wait" => \A k \in Jobs : host[k] # frame[t].rid
      BY DEF OwnHosts
    <3>2. pc[t] = "track_cold" => host[frame[t].job] = frame[t].rid /\ frame[t].job \in Jobs /\ frame[t].job # j
      BY DEF OwnHosts, HasSent, SubmitOK, SubmitSteps
    <3> QED
      BY <3>1, <3>2, ModeAssumption DEF OwnHosts
  <2> QED
    BY <1>1, <1>2, <1>4, <2>1, SubmitInCharge DEF StaysInCharge, InCharge
<1>5. CASE \E k \in Jobs : Submit(t, k)
  BY <1>1, <1>5 DEF Submit, modeVars, Tracked, InCharge
<1> QED
  BY <1>3, <1>4, <1>5 DEF Call, Continue, Turned

\* What the environment does to records leaves them with their jobs.
LEMMA ChargeOutside ==
  ASSUME TypeOK, Tick \/ Environment \/ UNCHANGED vars, NEW j \in Jobs, NEW i \in Instances, InCharge(j, i)
  PROVE  InCharge(j, i)'
<1>1. CASE UNCHANGED <<mode_resources, mode_store>>
  BY <1>1 DEF InCharge, Tracked
<1>2. CASE \E k \in Instances : HandleInstanceInterruption(k)
  <2>1. \/ mode_resources'[i] = mode_resources[i]
        \/ \E s \in Status : mode_resources'[i] = [mode_resources[i] EXCEPT !.status = s]
    BY <1>2 DEF HandleInstanceInterruption, Status, TypeOK, ModeTypeOK
  <2>2. UNCHANGED mode_store
    BY <1>2 DEF HandleInstanceInterruption
  <2> QED
    BY <2>1, <2>2, StatusesInCharge DEF InCharge, TypeOK
<1> QED
  BY <1>1, <1>2 DEF Tick, Environment, vars, modeVars, FinishCommand, ShutDownAfter, Reclaim, ForgetInstance

\* After every step of a call both documents lead an accepted job at work to its instance.
LEMMA WorkAdopted ==
  ASSUME TypeOK, OwnHosts, SentToHost, OneShotCaller, DocumentsKnow, StoreFollows, Adoptable, [Next]_vars,
         NEW t \in Threads, Call(t) \/ Continue(t), NEW j \in AtWork', NEW i \in Instances, host[j] = i
  PROVE  InCharge(j, i)' /\ job_map'[j].rid = i /\ provider_store'.job_map[j].rid = i
<1>0. j \in Jobs /\ command'[j] = "inprogress"
  BY DEF AtWork
<1>1. (j \in AtWork /\ ~SaveJob(t)) \/ (SaveJob(t) /\ j \in AtWork \cup {frame[t].job})
  BY WorkStep DEF OneShotCaller, OneThread
<1>2. SaveJob(t) => /\ pc[t] = "save_job" /\ InCharge(frame[t].job, frame[t].rid)
                    /\ job_map[frame[t].job].rid = frame[t].rid /\ host[frame[t].job] = frame[t].rid
  BY DEF SaveJob, Adoptable, OwnHosts, HasSent
<1>3. InCharge(j, i) /\ job_map[j].rid = i
  BY <1>1, <1>2 DEF Adoptable
<1>4. ~Clear(t) /\ ~Erase(t)
  BY <1>1, <1>2 DEF Adoptable, Clear, Erase
<1>5. pc[t] \in SubmitSteps \ {"record", "save_job"} => j # frame[t].job
  BY <1>1, <1>2 DEF OwnHosts, AtWork
<1>6. InCharge(j, i)'
  BY <1>0, <1>3, <1>4, <1>5, ChargeStep
<1>7. CASE RecordJob(t)
  <2>1. pc[t] = "record" /\ j \in AtWork /\ UNCHANGED provider_store
    BY <1>1, <1>2, <1>7 DEF RecordJob
  <2>2. j # frame[t].job
    BY <2>1 DEF OwnHosts, AtWork, SubmitSteps
  <2>3. job_map'[j] = job_map[j]
    BY <1>0, <1>7, <2>2 DEF RecordJob, TypeOK, BooksTypeOK
  <2> QED
    BY <1>3, <1>6, <2>1, <2>3 DEF Adoptable
<1>8. CASE ~RecordJob(t)
  <2>1. job_map'[j].rid = i
    <3>1. ASSUME Forget(t), NEW k \in frame[t].rids, resources[k].job = j
          PROVE  FALSE
      <4>1. k \in Instances /\ j # NoJob
        BY <1>0, ModeAssumption DEF TypeOK, CallsTypeOK, Frame
      <4>2. host[j] = k
        BY <3>1, <4>1 DEF DocumentsKnow, NamesSent
      <4>3. pc[t] = "forget" /\ j \in AtWork
        BY <1>1, <1>2, <3>1 DEF Forget
      <4> QED
        BY <4>2, <4>3 DEF Adoptable
    <3> QED
      BY <1>0, <1>3, <1>4, <1>8, <3>1, BooksStay
  <2>2. CASE pc[t] \in Saves /\ provider_store' = frame[t].state
    BY <1>0, <1>3, <1>6, <2>1, <2>2 DEF StoreFollows, LeadsAlike
  <2>3. CASE UNCHANGED provider_store /\ ~SaveJob(t)
    BY <1>1, <1>6, <2>1, <2>3 DEF Adoptable
  <2>4. SaveJob(t) => pc[t] \in Saves /\ provider_store' = frame[t].state
    BY DEF SaveJob, WriteState, Saves
  <2>5. \/ UNCHANGED provider_store /\ ~SaveJob(t)
        \/ pc[t] \in Saves /\ provider_store' = frame[t].state
    BY <1>4, <1>8, <2>4, BooksStay
  <2> QED
    BY <1>6, <2>1, <2>2, <2>3, <2>5
<1> QED
  BY <1>7, <1>8

\* What brings a call to its last step of a pass, or of shutdown(), over records.
LEMMA EndsOfPasses ==
  ASSUME TypeOK, NEW t \in Threads, Turned(t)
  PROVE  /\ pc'[t] = "forget" => TerminateDoomed(t) \/ frame'[t].rids = {}
         /\ pc'[t] = "deinitialize" => Infrastructure(t)
         /\ pc'[t] = "clear" => Deinitialize(t)
         /\ pc'[t] = "erase" => Clear(t)
<1> USE DEF TypeOK, CallsTypeOK
<1>1. CASE \/ SubmitUninitialized(t) \/ StatusStep(t) \/ StatusBegin(t)
           \/ ScaleIn(t) \/ CancelCall(t) \/ CancelUpdate(t)
  BY <1>1 DEF SubmitUninitialized, StatusStep, StatusBegin, Group, PollSsm, PollEc2, PollRaises, StatusUpdate, SaveStatus,
     ScaleIn, CancelCall, CancelUpdate, Heard, ToCleanup, Return, Goto
<1>2. CASE ScaleInCancels(t) \/ Shutdown(t) \/ \E J \in SUBSET Jobs : Cancel(t, J)
  BY <1>2 DEF ScaleInCancels, Shutdown, Cancel, Collect, Goto
<1>3. CASE Scan(t)
  <2>1. \A rids : AfterPool(t, rids, FALSE) \notin {"forget", "deinitialize", "clear", "erase"}
    BY DEF AfterPool
  <2> QED
    BY <1>3, <2>1 DEF Scan, Goto
<1>4. CASE TransitionSkipped(t) \/ TransitionToPool(t) \/ TransitionEvicting(t)
  <2>1. PICK i, rids, pool, dirty : TransitionRound(t, i, rids, pool, dirty)
    BY <1>4 DEF TransitionSkipped, TransitionToPool, TransitionEvicting
  <2>2. /\ AfterPool(t, rids, dirty) = "forget" => rids = {}
        /\ AfterPool(t, rids, dirty) \notin {"deinitialize", "clear", "erase"}
    BY DEF AfterPool
  <2> DEFINE rest == frame[t].todo \ {i}
             next == IF rest # {} THEN "transition" ELSE AfterPool(t, rids, dirty)
             todo == IF next = "unlist" THEN rids ELSE rest
  <2>3. pc'[t] = next
    BY <2>1 DEF TransitionRound, Goto
  <2>4. next # "idle" =>
          frame'[t] = [frame[t] EXCEPT !.rids = rids, !.dirty = dirty, !.pool = pool, !.todo = todo]
    BY <2>1 DEF TransitionRound
  <2>5. (next = "forget" => rids = {}) /\ next \notin {"deinitialize", "clear", "erase"}
    BY <2>2
  <2> HIDE DEF rest, next, todo
  <2>6. frame[t] \in Frame
    OBVIOUS
  <2>7. next = "forget" => frame'[t].rids = rids
    BY <2>4, <2>6 DEF Frame
  <2> QED
    BY <2>3, <2>5, <2>7
<1>5. CASE PoolSnapshot(t) \/ Unlist(t) \/ TerminateDoomed(t) \/ Forget(t) \/ SavePass(t)
  BY <1>5 DEF PoolSnapshot, Unlist, TerminateDoomed, Forget, SavePass, Goto
<1>6. CASE SavePassMode(t) \/ Finish(t) \/ SaveCancel(t)
  BY <1>6 DEF SavePassMode, Finish, SaveCancel, Return, Goto
<1>7. CASE ShutdownStep(t)
  BY <1>7 DEF ShutdownStep, Infrastructure, Deinitialize, Clear, Erase, Return, Goto
<1> QED
  BY <1>1, <1>2, <1>3, <1>4, <1>5, <1>6, <1>7 DEF Turned, CancelStep, CleanupStep

\* What the next step of a submit() or of a pass will rely on.
LEMMA CallAdopts ==
  ASSUME TypeOK, OwnHosts, SentToHost, OneShotCaller, Adoptable, [Next]_vars, NEW t \in Threads, Call(t) \/ Continue(t)
  PROVE  /\ pc'[t] \in {"record", "save_job"} => InCharge(frame[t].job, frame[t].rid)'
         /\ pc'[t] = "save_job" => job_map'[frame'[t].job].rid = frame'[t].rid
         /\ pc'[t] = "forget" => \A j \in AtWork' : host'[j] \notin frame'[t].rids
         /\ pc'[t] \in {"deinitialize", "clear", "erase"} => AtWork' = {}
<1> USE DEF TypeOK, CallsTypeOK
<1>1. \A j \in AtWork' : j \in AtWork \/ SaveJob(t)
  BY WorkStep DEF OneShotCaller, OneThread
<1>2. \A j \in AtWork' : j \in Jobs /\ host'[j] = host[j] /\ host[j] \in Instances
  BY WorkStep DEF AtWork
<1>3. ASSUME NEW S \in SUBSET Instances, CleanupResources(S), NEW j \in AtWork', ~SaveJob(t)
      PROVE  host[j] \notin S
  <2>1. PICK i \in Instances : i = host[j]
    BY <1>2
  <2>2. Tracked(i) /\ command'[j] = "inprogress" /\ j \in Jobs
    BY <1>1, <1>3, <2>1 DEF Adoptable, InCharge, AtWork
  <2>3. ~Silenced(i)
    BY <2>1, <2>2 DEF Silenced
  <2> QED
    BY <1>3, <2>1, <2>2, <2>3, CleanedUp
<1>4. CASE Turned(t)
  <2>1. pc'[t] \notin {"record", "save_job"}
    BY <1>4, TurnedTells DEF SubmitSteps
  <2>2. ASSUME pc'[t] = "forget"
        PROVE  \A j \in AtWork' : host'[j] \notin frame'[t].rids
    <3>1. CASE TerminateDoomed(t)
      <4>1. frame[t].rids \in SUBSET Instances /\ CleanupResources(frame[t].rids) /\ UNCHANGED frame /\ ~SaveJob(t)
        BY <3>1 DEF TerminateDoomed, SaveJob, Frame
      <4> QED
        BY <1>2, <1>3, <4>1
    <3> QED
      BY <1>4, <2>2, <3>1, EndsOfPasses
  <2>3. ASSUME pc'[t] = "deinitialize"
        PROVE  AtWork' = {}
    <3>1. CleanupAll /\ ~SaveJob(t)
      BY <1>4, <2>3, EndsOfPasses DEF Infrastructure, SaveJob
    <3>2. \A j \in AtWork' : Tracked(host[j])
      BY <1>1, <3>1 DEF Adoptable, InCharge
    <3> QED
      BY <1>2, <1>3, <3>1, <3>2 DEF CleanupAll
  <2>4. ASSUME pc'[t] = "clear"
        PROVE  AtWork' = {}
    <3>1. pc[t] = "deinitialize"
      BY <1>4, <2>4, EndsOfPasses DEF Deinitialize
    <3> QED
      BY <1>1, <3>1 DEF Adoptable, SaveJob
  <2>5. ASSUME pc'[t] = "erase"
        PROVE  AtWork' = {}
    <3>1. pc[t] = "clear"
      BY <1>4, <2>5, EndsOfPasses DEF Clear
    <3> QED
      BY <1>1, <3>1 DEF Adoptable, SaveJob
  <2> QED
    BY <2>1, <2>2, <2>3, <2>4, <2>5
<1>5. CASE TrackCold(t)
  <2>1. CASE Return(t)
    BY <2>1 DEF Return, Goto
  <2>2. CASE TrackCommand(frame[t].rid, frame[t].job) /\ Goto(t, "record") /\ UNCHANGED frame
    <3>1. PICK i \in Instances, j \in Jobs : i = frame[t].rid /\ j = frame[t].job
      BY <1>5 DEF TrackCold, SubmitOK, SubmitSteps
    <3>2. mode_resources'[i] = [status |-> "RUNNING", cmd |-> j] /\ SaveMode
      BY <2>2, <3>1 DEF TrackCommand, ModeTypeOK
    <3>3. InCharge(j, i)'
      BY <3>2 DEF InCharge, Tracked, SaveMode, Absent
    <3>4. frame'[t].job = j /\ frame'[t].rid = i /\ pc'[t] = "record"
      BY <2>2, <3>1 DEF Goto
    <3> QED
      BY <3>3, <3>4
  <2> QED
    BY <1>5, <2>1, <2>2 DEF TrackCold
<1>6. CASE RecordJob(t)
  <2>1. PICK i \in Instances, j \in Jobs : i = frame[t].rid /\ j = frame[t].job
    BY <1>6 DEF RecordJob, SubmitOK, SubmitSteps
  <2>2. frame'[t].job = j /\ frame'[t].rid = i /\ pc[t] = "record" /\ pc'[t] = "save_job"
    BY <1>6, <2>1 DEF RecordJob, Goto, Frame
  <2>3. InCharge(j, i)'
    BY <1>6, <2>1, <2>2 DEF RecordJob, modeVars, Adoptable, InCharge, Tracked
  <2>4. job_map'[j].rid = i
    BY <1>6, <2>1 DEF RecordJob, BooksTypeOK
  <2> QED
    BY <2>2, <2>3, <2>4
<1>7. CASE (\E j \in Jobs : Submit(t, j)) \/ TakeCold(t) \/ Create(t) \/ WaitRunning(t) \/ Deliver(t) \/ SaveJob(t)
  <2>1. UsesSsmDispatch
    BY DEF OneShotCaller, UsesSsmDispatch
  <2>2. pc'[t] \in {"idle", "take", "create", "wait", "deliver", "track_cold"}
    BY <1>7, <2>1 DEF Submit, TakeCold, Create, WaitRunning, Deliver, SaveJob, Return, Goto
  <2> QED
    BY <2>2
<1>8. ~TakeWarm(t) /\ ~DispatchWarm(t) /\ ~TrackWarm(t)
  BY ModeAssumption DEF TakeWarm, DispatchWarm, TrackWarm, OwnHosts, OneShotCaller
<1> QED
  BY <1>4, <1>5, <1>6, <1>7, <1>8 DEF Call, Continue, SubmitStep, Turned

\* Every step keeps both documents fit for a successor.
LEMMA AdoptableStep ==
  ASSUME TypeOK, OwnHosts, SentToHost, OneShotCaller, DocumentsKnow, StoreFollows, Adoptable, [Next]_vars
  PROVE  Adoptable'
<1>1. ASSUME NEW t \in Threads, Call(t) \/ Continue(t)
      PROVE  Adoptable'
  <2>1. ASSUME NEW j \in AtWork'
        PROVE  InCharge(j, host[j])' /\ job_map'[j].rid = host'[j] /\ provider_store'.job_map[j].rid = host'[j]
    <3>1. PICK i \in Instances : i = host[j] /\ i = host'[j]
      BY <2>1, WorkStep
    <3>2. InCharge(j, i)' /\ job_map'[j].rid = i /\ provider_store'.job_map[j].rid = i
      BY <1>1, <2>1, <3>1, WorkAdopted
    <3> QED
      BY <3>1, <3>2
  <2> QED
    BY <1>1, <2>1, CallAdopts DEF Adoptable, OneShotCaller, OneThread
<1>2. CASE Tick \/ Environment \/ UNCHANGED vars
  <2>1. UNCHANGED <<pc, frame, job_map, provider_store>>
    BY <1>2 DEF Tick, Environment, vars, callVars, provVars
  <2>2. \A j \in AtWork' : j \in AtWork /\ host'[j] = host[j] /\ host[j] \in Instances
    <3>1. UNCHANGED reported
      BY <1>2 DEF Tick, Environment, vars
    <3>2. \A t \in Threads : SaveJob(t) => pc[t] = "save_job" /\ reported'[frame[t].job] = "PENDING" /\ pc'[t] = "idle"
      BY DEF SaveJob, Return, Goto, TypeOK, CallsTypeOK, SubmitOK, SubmitSteps
    <3> QED
      BY <2>1, <3>1, <3>2, WorkStep
  <2>3. \A j \in AtWork' : InCharge(j, host[j])'
    <3> SUFFICES ASSUME NEW j \in AtWork'
                 PROVE  InCharge(j, host[j])'
      OBVIOUS
    <3>1. PICK i \in Instances : i = host[j] /\ i = host'[j] /\ j \in Jobs /\ InCharge(j, i)
      BY <2>2 DEF Adoptable, AtWork
    <3> QED
      BY <1>2, <3>1, ChargeOutside
  <2>4. ASSUME NEW t \in Threads, pc[t] \in {"record", "save_job"}
        PROVE  InCharge(frame[t].job, frame[t].rid)'
    <3>1. PICK i \in Instances, j \in Jobs : i = frame[t].rid /\ j = frame[t].job /\ InCharge(j, i)
      BY <2>4 DEF Adoptable, TypeOK, SubmitOK, SubmitSteps
    <3> QED
      BY <1>2, <2>1, <3>1, ChargeOutside
  <2> QED
    BY <2>1, <2>2, <2>3, <2>4 DEF Adoptable
<1>3. CASE Restart
  <2>1. AtWork' = {} /\ \A t \in Threads : pc'[t] = "idle"
    BY <1>3 DEF Restart, AtWork
  <2> QED
    BY <2>1 DEF Adoptable
<1> QED
  BY <1>1, <1>2, <1>3 DEF Next, Rest

\* What is kept of a one-shot caller's provider, through crashes.
OneShotKept == TypeOK /\ SentToHost /\ StoreFollows /\ OwnHosts /\ DocumentsKnow /\ Adoptable

\* It is kept.
LEMMA OneShotIsKept ==
  ASSUME OneShotCaller
  PROVE  Spec => []OneShotKept
<1>1. Init => OneShotKept
  <2>1. Init => StoreFollows
    BY DEF Init, StoreFollows, LeadsAlike, Saves, NoDocument
  <2>2. ASSUME Init
        PROVE  OwnHosts /\ DocumentsKnow /\ Adoptable
    <3>1. /\ \A i \in Instances : ec2[i] = "unused" /\ resources[i].job = NoJob
          /\ \A i \in Instances : provider_store.resources[i].job = NoJob
          /\ \A j \in Jobs : host[j] = NoInstance /\ command[j] = "none"
          /\ \A t \in Threads : pc[t] = "idle" /\ frame[t] = NoFrame
      BY <2>2 DEF Init, ModeInit, NoRecord, NoDocument
    <3>2. \A i \in Instances : NoFrame.state.resources[i].job = NoJob
      BY DEF NoFrame, NoDocument, NoRecord
    <3>3. OwnHosts
      BY <3>1, ModeAssumption DEF OwnHosts, SubmitSteps, Asking, Sends, HasSent
    <3> QED
      BY <3>1, <3>2, <3>3 DEF DocumentsKnow, NamesSent, Adoptable, AtWork
  <2> QED
    BY <2>1, <2>2, InitType, InitHosts DEF OneShotKept
<1>2. OneShotKept /\ [Next]_vars => OneShotKept'
  BY TypeStep, HostStep, StoreStep, OwnHostsStep, DocumentsKnowStep, AdoptableStep DEF OneShotKept, OneShotCaller
<1> QED
  BY <1>1, <1>2, PTL DEF Spec

\* However often the process dies, at whatever step, its successor finds in the two
\* documents, for every accepted job still at work, the instance that runs it and on its
\* record the job's command: no accepted job is lost by a restart.
THEOREM SuccessorAdopts ==
  ASSUME OneShotCaller
  PROVE  Spec => RestartKeepsJobs
<1> DEFINE Keeps == \A j \in AcceptedJobs : reported'[j] = "none" /\ command[j] = "inprogress"
                      => job_map'[j].rid = host[j] /\ mode_resources'[host[j]].cmd = j
<1>1. OneShotKept /\ [Next]_vars => [Keeps]_vars
  <2> SUFFICES ASSUME OneShotKept, [Next]_vars, NEW j \in AcceptedJobs, reported'[j] = "none", command[j] = "inprogress"
               PROVE  job_map'[j].rid = host[j] /\ mode_resources'[host[j]].cmd = j
    OBVIOUS
  <2>1. Restart
    <3>1. reported[j] # "none" /\ j \in Jobs
      BY DEF AcceptedJobs
    <3>2. ASSUME NEW t \in Threads, Turned(t)
          PROVE  FALSE
      BY <3>1, <3>2, TurnedTells DEF OneShotKept
    <3>3. ASSUME NEW t \in Threads, SubmitStep(t) \/ \E k \in Jobs : Submit(t, k)
          PROVE  FALSE
      <4>1. \/ UNCHANGED reported
            \/ reported' = [reported EXCEPT ![frame[t].job] = "PENDING"]
        BY <3>3 DEF SubmitStep, Submit, SubmitUninitialized, TakeWarm, TakeCold, DispatchWarm, TrackWarm, Create,
           WaitRunning, Deliver, TrackCold, RecordJob, SaveJob
      <4> QED
        BY <3>1, <4>1 DEF OneShotKept, TypeOK
    <3>4. ~(Tick \/ Environment \/ UNCHANGED vars)
      BY <3>1 DEF Tick, Environment, vars
    <3> QED
      BY <3>2, <3>3, <3>4 DEF Next, Rest, Call, Continue, Turned
  <2>2. j \in AtWork
    BY DEF AcceptedJobs, AtWork
  <2> QED
    BY <2>1, <2>2 DEF Restart, LoadMode, OneShotKept, Adoptable, InCharge
<1>2. Spec => []OneShotKept
  BY OneShotIsKept
<1> QED
  BY <1>1, <1>2, PTL DEF Spec, RestartKeepsJobs

=============================================================================
