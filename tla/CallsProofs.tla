----------------------------- MODULE CallsProofs ----------------------------
(***************************************************************************)
(* Provider's safety with any number of callers and instances: a cancelled *)
(* job stops, max_blocks holds, shutdown() leaves nothing behind, and,     *)
(* where no instance is reused, a host runs one command, a command dies    *)
(* only for a reason, COMPLETED is true and the two books agree.  Where    *)
(* instances are reused, a single caller has the same of one instance      *)
(* after the other.                                                        *)
(*                                                                         *)
(* The invariants are layers, each of which rests on those before it:      *)
(*   Base        (TrackingProofs) what frames and books say of who has     *)
(*               which job, instance and host, while the process lives;    *)
(*   Methodical  which method a step belongs to;                           *)
(*   Accounted   every live command and every running instance is known,   *)
(*               to a book or to the submit() about to write it;           *)
(*   SentToHost  a command has the host it was sent to;                    *)
(*   Truthful    a status in a record, an answer or a call's next step is  *)
(*               true of the instance it is about;                         *)
(*   Orderly     (one caller) records, entries and reuse list tell the     *)
(*               same, and what a call has in hand fits them;              *)
(*   PoolTrue    (one caller, reuse) the records are true of the job that  *)
(*               an instance has now.                                      *)
(* A step is first sorted by what it can disturb: one inside submit()      *)
(* (Going), one of another call (Turned), or one of the environment.       *)
(***************************************************************************)
EXTENDS TrackingProofs, FiniteSetTheorems, SequenceTheorems

\* A step of the environment: nobody's call moves.
LEMMA BaseFades ==
  ASSUME TypeOK, TypeOK', Base, Fading, Dropping, UNCHANGED <<pc, frame, warm_instances, cancelled>>
  PROVE  Base'
<1> USE DEF TypeOK
<1>1. FramesKept'
  BY DEF Base, FramesKept
<1>2. ASSUME NEW i \in Instances, Handled(i)'
      PROVE  Handled(i)
  BY <1>2, ModeAssumption DEF Handled, Fading, Dropping
<1>3. \A t \in Threads : pc[t] = "wait" => frame[t].rid \in Instances
  BY DEF SubmitOK, SubmitSteps
<1>4. InstancesNew'
  <2>1. ASSUME NEW t \in Threads, pc[t] = "wait"
        PROVE  ~Handled(frame[t].rid)'
    <3>1. PICK r \in Instances : r = frame[t].rid
      BY <1>3, <2>1
    <3>2. ~Handled(r)
      BY <2>1, <3>1 DEF Base, InstancesNew
    <3> QED
      BY <1>2, <3>1, <3>2 DEF Handled
  <2>2. \A i \in Instances : ec2'[i] = "unused" => ~Handled(i)'
    BY <1>2 DEF Base, InstancesNew, Fading
  <2> QED
    BY <2>1, <2>2 DEF Base, InstancesNew, Fading
<1>5. HostsApart'
  BY DEF Base, HostsApart, Fading
<1>6. \A j \in Jobs : Submitted(j)' <=> Submitted(j)
  BY DEF Submitted, Dropping
<1>7. JobsNew'
  <2>1. \A j \in Jobs : ~Submitted(j)' =>
           /\ \A i \in Instances : resources'[i].job # j
           /\ ~Mapped(j)' /\ j \notin cancelled'
           /\ \A u \in Threads : j \notin frame'[u].jobs
    BY <1>6, ModeAssumption DEF Base, JobsNew, Dropping
  <2>2. \A t \in Threads : pc'[t] \in PreRecord => ~Submitted(frame[t].job)'
    <3>1. ASSUME NEW t \in Threads, pc[t] \in PreRecord
          PROVE  ~Submitted(frame[t].job)'
      <4>1. PICK j \in Jobs : j = frame[t].job
        BY <3>1 DEF SubmitOK, PreRecord
      <4>2. ~Submitted(j)'
        BY <1>6, <3>1, <4>1 DEF Base, JobsNew
      <4> QED
        BY <4>1, <4>2 DEF Submitted
    <3> QED
      BY <3>1
  <2>3. \A t \in Threads : Unsent(t)' => command'[frame'[t].job] = "none"
    BY DEF Base, JobsNew, Fading, Unsent, Sent, SubmitOK
  <2>4. \A t \in Threads : pc'[t] \in Asking => \A j \in frame'[t].jobs : reported'[j] # "none"
    <3>1. \A t \in Threads : frame[t].jobs \subseteq Jobs
      BY DEF CallsTypeOK, Frame
    <3> QED
      BY <3>1 DEF Base, JobsNew, Dropping
  <2>5. \A t, u \in Threads : t # u /\ frame'[t].job = frame'[u].job => frame'[t].job = NoJob
    BY DEF Base, JobsNew
  <2> QED
    BY <2>1, <2>2, <2>3, <2>4, <2>5 DEF JobsNew
<1>8. HostsKnown'
  <2>1. \A j \in Jobs : Mapped(j)' => job_map'[j].rid # NoInstance
    BY ModeAssumption DEF BooksTypeOK, Mapped, JobEntry, NoEntry
  <2>2. \A j \in Jobs : Mapped(j)' => host'[j] = job_map'[j].rid
    BY <2>1 DEF Base, HostsKnown, Fading, Dropping
  <2>3. \A i \in Instances : resources'[i].job # NoJob => host'[resources'[i].job] = i
    BY DEF Base, HostsKnown, Fading, Dropping
  <2>4. \A t \in Threads : Sent(t)' => host'[frame'[t].job] = frame'[t].rid
    BY DEF Base, HostsKnown, Fading, Sent
  <2> QED
    BY <2>2, <2>3, <2>4 DEF HostsKnown
<1> QED
  BY <1>1, <1>4, <1>5, <1>7, <1>8 DEF Base

\* submit() begins with a job nobody has heard of.
LEMMA BaseSubmit ==
  ASSUME TypeOK, Base, NEW t \in Threads, NEW j \in Jobs, Submit(t, j)
  PROVE  Base'
<1> USE DEF TypeOK
<1>1. /\ Others(t) /\ pc[t] = "idle" /\ pc'[t] = "take"
      /\ UNCHANGED <<modeVars, awsVars, provVars, reported, cancelled>>
  BY DEF Submit, Begin, Goto, CallsTypeOK, Others
<1>2. /\ frame'[t].job = j /\ frame'[t].rid = NoInstance /\ frame'[t].jobs = {}
      /\ frame'[t].rids = {} /\ frame'[t].todo = {} /\ frame'[t].pool = {}
  BY DEF Submit, CallsTypeOK, NoFrame
<1>3. reported[j] = "none" /\ command[j] = "none" /\ ~Mapped(j) /\ \A u \in Threads : frame[u].job # j
  BY DEF Submit, Fresh
<1> USE <1>1 DEF modeVars, awsVars, provVars
<1>4. FramesKept'
  BY <1>2 DEF Base, FramesKept, Others, SubmitSteps
<1>5. \A i : Handled(i)' => Handled(i)
  BY <1>2 DEF Handled, Others, Recorded, Tracked
<1>6. InstancesNew'
  <2>1. \A i \in Instances : ec2'[i] = "unused" =>
          ~Handled(i)' /\ (\A u \in Threads : frame'[u].rid # i) /\ \A k \in Jobs : host'[k] # i
    BY <1>2, <1>5, ModeAssumption DEF Base, InstancesNew, Others
  <2>2. ASSUME NEW u \in Threads, pc'[u] = "wait"
        PROVE  /\ ~Handled(frame[u].rid)'
               /\ \A v \in Threads : v # u => frame'[v].rid # frame'[u].rid
               /\ \A k \in Jobs : host'[k] = frame'[u].rid => ~UsesSsmDispatch /\ k = frame'[u].job
    <3>1. pc[u] = "wait" /\ u # t /\ frame'[u] = frame[u] /\ frame[u].rid \in Instances
      BY <2>2 DEF Others, SubmitOK, SubmitSteps
    <3>2. ~Handled(frame[u].rid)
      BY <3>1 DEF Base, InstancesNew
    <3>3. ~Handled(frame[u].rid)'
      <4>1. PICK r \in Instances : r = frame[u].rid
        BY <3>1
      <4>2. ~Handled(r)'
        BY <1>5, <3>2, <4>1
      <4> QED
        BY <3>1, <4>1, <4>2 DEF Handled
    <3> QED
      BY <1>2, <3>1, <3>3, ModeAssumption DEF Base, InstancesNew, Others
  <2> QED
    BY <2>1, <2>2 DEF InstancesNew
<1>7. HostsApart'
  BY <1>2 DEF Base, HostsApart, Others
<1>8. \A k : Submitted(k)' <=> Submitted(k)
  BY DEF Submitted, Others
<1>9. ~Submitted(j)
  BY <1>3 DEF Submitted
<1>10. JobsNew'
  <2>1. \A k \in Jobs : ~Submitted(k)' =>
           /\ \A i \in Instances : resources'[i].job # k
           /\ ~Mapped(k)' /\ k \notin cancelled'
           /\ \A u \in Threads : k \notin frame'[u].jobs
    BY <1>2, <1>8 DEF Base, JobsNew, Others, Mapped
  <2>2. ASSUME NEW u \in Threads, pc'[u] \in PreRecord
        PROVE  ~Submitted(frame[u].job)'
    <3>1. PICK k : k = frame'[u].job
      OBVIOUS
    <3>2. ~Submitted(k)
      BY <1>2, <1>9, <2>2, <3>1 DEF Base, JobsNew, Others
    <3>3. ~Submitted(k)'
      BY <1>8, <3>2
    <3> QED
      BY <3>1, <3>3 DEF Submitted
  <2>3. \A u \in Threads : Unsent(u)' => command'[frame'[u].job] = "none"
    BY <1>2, <1>3 DEF Base, JobsNew, Others, Unsent, Sent
  <2>4. \A u \in Threads : pc'[u] \in Asking => \A k \in frame'[u].jobs : reported'[k] # "none"
    BY <1>2 DEF Base, JobsNew, Others
  <2>5. \A u, v \in Threads : u # v /\ frame'[u].job = frame'[v].job => frame'[u].job = NoJob
    BY <1>2, <1>3 DEF Base, JobsNew, Others
  <2> QED
    BY <2>1, <2>2, <2>3, <2>4, <2>5 DEF JobsNew
<1>11. HostsKnown'
  BY DEF Base, HostsKnown, Others, Sent, Mapped
<1> QED
  BY <1>4, <1>6, <1>7, <1>10, <1>11 DEF Base

\* submit() records its job and instance in the provider's books.
LEMMA BaseRecordJob ==
  ASSUME TypeOK, Base, NEW t \in Threads, RecordJob(t)
  PROVE  Base'
<1> USE DEF TypeOK
<1>0. PICK r \in Instances, j \in Jobs : r = frame[t].rid /\ j = frame[t].job
  BY DEF RecordJob, SubmitOK, SubmitSteps
<1>1. /\ Others(t) /\ pc[t] = "record" /\ pc'[t] = "save_job"
      /\ UNCHANGED <<modeVars, awsVars, reported, cancelled>>
  BY DEF RecordJob, Goto, CallsTypeOK, Others
<1>2. /\ frame[t] \in Frame /\ frame' = [frame EXCEPT ![t].state = Snapshot]
      /\ resources' = [resources EXCEPT ![r] = [job |-> j, status |-> "PENDING"]]
      /\ job_map' = [job_map EXCEPT ![j] = [rid |-> r, status |-> "PENDING"]]
  BY <1>0 DEF RecordJob, CallsTypeOK
<1>3. /\ frame'[t].job = j /\ frame'[t].rid = r /\ frame'[t].jobs = frame[t].jobs
      /\ frame'[t].rids = frame[t].rids /\ frame'[t].todo = frame[t].todo /\ frame'[t].pool = frame[t].pool
  BY <1>0, <1>2 DEF CallsTypeOK, Frame
<1>4. /\ \A i \in Instances : i # r => resources'[i] = resources[i]
      /\ \A k \in Jobs : k # j => job_map'[k] = job_map[k]
      /\ resources'[r].job = j /\ job_map'[j].rid = r
  BY <1>2 DEF BooksTypeOK
<1> USE <1>1 DEF modeVars, awsVars
<1>5. FramesKept'
  BY <1>3 DEF Base, FramesKept, Others, SubmitSteps
<1>6. \A i \in Instances : Handled(i)' => Handled(i) \/ i = r
  <2>1. ASSUME NEW i \in Instances, i # r, Handled(i)'
        PROVE  Handled(i)
    <3>1. CASE Recorded(i)' \/ Tracked(i)' \/ \E n \in 1 .. Len(warm_instances') : warm_instances'[n] = i
      BY <2>1, <3>1, <1>4 DEF Handled, Recorded, Tracked
    <3>2. CASE \E k \in Jobs : job_map'[k].rid = i
      BY <2>1, <3>2, <1>4 DEF Handled
    <3>3. CASE \E u \in Threads : i \in frame'[u].rids \cup frame'[u].todo \cup frame'[u].pool
      BY <3>3, <1>3 DEF Handled, Others
    <3> QED
      BY <2>1, <3>1, <3>2, <3>3 DEF Handled
  <2> QED
    BY <2>1
<1>7. InstancesNew'
  <2>1. \A u \in Threads : frame'[u].rid = frame[u].rid /\ frame'[u].job = frame[u].job
    BY <1>0, <1>3 DEF Others
  <2>2. \A i \in Instances : ec2'[i] = "unused" =>
          ~Handled(i)' /\ (\A u \in Threads : frame'[u].rid # i) /\ \A k \in Jobs : host'[k] # i
    BY <1>0, <1>6, <2>1 DEF Base, InstancesNew
  <2>3. ASSUME NEW u \in Threads, pc'[u] = "wait"
        PROVE  ~Handled(frame[u].rid)' /\ pc[u] = "wait"
    <3>1. pc[u] = "wait" /\ u # t /\ frame'[u].rid = frame[u].rid /\ frame[u].rid \in Instances
      BY <2>3 DEF Others, SubmitOK, SubmitSteps
    <3>2. PICK w \in Instances : w = frame[u].rid
      BY <3>1
    <3>3. ~Handled(w) /\ w # r
      BY <1>0, <3>1, <3>2 DEF Base, InstancesNew
    <3>4. ~Handled(w)'
      BY <1>6, <3>3
    <3> QED
      BY <3>1, <3>2, <3>4 DEF Handled
  <2> QED
    BY <2>1, <2>2, <2>3 DEF Base, InstancesNew
<1>8. HostsApart'
  BY <1>0, <1>3 DEF Base, HostsApart, Others
<1>9. \A k \in Jobs : Submitted(k)' <=> Submitted(k) \/ k = j
  BY <1>3 DEF Submitted, Others
<1>a. \A u \in Threads : u # t => frame[u].job # j
  BY <1>0, ModeAssumption DEF Base, JobsNew
<1>10. JobsNew'
  <2>1. \A k \in Jobs : ~Submitted(k)' =>
           /\ \A i \in Instances : resources'[i].job # k
           /\ ~Mapped(k)' /\ k \notin cancelled'
           /\ \A u \in Threads : k \notin frame'[u].jobs
    BY <1>3, <1>4, <1>9 DEF Base, JobsNew, Others, Mapped
  <2>2. ASSUME NEW u \in Threads, pc'[u] \in PreRecord
        PROVE  ~Submitted(frame[u].job)'
    <3>1. u # t /\ pc[u] \in PreRecord /\ frame'[u] = frame[u]
      BY <2>2 DEF Others, PreRecord
    <3>2. PICK k \in Jobs : k = frame[u].job
      BY <3>1 DEF SubmitOK, PreRecord
    <3>3. ~Submitted(k) /\ k # j
      BY <1>a, <3>1, <3>2 DEF Base, JobsNew
    <3>4. ~Submitted(k)'
      BY <1>9, <3>3
    <3> QED
      BY <3>1, <3>2, <3>4 DEF Submitted
  <2>3. \A u \in Threads : Unsent(u)' => command'[frame'[u].job] = "none"
    BY DEF Base, JobsNew, Others, Unsent, Sent
  <2>4. \A u \in Threads : pc'[u] \in Asking => \A k \in frame'[u].jobs : reported'[k] # "none"
    BY DEF Base, JobsNew, Others, Asking
  <2>5. \A u, v \in Threads : u # v /\ frame'[u].job = frame'[v].job => frame'[u].job = NoJob
    BY <1>0, <1>3 DEF Base, JobsNew, Others
  <2> QED
    BY <2>1, <2>2, <2>3, <2>4, <2>5 DEF JobsNew
<1>11. HostsKnown'
  <2>1. host[j] = r
    BY <1>0 DEF Base, HostsKnown, Sent
  <2>2. \A k \in Jobs : Mapped(k)' => host'[k] = job_map'[k].rid
    <3>1. \A k \in Jobs : k # j /\ Mapped(k)' => Mapped(k) /\ job_map'[k] = job_map[k]
      BY <1>4 DEF Mapped
    <3> QED
      BY <1>4, <2>1, <3>1 DEF Base, HostsKnown
  <2>3. \A i \in Instances : resources'[i].job # NoJob => host'[resources'[i].job] = i
    BY <1>4, <2>1 DEF Base, HostsKnown
  <2>4. \A u \in Threads : Sent(u)' => host'[frame'[u].job] = frame'[u].rid
    BY <1>3, <2>1 DEF Base, HostsKnown, Others, Sent
  <2> QED
    BY <2>2, <2>3, <2>4 DEF HostsKnown
<1> QED
  BY <1>5, <1>7, <1>8, <1>10, <1>11 DEF Base

\* submit() returns: its job is now its owner's.
LEMMA BaseSaveJob ==
  ASSUME TypeOK, Base, NEW t \in Threads, SaveJob(t)
  PROVE  Base'
<1> USE DEF TypeOK
<1>0. PICK j \in Jobs : j = frame[t].job
  BY DEF SaveJob, SubmitOK, SubmitSteps
<1>1. /\ Others(t) /\ pc[t] = "save_job" /\ pc'[t] = "idle" /\ frame'[t] = NoFrame
      /\ UNCHANGED <<modeVars, awsVars, resources, job_map, cancelled>>
      /\ reported' = [reported EXCEPT ![j] = "PENDING"]
  BY <1>0 DEF SaveJob, Return, Goto, CallsTypeOK, Others
<1>2. /\ frame'[t].job = NoJob /\ frame'[t].rid = NoInstance /\ frame'[t].jobs = {}
      /\ frame'[t].rids = {} /\ frame'[t].todo = {} /\ frame'[t].pool = {}
  BY <1>1 DEF NoFrame
<1> USE <1>1 DEF modeVars, awsVars
<1>5. FramesKept'
  BY <1>2 DEF Base, FramesKept, Others, SubmitSteps
<1>6. \A i : Handled(i)' => Handled(i)
  BY <1>2 DEF Handled, Others, Recorded, Tracked
<1>7. InstancesNew'
  <2>2. \A i \in Instances : ec2'[i] = "unused" =>
          ~Handled(i)' /\ (\A u \in Threads : frame'[u].rid # i) /\ \A k \in Jobs : host'[k] # i
    BY <1>2, <1>6, ModeAssumption DEF Base, InstancesNew, Others
  <2>3. ASSUME NEW u \in Threads, pc'[u] = "wait"
        PROVE  /\ ~Handled(frame[u].rid)'
               /\ \A v \in Threads : v # u => frame'[v].rid # frame'[u].rid
               /\ \A k \in Jobs : host'[k] = frame'[u].rid => ~UsesSsmDispatch /\ k = frame'[u].job
    <3>1. pc[u] = "wait" /\ u # t /\ frame'[u] = frame[u] /\ frame[u].rid \in Instances
      BY <2>3 DEF Others, SubmitOK, SubmitSteps
    <3>2. ~Handled(frame[u].rid)
      BY <3>1 DEF Base, InstancesNew
    <3>3. ~Handled(frame[u].rid)'
      <4>1. PICK w \in Instances : w = frame[u].rid
        BY <3>1
      <4>2. ~Handled(w)'
        BY <1>6, <3>2, <4>1
      <4> QED
        BY <3>1, <4>1, <4>2 DEF Handled
    <3> QED
      BY <1>2, <3>1, <3>3, ModeAssumption DEF Base, InstancesNew, Others
  <2> QED
    BY <2>2, <2>3 DEF InstancesNew
<1>8. HostsApart'
  BY <1>2 DEF Base, HostsApart, Others
<1>9. \A k \in Jobs : Submitted(k)' <=> Submitted(k)
  <2>1. ASSUME NEW k \in Jobs, k # j
        PROVE  Submitted(k)' <=> Submitted(k)
    BY <2>1, <1>0 DEF Submitted, Others
  <2>2. Submitted(j)' /\ Submitted(j)
    BY <1>0 DEF Submitted
  <2> QED
    BY <2>1, <2>2
<1>10. JobsNew'
  <2>1. \A k \in Jobs : ~Submitted(k)' =>
           /\ \A i \in Instances : resources'[i].job # k
           /\ ~Mapped(k)' /\ k \notin cancelled'
           /\ \A u \in Threads : k \notin frame'[u].jobs
    BY <1>2, <1>9 DEF Base, JobsNew, Others, Mapped
  <2>2. ASSUME NEW u \in Threads, pc'[u] \in PreRecord
        PROVE  ~Submitted(frame[u].job)'
    <3>1. u # t /\ pc[u] \in PreRecord /\ frame'[u] = frame[u]
      BY <2>2 DEF Others, PreRecord, SubmitSteps
    <3>2. PICK k \in Jobs : k = frame[u].job
      BY <3>1 DEF SubmitOK, PreRecord
    <3>3. ~Submitted(k)
      BY <3>1, <3>2 DEF Base, JobsNew
    <3>4. ~Submitted(k)'
      BY <1>9, <3>3
    <3> QED
      BY <3>1, <3>2, <3>4 DEF Submitted
  <2>3. \A u \in Threads : Unsent(u)' => command'[frame'[u].job] = "none"
    BY DEF Base, JobsNew, Others, Unsent, Sent, SubmitSteps
  <2>4. \A u \in Threads : pc'[u] \in Asking => \A k \in frame'[u].jobs : reported'[k] # "none"
    BY <1>2 DEF Base, JobsNew, Others
  <2>5. \A u, v \in Threads : u # v /\ frame'[u].job = frame'[v].job => frame'[u].job = NoJob
    BY <1>2 DEF Base, JobsNew, Others
  <2> QED
    BY <2>1, <2>2, <2>3, <2>4, <2>5 DEF JobsNew
<1>11. HostsKnown'
  BY DEF Base, HostsKnown, Others, Sent, Mapped
<1> QED
  BY <1>5, <1>7, <1>8, <1>10, <1>11 DEF Base

\* All of them turn.
LEMMA TurnedTurns ==
  ASSUME TypeOK, TypeOK', Base, NEW t \in Threads, Turned(t)
  PROVE  Fading /\ Dropping /\ Turning(t)
<1>1. CASE StatusStep(t)
  BY <1>1, TurnGroup, TurnPolls, TurnPollRaises, TurnStatusUpdate, TurnSaveStatus DEF StatusStep
<1>2. CASE CancelStep(t)
  BY <1>2, TurnScaleInCancels, TurnCancelCall, TurnCancelUpdate DEF CancelStep
<1>3. CASE CleanupStep(t)
  BY <1>3, TurnScan, TurnPoolSnapshot, TurnTransitions, TurnUnlist, TurnTerminateDoomed, TurnForget,
     TurnSavePass, TurnSavePassMode, TurnFinish, TurnSaveCancel DEF CleanupStep
<1>4. CASE \E J \in SUBSET Jobs : Cancel(t, J)
  BY <1>4, TurnCancel
<1> QED
  BY <1>1, <1>2, <1>3, <1>4, TurnSubmitUninitialized, TurnShutdownStep, TurnStatusBegin, TurnScaleIn,
     TurnShutdown DEF Turned

\* A turning step keeps Base.
LEMMA TurningKeepsBase ==
  ASSUME TypeOK, TypeOK', Base, NEW t \in Threads, Fading, Dropping, Turning(t)
  PROVE  Base'
BY TurningKeepsFrames, TurningKeepsInstances, TurningKeepsJobs DEF Base

\* Nothing has been launched, submitted or recorded.
LEMMA InitBase == Init => Base
<1> SUFFICES ASSUME Init PROVE Base
  OBVIOUS
<1>1. /\ \A t \in Threads : pc[t] = "idle" /\ frame[t] = NoFrame
      /\ \A j \in Jobs : reported[j] = "none" /\ job_map[j] = NoEntry /\ command[j] = "none" /\ host[j] = NoInstance
      /\ \A i \in Instances : resources[i] = NoRecord /\ mode_resources[i] = NoModeRecord
      /\ warm_instances = << >> /\ cancelled = {}
  BY DEF Init, ModeInit
<1>2. \A t \in Threads :
        /\ frame[t].job = NoJob /\ frame[t].rid = NoInstance /\ frame[t].jobs = {}
        /\ frame[t].rids = {} /\ frame[t].todo = {} /\ frame[t].pool = {}
  BY <1>1 DEF NoFrame
<1>3. (\A j \in Jobs : ~Mapped(j) /\ job_map[j].rid = NoInstance)
      /\ (\A i \in Instances : ~Recorded(i) /\ ~Tracked(i) /\ resources[i].job = NoJob)
  BY <1>1 DEF NoEntry, NoRecord, NoModeRecord, Mapped, Recorded, Tracked
<1>4. \A i \in Instances : ~Handled(i)
  BY <1>1, <1>2, <1>3, ModeAssumption DEF Handled
<1> QED
  BY <1>1, <1>2, <1>3, <1>4, ModeAssumption
     DEF Base, FramesKept, InstancesNew, HostsApart, JobsNew, HostsKnown, SubmitSteps, PreRecord,
         Sent, Unsent, Asking

\* Base is inductive as long as the process does not crash.
LEMMA BaseStep ==
  ASSUME TypeOK, TypeOK', Base, "crash" \notin Faults, [Next]_vars
  PROVE  Base'
<1>1. ASSUME NEW t \in Threads, SubmitStep(t)
      PROVE  Base'
  <2>1. CASE SubmitUninitialized(t)
    BY <2>1, TurnedTurns, TurningKeepsBase DEF Turned
  <2>2. CASE TakeWarm(t) \/ TakeCold(t) \/ RecordJob(t) \/ SaveJob(t)
    BY <2>2, BaseTakeWarm, BaseTakeCold, BaseRecordJob, BaseSaveJob
  <2>3. CASE DispatchWarm(t)
    BY <2>3, BaseDispatchWarm, TurningKeepsBase
  <2>4. CASE TrackWarm(t)
    BY <2>4, BaseTrackWarm, TurningKeepsBase
  <2>5. CASE Create(t)
    BY <2>5, BaseCreate, TurningKeepsBase
  <2>6. CASE WaitRunning(t)
    BY <2>6, BaseWaitRunning, TurningKeepsBase
  <2>7. CASE Deliver(t)
    BY <2>7, BaseDeliver, TurningKeepsBase
  <2>8. CASE TrackCold(t)
    BY <2>8, BaseTrackCold, TurningKeepsBase
  <2> QED
    BY <1>1, <2>1, <2>2, <2>3, <2>4, <2>5, <2>6, <2>7, <2>8 DEF SubmitStep
<1>2. ASSUME NEW t \in Threads, Continue(t) \/ Call(t)
      PROVE  Base'
  <2>1. CASE \E j \in Jobs : Submit(t, j)
    BY <2>1, BaseSubmit
  <2>2. CASE Turned(t)
    BY <2>2, TurnedTurns, TurningKeepsBase
  <2> QED
    BY <1>1, <1>2, <2>1, <2>2 DEF Continue, Call, Turned
<1>3. CASE Environment
  <2>1. Fading
    BY <1>3, FadingEnvironment DEF TypeOK, Base
  <2>2. Dropping /\ UNCHANGED <<pc, frame, warm_instances, cancelled>>
    <3>1. UNCHANGED warm_instances
      BY <1>3 DEF Environment, FinishCommand, ShutDownAfter, Reclaim, ForgetInstance, HandleInstanceInterruption, modeVars
    <3> QED
      BY <1>3, <3>1, DroppingQuiet DEF Environment, provVars, callVars
  <2> QED
    BY <2>1, <2>2, BaseFades
<1>4. CASE Tick \/ UNCHANGED vars
  <2>1. Fading /\ Dropping /\ UNCHANGED <<pc, frame, warm_instances, cancelled>>
    BY <1>4, FadingQuiet, DroppingQuiet DEF Tick, vars, modeVars, awsVars, provVars, callVars, Tracked
  <2> QED
    BY <2>1, BaseFades
<1>5. ~Restart
  BY DEF Restart, Fault
<1> QED
  BY <1>2, <1>3, <1>4, <1>5 DEF Next, Rest

-----------------------------------------------------------------------------
(* Which method a step belongs to.                                         *)

\* A thread executes only methods it calls, and the steps of each.
Methodical ==
  \A t \in Threads :
    /\ pc[t] # "idle" => frame[t].method \in Calls[t]
    /\ pc[t] \in SubmitSteps => frame[t].method = "submit"
    /\ pc[t] \in StatusSteps => frame[t].method = "status"
    /\ pc[t] = "cancel" => frame[t].method = "scale_in"
    /\ pc[t] \in ShutdownSteps => frame[t].method = "shutdown"

\* A step within a method.
Within(t) ==
  /\ Others(t)
  /\ \/ pc'[t] = "idle"
     \/ /\ pc[t] # "idle" /\ frame'[t].method = frame[t].method
        /\ \/ pc'[t] \in CleanupSteps \cup (CancelSteps \ {"cancel"})
           \/ pc[t] \in SubmitSteps /\ pc'[t] \in SubmitSteps
           \/ pc[t] \in StatusSteps /\ pc'[t] \in StatusSteps
           \/ pc[t] \in ShutdownSteps /\ pc'[t] \in ShutdownSteps

\* Such a step keeps the methods apart.
LEMMA WithinKeeps ==
  ASSUME Methodical, NEW t \in Threads, Within(t)
  PROVE  Methodical'
BY DEF Methodical, Within, Others, CleanupSteps, CancelSteps, SubmitSteps, StatusSteps, ShutdownSteps

\* A step of a thread that leaves its method alone.
LEMMA WithinUnlessReturn ==
  ASSUME TypeOK, NEW t \in Threads, pc[t] # "idle", NEW step, NEW f,
         pc' = [pc EXCEPT ![t] = step],
         frame' = [frame EXCEPT ![t] = f] \/ (UNCHANGED frame /\ f = frame[t]),
         \/ step = "idle"
         \/ /\ f.method = frame[t].method
            /\ \/ step \in CleanupSteps \cup (CancelSteps \ {"cancel"})
               \/ pc[t] \in SubmitSteps /\ step \in SubmitSteps
               \/ pc[t] \in StatusSteps /\ step \in StatusSteps
               \/ pc[t] \in ShutdownSteps /\ step \in ShutdownSteps
  PROVE  Within(t)
BY DEF Within, Others, TypeOK, CallsTypeOK

\* So does a return.
LEMMA WithinReturn ==
  ASSUME TypeOK, NEW t \in Threads, pc[t] # "idle", Return(t)
  PROVE  Within(t)
BY DEF Within, Others, TypeOK, CallsTypeOK, Return, Goto

\* Turning to the cleanup pass.
LEMMA WithinToCleanup ==
  ASSUME TypeOK, NEW t \in Threads, pc[t] # "idle", ToCleanup(t)
  PROVE  Within(t)
<1>1. CASE frame' = [frame EXCEPT ![t] = [NoFrame EXCEPT !.method = frame[t].method]] /\ Goto(t, "scan")
  <2> DEFINE f == [NoFrame EXCEPT !.method = frame[t].method]
  <2>1. f.method = frame[t].method
    BY DEF NoFrame
  <2> HIDE DEF f
  <2> QED
    BY <1>1, <2>1, WithinUnlessReturn DEF Goto, CleanupSteps, f
<1> QED
  BY <1>1, WithinReturn DEF ToCleanup

\* submit() after its first step.
LEMMA WithinSubmit ==
  ASSUME TypeOK, NEW t \in Threads, SubmitStep(t)
  PROVE  Within(t)
<1> USE DEF SubmitSteps
<1>0. frame[t] \in Frame
  BY DEF TypeOK, CallsTypeOK
<1>1. CASE SubmitUninitialized(t)
  BY <1>1, WithinReturn DEF SubmitUninitialized
<1>2. CASE TakeWarm(t)
  BY <1>0, <1>2 DEF TakeWarm, Within, Others, Goto, TypeOK, CallsTypeOK, Frame
<1>3. CASE TakeCold(t)
  BY <1>3, WithinUnlessReturn DEF TakeCold, Goto
<1>4. CASE DispatchWarm(t)
  BY <1>4, WithinUnlessReturn, WithinReturn DEF DispatchWarm, Goto
<1>5. CASE TrackWarm(t)
  BY <1>5, WithinUnlessReturn, WithinReturn DEF TrackWarm, Goto
<1>6. CASE Create(t)
  <2>1. ASSUME NEW i \in Instances, Goto(t, "wait"), frame' = [frame EXCEPT ![t].rid = i]
        PROVE  Within(t)
    BY <1>0, <1>6, <2>1 DEF Create, Within, Others, Goto, TypeOK, CallsTypeOK, Frame
  <2> QED
    BY <1>6, <2>1, WithinReturn DEF Create
<1>7. CASE WaitRunning(t)
  <2>1. CASE Return(t)
    BY <1>7, <2>1, WithinReturn DEF WaitRunning
  <2>2. CASE Goto(t, "deliver") /\ UNCHANGED frame
    BY <1>7, <2>2, WithinUnlessReturn DEF WaitRunning, Goto
  <2>3. CASE Goto(t, "record") /\ UNCHANGED frame
    BY <1>7, <2>3, WithinUnlessReturn DEF WaitRunning, Goto
  <2> QED
    BY <1>7, <2>1, <2>2, <2>3 DEF WaitRunning
<1>8. CASE Deliver(t)
  BY <1>8, WithinUnlessReturn, WithinReturn DEF Deliver, Goto
<1>9. CASE TrackCold(t)
  BY <1>9, WithinUnlessReturn, WithinReturn DEF TrackCold, Goto
<1>10. CASE RecordJob(t)
  <2>1. frame' = [frame EXCEPT ![t].state = Snapshot] /\ Goto(t, "save_job") /\ pc[t] = "record"
    BY <1>10 DEF RecordJob
  <2> QED
    BY <1>0, <2>1 DEF Within, Others, Goto, TypeOK, CallsTypeOK, Frame
<1>11. CASE SaveJob(t)
  BY <1>11, WithinReturn DEF SaveJob
<1> QED
  BY <1>1, <1>2, <1>3, <1>4, <1>5, <1>6, <1>7, <1>8, <1>9, <1>10, <1>11 DEF SubmitStep

\* status() after its first step; the poll's update takes up the method it is in.
LEMMA WithinStatus ==
  ASSUME TypeOK, Methodical, NEW t \in Threads, StatusStep(t)
  PROVE  Within(t)
<1> USE DEF StatusSteps
<1>0. frame[t] \in Frame
  BY DEF TypeOK, CallsTypeOK
<1>1. CASE Group(t)
  BY <1>0, <1>1 DEF Group, Within, Others, Goto, TypeOK, CallsTypeOK, Frame
<1>2. ASSUME NEW m, Heard(t, m), pc[t] = "poll"
      PROVE  Within(t)
  BY <1>0, <1>2 DEF Heard, Within, Others, Goto, TypeOK, CallsTypeOK, Frame
<1>3. CASE PollSsm(t) \/ PollEc2(t)
  BY <1>2, <1>3 DEF PollSsm, PollEc2
<1>4. CASE PollRaises(t)
  BY <1>4, WithinToCleanup DEF PollRaises
<1>5. CASE StatusUpdate(t)
  <2> DEFINE f == [NoFrame EXCEPT !.method = "status", !.state = Snapshot]
  <2>1. f.method = "status" /\ frame[t].method = "status"
    BY <1>5 DEF NoFrame, StatusUpdate, Methodical
  <2>2. pc[t] = "update" /\ pc' = [pc EXCEPT ![t] = "save_status"] /\ frame' = [frame EXCEPT ![t] = f]
    BY <1>5 DEF StatusUpdate, Goto
  <2> HIDE DEF f
  <2> QED
    BY <2>1, <2>2, WithinUnlessReturn
<1>6. CASE SaveStatus(t)
  BY <1>6, WithinToCleanup DEF SaveStatus
<1> QED
  BY <1>1, <1>3, <1>4, <1>5, <1>6 DEF StatusStep

\* cancel() after its first step.
LEMMA WithinCancel ==
  ASSUME TypeOK, Methodical, NEW t \in Threads, CancelStep(t)
  PROVE  Within(t)
<1> USE DEF CancelSteps
<1>0. frame[t] \in Frame
  BY DEF TypeOK, CallsTypeOK
<1>1. CASE ScaleInCancels(t)
  BY <1>1 DEF ScaleInCancels, Collect, Within, Others, Goto, TypeOK, CallsTypeOK, NoFrame, Methodical
<1>2. CASE CancelCall(t)
  BY <1>0, <1>2 DEF CancelCall, Within, Others, Goto, TypeOK, CallsTypeOK, Frame
<1>3. CASE CancelUpdate(t)
  BY <1>3, WithinToCleanup DEF CancelUpdate
<1> QED
  BY <1>1, <1>2, <1>3 DEF CancelStep

\* A round of the pool's loop.
LEMMA WithinRound ==
  ASSUME TypeOK, NEW t \in Threads, pc[t] = "transition", NEW i, NEW rids, NEW pool, NEW dirty,
         TransitionRound(t, i, rids, pool, dirty)
  PROVE  Within(t)
<1>0. frame[t] \in Frame
  BY DEF TypeOK, CallsTypeOK
<1>1. pc'[t] \in CleanupSteps \cup {"idle"} /\ Others(t)
  BY DEF TransitionRound, AfterPool, CleanupSteps, Goto, TypeOK, CallsTypeOK, Others
<1>2. pc'[t] # "idle" => frame'[t].method = frame[t].method
  BY <1>0 DEF TransitionRound, AfterPool, Goto, TypeOK, CallsTypeOK, Frame
<1> QED
  BY <1>1, <1>2 DEF Within

\* The cleanup pass, and what follows it in cancel() and shutdown().
LEMMA WithinCleanup ==
  ASSUME TypeOK, NEW t \in Threads, CleanupStep(t), ~SaveCancel(t)
  PROVE  Within(t)
<1> USE DEF CleanupSteps
<1>0. frame[t] \in Frame
  BY DEF TypeOK, CallsTypeOK
<1>1. CASE Scan(t)
  <2>1. pc'[t] \in CleanupSteps \cup {"idle"} /\ Others(t) /\ pc[t] = "scan"
    BY <1>1 DEF Scan, AfterPool, Goto, TypeOK, CallsTypeOK, Others
  <2>2. pc'[t] # "idle" => frame'[t].method = frame[t].method
    BY <1>0, <1>1 DEF Scan, Goto, TypeOK, CallsTypeOK, Frame
  <2> QED
    BY <2>1, <2>2 DEF Within
<1>2. CASE PoolSnapshot(t)
  BY <1>0, <1>2 DEF PoolSnapshot, Within, Others, Goto, TypeOK, CallsTypeOK, Frame
<1>3. CASE TransitionSkipped(t) \/ TransitionToPool(t) \/ TransitionEvicting(t)
  BY <1>3, WithinRound DEF TransitionSkipped, TransitionToPool, TransitionEvicting
<1>4. CASE Unlist(t)
  BY <1>0, <1>4 DEF Unlist, Within, Others, Goto, TypeOK, CallsTypeOK, Frame
<1>5. CASE TerminateDoomed(t)
  BY <1>5, WithinUnlessReturn DEF TerminateDoomed, Goto
<1>6. CASE Forget(t)
  BY <1>0, <1>6 DEF Forget, Within, Others, Goto, TypeOK, CallsTypeOK, Frame
<1>7. CASE SavePass(t)
  BY <1>7, WithinUnlessReturn DEF SavePass, Goto
<1>8. CASE SavePassMode(t)
  <2>1. CASE Return(t)
    BY <1>8, <2>1, WithinReturn DEF SavePassMode
  <2>2. CASE Goto(t, "finish") /\ frame' = [frame EXCEPT ![t] = [NoFrame EXCEPT !.method = frame[t].method]]
    BY <1>8, <2>2 DEF SavePassMode, Within, Others, Goto, TypeOK, CallsTypeOK, NoFrame
  <2> QED
    BY <1>8, <2>1, <2>2 DEF SavePassMode
<1>9. CASE Finish(t)
  BY <1>9 DEF Finish, Within, Others, Goto, TypeOK, CallsTypeOK, NoFrame
<1> QED
  BY <1>1, <1>2, <1>3, <1>4, <1>5, <1>6, <1>7, <1>8, <1>9 DEF CleanupStep

\* A call begins with its method.
LEMMA BeginsMethod ==
  ASSUME TypeOK, Methodical, NEW t \in Threads, Call(t)
  PROVE  Methodical'
<1> USE DEF SubmitSteps, StatusSteps, ShutdownSteps
<1>1. ASSUME NEW method, method \in Calls[t], Others(t), pc'[t] # "idle", frame'[t].method = method,
             pc'[t] \in SubmitSteps => method = "submit",
             pc'[t] \in StatusSteps => method = "status",
             pc'[t] = "cancel" => method = "scale_in",
             pc'[t] \in ShutdownSteps => method = "shutdown"
      PROVE  Methodical'
  BY <1>1 DEF Methodical, Others
<1>2. CASE \E j \in Jobs : Submit(t, j)
  <2>1. Others(t) /\ pc'[t] = "take" /\ frame'[t].method = "submit" /\ "submit" \in Calls[t]
    BY <1>2 DEF Submit, Begin, Goto, TypeOK, CallsTypeOK, NoFrame, Others
  <2> QED
    BY <1>1, <2>1
<1>3. CASE StatusBegin(t)
  <2>1. Others(t) /\ pc'[t] \in {"update", "group"} /\ frame'[t].method = "status" /\ "status" \in Calls[t]
    BY <1>3 DEF StatusBegin, Begin, Goto, TypeOK, CallsTypeOK, NoFrame, Others
  <2> QED
    BY <1>1, <2>1
<1>4. ASSUME NEW method, method \in Calls[t], NEW J, Collect(t, method, J)
      PROVE  Methodical'
  <2>1. Others(t) /\ pc'[t] = "cancel_call" /\ frame'[t].method = method
    BY <1>4 DEF Collect, Goto, TypeOK, CallsTypeOK, NoFrame, Others
  <2> QED
    BY <1>1, <1>4, <2>1
<1>5. CASE \E J \in SUBSET Jobs : Cancel(t, J)
  BY <1>4, <1>5 DEF Cancel, Begin
<1>6. CASE ScaleIn(t)
  <2>1. Others(t) /\ pc'[t] = "cancel" /\ frame'[t].method = "scale_in" /\ "scale_in" \in Calls[t]
    BY <1>6 DEF ScaleIn, Begin, Goto, TypeOK, CallsTypeOK, NoFrame, Others
  <2> QED
    BY <1>1, <2>1
<1>7. CASE Shutdown(t)
  <2>0. "shutdown" \in Calls[t]
    BY <1>7 DEF Shutdown, Begin
  <2>1. CASE Goto(t, "infrastructure") /\ frame' = [frame EXCEPT ![t] = [NoFrame EXCEPT !.method = "shutdown"]]
    <3>1. Others(t) /\ pc'[t] = "infrastructure" /\ frame'[t].method = "shutdown"
      BY <2>1 DEF Goto, TypeOK, CallsTypeOK, NoFrame, Others
    <3> QED
      BY <1>1, <2>0, <3>1
  <2> QED
    BY <1>4, <1>7, <2>0, <2>1 DEF Shutdown
<1> QED
  BY <1>2, <1>3, <1>5, <1>6, <1>7 DEF Call

\* Methods are kept apart.
LEMMA MethodStep ==
  ASSUME TypeOK, Methodical, "crash" \notin Faults, [Next]_vars
  PROVE  Methodical'
<1>1. ASSUME NEW t \in Threads, Continue(t)
      PROVE  Methodical'
  <2>1. CASE SaveCancel(t)
    <3>1. CASE Return(t)
      BY <2>1, <3>1, WithinReturn, WithinKeeps DEF SaveCancel
    <3>2. CASE /\ frame[t].method = "shutdown" /\ Goto(t, "infrastructure")
               /\ frame' = [frame EXCEPT ![t] = [NoFrame EXCEPT !.method = "shutdown"]]
      <4>1. Others(t) /\ pc'[t] = "infrastructure" /\ frame'[t].method = "shutdown" /\ pc[t] = "save_cancel"
        BY <2>1, <3>2 DEF SaveCancel, Goto, TypeOK, CallsTypeOK, NoFrame, Others
      <4>2. "shutdown" \in Calls[t]
        BY <3>2, <4>1 DEF Methodical
      <4> QED
        BY <4>1, <4>2 DEF Methodical, Others, SubmitSteps, StatusSteps, ShutdownSteps
    <3> QED
      BY <2>1, <3>1, <3>2 DEF SaveCancel
  <2>2. CASE ShutdownStep(t)
    <3>1. CASE Infrastructure(t)
      BY <3>1, WithinUnlessReturn, WithinKeeps DEF Infrastructure, Goto, ShutdownSteps
    <3>2. CASE Deinitialize(t)
      BY <3>2, WithinUnlessReturn, WithinKeeps DEF Deinitialize, Goto, ShutdownSteps
    <3>3. CASE Clear(t)
      BY <3>3, WithinUnlessReturn, WithinKeeps DEF Clear, Goto, ShutdownSteps
    <3>4. CASE Erase(t)
      BY <3>4, WithinReturn, WithinKeeps DEF Erase
    <3> QED
      BY <2>2, <3>1, <3>2, <3>3, <3>4 DEF ShutdownStep
  <2> QED
    BY <1>1, <2>1, <2>2, WithinSubmit, WithinStatus, WithinCancel, WithinCleanup, WithinKeeps DEF Continue
<1>2. CASE Tick \/ Environment \/ UNCHANGED vars
  BY <1>2 DEF Tick, Environment, vars, callVars, Methodical
<1>3. ~Restart
  BY DEF Restart, Fault
<1> QED
  BY <1>1, <1>2, <1>3, BeginsMethod DEF Next, Rest

\* Nobody is inside a call at first.
LEMMA InitMethod == Init => Methodical
BY DEF Init, Methodical, SubmitSteps, StatusSteps, ShutdownSteps

-----------------------------------------------------------------------------
(* What a live command and a running instance are known by.                *)

\* The faults that make the provider lose a command or an instance do not occur
\* (a wait that fails after the launch, a crash between two saves, an instance
\* EC2 has forgotten, which fails the batch it is named in, a terminate_instances()
\* that fails while the records are dropped all the same), and no thread shuts
\* the provider down while another submits.
Reliable ==
  /\ "wait" \notin Faults /\ "crash" \notin Faults /\ "forget" \notin Faults /\ "terminate" \notin Faults
  /\ \A t, u \in Threads : t # u /\ "shutdown" \in Calls[t] => "submit" \notin Calls[u]

\* A command in progress is on a running instance, and job_map maps its job,
\* or will once the submit() that sent it has recorded it.
LiveCommand ==
  \A j \in Jobs : command[j] = "inprogress" =>
    /\ host[j] \in Instances /\ ec2[host[j]] = "running"
    /\ Mapped(j) \/ \E t \in Threads : Sent(t) /\ pc[t] # "save_job" /\ frame[t].job = j

\* Once cleanup_resources() has returned, nothing runs under the ids it was given.
ForgetsDead ==
  \A t \in Threads : pc[t] = "forget" =>
    \A i \in frame[t].rids : ec2[i] # "running" /\ ~Tracked(i)

\* After cleanup_infrastructure() nothing runs at all.
ShutdownOver ==
  \A t \in Threads : pc[t] \in {"deinitialize", "clear", "erase"} =>
    \A i \in Instances : ec2[i] # "running" /\ ~Tracked(i)

\* A cancelled job's command goes on only until the terminate_instances() that
\* names its host.
CancelReaches ==
  \A j \in cancelled : command[j] = "inprogress" =>
    \E t \in Threads : pc[t] = "cancel_call" /\ j \in frame[t].jobs /\ host[j] \in frame[t].rids

Launching == {"wait", "deliver", "track_cold", "record"}

\* A running instance counts against max_blocks, or will once the submit() that
\* launched it has recorded it.
RunningCounted ==
  \A i \in Running : Recorded(i) \/ \E t \in Threads : pc[t] \in Launching /\ frame[t].rid = i

Accounted == LiveCommand /\ ForgetsDead /\ ShutdownOver /\ CancelReaches /\ RunningCounted

\* A step that leaves AWS and the books alone and ends no submit() that has sent
\* or launched anything.
Plain(t) ==
  /\ UNCHANGED <<ec2, command, cancelled>>
  /\ \A j \in Jobs : Mapped(j) => Mapped(j)'
  /\ \A i \in Instances : Recorded(i) => Recorded(i)'
  /\ pc[t] \in SubmitSteps => pc[t] = "take"
  /\ pc[t] # "cancel_call" /\ pc'[t] \notin {"deinitialize", "clear", "erase"}
  /\ pc'[t] = "forget" => frame'[t].rids = {}

\* A step that launches nothing keeps the accounts if what still runs after it is
\* in them.
LEMMA TurningKeeps ==
  ASSUME TypeOK, TypeOK', Accounted, NEW t \in Threads, Fading, Turning(t),
         \A j \in Jobs : command'[j] = "inprogress" =>
           ec2'[host[j]] = "running" /\ (Mapped(j) => Mapped(j)'),
         \A i \in Instances : ec2'[i] = "running" => (Recorded(i) => Recorded(i)'),
         Sent(t) => command'[frame[t].job] # "inprogress",
         pc[t] \in Launching => ec2'[frame[t].rid] # "running",
         pc'[t] = "forget" => \A i \in frame'[t].rids : ec2'[i] # "running" /\ ~Tracked(i)',
         pc'[t] \in {"deinitialize", "clear", "erase"} => \A i \in Instances : ec2'[i] # "running" /\ ~Tracked(i)',
         UNCHANGED cancelled,
         pc[t] = "cancel_call" => \A j \in frame[t].jobs : host[j] \in frame[t].rids => command'[j] # "inprogress"
  PROVE  Accounted'
<1> USE DEF Accounted
<1>1. LiveCommand'
  BY DEF LiveCommand, Fading, Turning, Others, Sent
<1>2. ForgetsDead'
  <2>1. ASSUME NEW u \in Threads, pc'[u] = "forget", u # t
        PROVE  \A i \in frame'[u].rids : ec2'[i] # "running" /\ ~Tracked(i)'
    <3>1. pc[u] = "forget" /\ frame'[u] = frame[u] /\ frame[u].rids \subseteq Instances
      BY <2>1 DEF Turning, Others, TypeOK, CallsTypeOK, Frame
    <3> QED
      BY <3>1 DEF ForgetsDead, Fading
  <2> QED
    BY <2>1 DEF ForgetsDead
<1>3. ShutdownOver'
  BY DEF ShutdownOver, Fading, Turning, Others
<1>4. CancelReaches'
  BY DEF CancelReaches, Fading, Turning, Others, TypeOK
<1>5. RunningCounted'
  BY DEF RunningCounted, Fading, Turning, Others, Running
<1> QED
  BY <1>1, <1>2, <1>3, <1>4, <1>5

\* A plain step does.
LEMMA PlainKeeps ==
  ASSUME TypeOK, TypeOK', Accounted, NEW t \in Threads, Fading, Turning(t), Plain(t)
  PROVE  Accounted'
<1>1. ~Sent(t) /\ pc[t] \notin Launching
  BY DEF Sent, Plain, SubmitSteps, Launching
<1>2. \A j \in Jobs : command'[j] = "inprogress" =>
        ec2'[host[j]] = "running" /\ (Mapped(j) => Mapped(j)')
  BY DEF Plain, Accounted, LiveCommand
<1> QED
  BY <1>1, <1>2, TurningKeeps DEF Plain

\* Statuses written back drop no record.
LEMMA WriteBackKeeps ==
  ASSUME BooksTypeOK, NEW J, NEW m, WriteBack(J, m)
  PROVE  /\ \A i \in Instances : Recorded(i) => Recorded(i)'
         /\ \A j \in Jobs : Mapped(j) => Mapped(j)'
<1>1. \A j \in Jobs : job_map[j] \in JobEntry
  BY DEF BooksTypeOK
<1>2. \A e \in JobEntry : \A s : [e EXCEPT !.status = s].status = s
  BY DEF JobEntry, NoEntry
<1>3. \A i \in Instances : resources[i] \in Record
  BY DEF BooksTypeOK
<1>4. \A e \in Record : \A s : [e EXCEPT !.status = s].status = s
  BY DEF Record, NoRecord
<1>5. \A j \in Jobs : Mapped(j) => Mapped(j)'
  BY <1>1, <1>2 DEF WriteBack, Mapped
<1>6. ASSUME NEW i \in Instances, Recorded(i)
      PROVE  Recorded(i)'
  <2>1. CASE resources'[i] = resources[i]
    BY <1>6, <2>1 DEF Recorded
  <2>2. CASE resources'[i] = [resources[i] EXCEPT !.status = m[i]] /\ m[i] # Absent
    BY <1>3, <1>4, <2>2 DEF Recorded
  <2> QED
    BY <1>6, <2>1, <2>2 DEF WriteBack
<1> QED
  BY <1>5, <1>6

\* Turning to the cleanup pass, or returning, leaves for no step of interest.
LEMMA ToCleanupPlain ==
  ASSUME TypeOK, NEW t \in Threads, ToCleanup(t)
  PROVE  pc'[t] \in {"scan", "idle"}
BY DEF ToCleanup, Return, Goto, TypeOK, CallsTypeOK

\* The steps of status() are plain.
LEMMA PlainStatus ==
  ASSUME TypeOK, NEW t \in Threads, StatusStep(t) \/ StatusBegin(t) \/ SubmitUninitialized(t)
  PROVE  Plain(t)
<1> USE DEF SubmitSteps, TypeOK, CallsTypeOK
<1>1. CASE Group(t)
  BY <1>1 DEF Group, Goto, Plain, modeVars, awsVars, provVars, Mapped, Recorded
<1>2. CASE PollSsm(t)
  BY <1>2 DEF PollSsm, PollCommands, Heard, Goto, Plain, provVars, Mapped, Recorded
<1>3. CASE PollEc2(t)
  BY <1>3 DEF PollEc2, PollInstances, Heard, Goto, Plain, provVars, Mapped, Recorded
<1>4. CASE PollRaises(t)
  BY <1>4, ToCleanupPlain DEF PollRaises, PollCommandsRaises, Plain, provVars, Mapped, Recorded
<1>5. CASE StatusUpdate(t)
  BY <1>5, WriteBackKeeps DEF StatusUpdate, Goto, Plain, modeVars, awsVars
<1>6. CASE SaveStatus(t)
  BY <1>6, ToCleanupPlain DEF SaveStatus, Plain, modeVars, awsVars, Mapped, Recorded
<1>7. CASE StatusBegin(t)
  BY <1>7 DEF StatusBegin, Begin, Goto, Plain, modeVars, awsVars, provVars, Mapped, Recorded
<1>8. CASE SubmitUninitialized(t)
  BY <1>8 DEF SubmitUninitialized, Return, Goto, Plain, modeVars, awsVars, provVars, Mapped, Recorded
<1> QED
  BY <1>1, <1>2, <1>3, <1>4, <1>5, <1>6, <1>7, <1>8 DEF StatusStep

\* So are those of cancel() and of the pass that neither terminate nor forget.
LEMMA PlainCleanup ==
  ASSUME TypeOK, NEW t \in Threads,
         \/ ScaleIn(t) \/ CancelUpdate(t)
         \/ CleanupStep(t) /\ ~TerminateDoomed(t) /\ ~Forget(t)
  PROVE  Plain(t)
<1> USE DEF SubmitSteps, TypeOK, CallsTypeOK
<1>1. CASE ScaleIn(t)
  BY <1>1 DEF ScaleIn, Begin, Goto, Plain, modeVars, awsVars, provVars, Mapped, Recorded
<1>2. CASE CancelUpdate(t)
  BY <1>2, WriteBackKeeps, ToCleanupPlain DEF CancelUpdate, Plain, modeVars, awsVars
<1>3. CASE Scan(t)
  <2>1. pc'[t] # "forget" /\ pc'[t] \notin {"deinitialize", "clear", "erase"} /\ pc[t] = "scan"
    BY <1>3 DEF Scan, AfterPool, Goto
  <2> QED
    BY <1>3, <2>1 DEF Scan, Plain, modeVars, awsVars, provVars, Mapped, Recorded
<1>4. CASE PoolSnapshot(t)
  BY <1>4 DEF PoolSnapshot, Goto, Plain, modeVars, awsVars, provVars, Mapped, Recorded
<1>5. ASSUME NEW i, NEW rids, NEW pool, NEW dirty, pc[t] = "transition", TransitionRound(t, i, rids, pool, dirty)
      PROVE  pc'[t] \notin {"deinitialize", "clear", "erase"} /\ (pc'[t] = "forget" => frame'[t].rids = {})
  <2>1. pc'[t] \notin {"deinitialize", "clear", "erase"} /\ (pc'[t] = "forget" => rids = {})
    BY <1>5 DEF TransitionRound, AfterPool, Goto
  <2>2. pc'[t] = "forget" => frame'[t].rids = rids
    BY <1>5 DEF TransitionRound, AfterPool, Goto, Frame
  <2> QED
    BY <2>1, <2>2
<1>6. ASSUME NEW i \in Instances, MarkWarm(i)
      PROVE  (\A k \in Instances : Recorded(k) => Recorded(k)') /\ \A j \in Jobs : Mapped(j) => Mapped(j)'
  <2>1. \A k \in Instances : resources[k] \in Record
    BY DEF BooksTypeOK
  <2> QED
    BY <1>6, <2>1 DEF MarkWarm, Recorded, Mapped, Record, NoRecord, Absent
<1>7. CASE TransitionSkipped(t)
  BY <1>5, <1>7 DEF TransitionSkipped, Plain, modeVars, awsVars, provVars, Mapped, Recorded
<1>8. CASE TransitionToPool(t)
  <2>1. PICK i \in frame[t].todo : MarkWarm(i) /\ TransitionRound(t, i, frame[t].rids, frame[t].pool \cup {i}, TRUE)
    BY <1>8 DEF TransitionToPool
  <2>2. i \in Instances
    BY DEF Frame
  <2> QED
    BY <1>5, <1>6, <1>8, <2>1, <2>2 DEF TransitionToPool, Plain, awsVars
<1>9. CASE TransitionEvicting(t)
  <2>1. PICK i \in frame[t].todo, oldest \in frame[t].pool :
          MarkWarm(i) /\ TransitionRound(t, i, frame[t].rids \cup {oldest}, (frame[t].pool \ {oldest}) \cup {i}, TRUE)
    BY <1>9 DEF TransitionEvicting
  <2>2. i \in Instances
    BY DEF Frame
  <2> QED
    BY <1>5, <1>6, <1>9, <2>1, <2>2 DEF TransitionEvicting, Plain, awsVars
<1>10. CASE Unlist(t)
  BY <1>10 DEF Unlist, Goto, Plain, awsVars, provVars, Mapped, Recorded
<1>11. CASE SavePass(t)
  BY <1>11 DEF SavePass, Goto, Plain, modeVars, awsVars, Mapped, Recorded
<1>12. CASE SavePassMode(t)
  BY <1>12 DEF SavePassMode, Return, Goto, Plain, awsVars, provVars, Mapped, Recorded
<1>13. CASE Finish(t)
  BY <1>13 DEF Finish, Goto, Plain, modeVars, awsVars, provVars, Mapped, Recorded
<1>14. CASE SaveCancel(t)
  BY <1>14 DEF SaveCancel, Return, Goto, Plain, modeVars, awsVars, Mapped, Recorded
<1> QED
  BY <1>1, <1>2, <1>3, <1>4, <1>7, <1>8, <1>9, <1>10, <1>11, <1>12, <1>13, <1>14 DEF CleanupStep

\* cancel() takes up jobs that have been submitted; those at work are mapped, and
\* mapped to their host.
LEMMA CollectKeeps ==
  ASSUME TypeOK, TypeOK', Base, Accounted, NEW t \in Threads, NEW method, NEW J \in SUBSET Jobs,
         pc[t] \notin SubmitSteps, pc[t] # "cancel_call", Collect(t, method, J),
         \A j \in J : Submitted(j),
         Fading, Turning(t), UNCHANGED <<ec2, command, resources, job_map>>
  PROVE  Accounted'
<1> USE DEF Accounted
<1>1. pc'[t] = "cancel_call" /\ cancelled' = cancelled \cup J
  BY DEF Collect, Goto, TypeOK, CallsTypeOK
<1>2. frame'[t].jobs = J /\ frame'[t].rids = {job_map[j].rid : j \in {j \in J : Mapped(j)}}
  BY DEF Collect, TypeOK, CallsTypeOK, NoFrame
<1>3. ASSUME NEW j \in J, command[j] = "inprogress"
      PROVE  host[j] \in frame'[t].rids
  <2>1. ~\E u \in Threads : Sent(u) /\ pc[u] # "save_job" /\ frame[u].job = j
    BY <1>3 DEF Base, JobsNew, Sent, PreRecord, SubmitSteps
  <2>2. Mapped(j) /\ host[j] = job_map[j].rid
    BY <1>3, <2>1 DEF LiveCommand, Base, HostsKnown
  <2> QED
    BY <1>2, <2>2
<1>4. CancelReaches'
  <2>1. ASSUME NEW j \in cancelled, command'[j] = "inprogress"
        PROVE  \E u \in Threads : pc'[u] = "cancel_call" /\ j \in frame'[u].jobs /\ host'[j] \in frame'[u].rids
    BY <2>1 DEF CancelReaches, Turning, Others, Fading
  <2> QED
    BY <1>1, <1>2, <1>3, <2>1 DEF CancelReaches, Fading
<1>5. LiveCommand'
  <2>1. \A u \in Threads : Sent(u) => u # t
    BY DEF Sent, SubmitSteps
  <2> QED
    BY <2>1 DEF LiveCommand, Fading, Turning, Others, Sent, Mapped
<1>6. ForgetsDead'
  <2>1. ASSUME NEW u \in Threads, pc'[u] = "forget"
        PROVE  \A i \in frame'[u].rids : ec2'[i] # "running" /\ ~Tracked(i)'
    <3>1. pc[u] = "forget" /\ frame'[u] = frame[u] /\ frame[u].rids \subseteq Instances
      BY <1>1, <2>1 DEF Turning, Others, TypeOK, CallsTypeOK, Frame
    <3> QED
      BY <3>1 DEF ForgetsDead, Fading
  <2> QED
    BY <2>1 DEF ForgetsDead
<1>7. ShutdownOver'
  BY <1>1 DEF ShutdownOver, Fading, Turning, Others
<1>8. RunningCounted'
  BY DEF RunningCounted, Fading, Turning, Others, Running, Launching, SubmitSteps, Recorded
<1> QED
  BY <1>4, <1>5, <1>6, <1>7, <1>8

\* The three calls that do so.
LEMMA CollectStepsKeep ==
  ASSUME TypeOK, TypeOK', Base, Accounted, NEW t \in Threads, Fading, Turning(t),
         ScaleInCancels(t) \/ Shutdown(t) \/ \E J \in SUBSET Jobs : Cancel(t, J)
  PROVE  Accounted'
<1>1. CASE \E J \in SUBSET Jobs : Cancel(t, J)
  <2>1. PICK J \in SUBSET Jobs : Cancel(t, J)
    BY <1>1
  <2>2. pc[t] = "idle" /\ Collect(t, "cancel", J) /\ UNCHANGED <<ec2, command, resources, job_map>>
    BY <2>1 DEF Cancel, Begin, awsVars, provVars
  <2>3. \A j \in J : Submitted(j)
    BY <2>1 DEF Cancel, AcceptedJobs, Submitted
  <2> QED
    BY <2>2, <2>3, CollectKeeps DEF SubmitSteps
<1>2. CASE ScaleInCancels(t)
  <2>1. pc[t] = "cancel" /\ Collect(t, "scale_in", frame[t].jobs) /\ UNCHANGED <<ec2, command, resources, job_map>>
    BY <1>2 DEF ScaleInCancels, awsVars, provVars
  <2>2. frame[t].jobs \in SUBSET Jobs
    BY DEF TypeOK, CallsTypeOK, Frame
  <2>3. \A j \in frame[t].jobs : Submitted(j)
    BY <2>2 DEF Base, JobsNew
  <2> QED
    BY <2>1, <2>2, <2>3, CollectKeeps DEF SubmitSteps
<1>3. CASE Shutdown(t)
  <2> DEFINE J == {j \in Jobs : Mapped(j)}
  <2>1. pc[t] = "idle" /\ UNCHANGED <<ec2, command, resources, job_map>>
    BY <1>3 DEF Shutdown, Begin, awsVars, provVars
  <2>2. \A j \in J : Submitted(j)
    BY DEF Base, JobsNew
  <2>3. J \in SUBSET Jobs
    OBVIOUS
  <2>4. CASE Goto(t, "infrastructure") /\ UNCHANGED cancelled
    <3>1. Plain(t)
      BY <1>3, <2>1, <2>4 DEF Plain, Goto, TypeOK, CallsTypeOK, SubmitSteps, Mapped, Recorded
    <3> QED
      BY <3>1, PlainKeeps
  <2>5. CASE Collect(t, "shutdown", J)
    <3> HIDE DEF J
    <3> QED
      BY <2>1, <2>2, <2>3, <2>5, CollectKeeps DEF SubmitSteps
  <2> QED
    BY <1>3, <2>4, <2>5 DEF Shutdown
<1> QED
  BY <1>1, <1>2, <1>3

\* terminate_instances() takes the commands of the instances it names with it.
LEMMA TerminateEnds ==
  ASSUME TypeOK, LiveCommand, NEW S, Terminate(S)
  PROVE  /\ \A j \in Jobs : command'[j] = "inprogress" => host[j] \notin S /\ ec2'[host[j]] = "running"
         /\ \A i \in Instances : i \in S => ec2'[i] # "running"
BY DEF Terminate, LiveCommand, TypeOK, ModeTypeOK, AwsTypeOK

\* An instance some call names runs only with a record in the mode: nobody is
\* waiting for it to come up.
LEMMA HandledTracked ==
  ASSUME TypeOK, Base, NoLostInstance, NEW i \in Instances, Handled(i), ec2[i] = "running"
  PROVE  Tracked(i)
BY DEF NoLostInstance, LiveInstanceTracked, Running, Base, InstancesNew

\* cancel() terminates the hosts of the jobs it was given.
LEMMA CancelCallAccounted ==
  ASSUME TypeOK, TypeOK', Base, NoLostInstance, Reliable, Accounted, NEW t \in Threads,
         Fading, Turning(t), CancelCall(t)
  PROVE  Accounted'
<1>0. LiveCommand
  BY DEF Accounted
<1>1. PICK outcome \in CancelOutcomes : CancelJobs(frame[t].rids, outcome)
  BY DEF CancelCall
<1>2. frame[t].rids \subseteq Instances
  BY DEF TypeOK, CallsTypeOK, Frame
<1> DEFINE T == {i \in frame[t].rids : Tracked(i)}
<1>3. Terminate(T)
  <2>1. Known(T)
    BY <1>2 DEF Known, NoLostInstance
  <2> QED
    BY <1>1, <2>1 DEF CancelJobs, Fault, Reliable
<1>4. /\ \A j \in Jobs : command'[j] = "inprogress" => host[j] \notin T /\ ec2'[host[j]] = "running"
      /\ \A i \in Instances : i \in T => ec2'[i] # "running"
  <2> HIDE DEF T
  <2> QED
    BY <1>0, <1>3, TerminateEnds
<1>5. ASSUME NEW j \in frame[t].jobs, host[j] \in frame[t].rids, command'[j] = "inprogress"
      PROVE  FALSE
  <2>1. j \in Jobs /\ host[j] \in Instances
    BY <1>2, <1>5 DEF TypeOK, CallsTypeOK, Frame
  <2>2. ec2[host[j]] = "running" /\ Handled(host[j])
    BY <1>0, <1>5, <2>1, InFrames DEF LiveCommand, Fading
  <2>3. Tracked(host[j])
    BY <2>1, <2>2, HandledTracked
  <2> QED
    BY <1>4, <1>5, <2>1, <2>3
<1>6. /\ pc[t] = "cancel_call" /\ pc'[t] = "cancel_update" /\ UNCHANGED <<resources, job_map, cancelled>>
      /\ ~Sent(t) /\ pc[t] \notin Launching
  BY DEF CancelCall, Goto, TypeOK, CallsTypeOK, provVars, Sent, Launching
<1> HIDE DEF T
<1>7. \A j \in Jobs : command'[j] = "inprogress" => ec2'[host[j]] = "running" /\ (Mapped(j) => Mapped(j)')
  BY <1>4, <1>6 DEF Mapped
<1>8. \A i \in Instances : Recorded(i) => Recorded(i)'
  BY <1>6 DEF Recorded
<1>9. \A j \in frame[t].jobs : host[j] \in frame[t].rids => command'[j] # "inprogress"
  BY <1>5
<1> QED
  BY <1>6, <1>7, <1>8, <1>9, TurningKeeps

\* What cleanup_resources() leaves of the instances it was given.
LEMMA CleanupEnds ==
  ASSUME TypeOK, Base, NoLostInstance, Reliable, LiveCommand, NEW S \in SUBSET Instances, CleanupResources(S),
         \A i \in S : ec2[i] = "running" => Tracked(i)
  PROVE  /\ \A j \in Jobs : command'[j] = "inprogress" => ec2'[host[j]] = "running"
         /\ \A i \in S : ec2'[i] # "running" /\ ~Tracked(i)'
<1> DEFINE T == {i \in S : Tracked(i)}
<1>1. Known(T)
  BY DEF Known, NoLostInstance
<1>2. Terminate(T) /\ mode_resources' = [i \in Instances |-> IF i \in T THEN NoModeRecord ELSE mode_resources[i]]
  BY <1>1 DEF CleanupResources, Fault, Reliable
<1>3. /\ \A j \in Jobs : command'[j] = "inprogress" => host[j] \notin T /\ ec2'[host[j]] = "running"
      /\ \A i \in Instances : i \in T => ec2'[i] # "running"
  <2> HIDE DEF T
  <2> QED
    BY <1>2, TerminateEnds
<1>4. \A i \in S : ~Tracked(i)'
  BY <1>2 DEF Tracked, NoModeRecord
<1>5. \A i \in S : ec2'[i] # "running"
  BY <1>2, <1>3 DEF Terminate, TypeOK, ModeTypeOK, AwsTypeOK
<1> QED
  BY <1>3, <1>4, <1>5

\* The pass's terminate_instances().
LEMMA TerminateDoomedAccounted ==
  ASSUME TypeOK, TypeOK', Base, NoLostInstance, Reliable, Accounted, NEW t \in Threads,
         Fading, Turning(t), TerminateDoomed(t)
  PROVE  Accounted'
<1>1. frame[t].rids \in SUBSET Instances /\ CleanupResources(frame[t].rids)
  BY DEF TypeOK, CallsTypeOK, Frame, TerminateDoomed
<1>2. \A i \in frame[t].rids : ec2[i] = "running" => Tracked(i)
  BY <1>1, InFrames, HandledTracked
<1>3. /\ \A j \in Jobs : command'[j] = "inprogress" => ec2'[host[j]] = "running"
      /\ \A i \in frame[t].rids : ec2'[i] # "running" /\ ~Tracked(i)'
  BY <1>1, <1>2, CleanupEnds DEF Accounted
<1>4. /\ pc[t] = "terminate" /\ pc'[t] = "forget" /\ frame'[t] = frame[t] /\ UNCHANGED <<resources, job_map, cancelled>>
      /\ ~Sent(t) /\ pc[t] \notin Launching
  BY DEF TerminateDoomed, Goto, TypeOK, CallsTypeOK, provVars, Sent, Launching
<1>5. (\A j \in Jobs : Mapped(j) => Mapped(j)') /\ (\A i \in Instances : Recorded(i) => Recorded(i)')
  BY <1>4 DEF Mapped, Recorded
<1> QED
  BY <1>3, <1>4, <1>5, TurningKeeps

\* The records it forgets are those of dead instances.
LEMMA ForgetAccounted ==
  ASSUME TypeOK, TypeOK', Base, Accounted, NEW t \in Threads, Fading, Turning(t), Forget(t)
  PROVE  Accounted'
<1>0. LiveCommand /\ ForgetsDead
  BY DEF Accounted
<1>1. /\ pc[t] = "forget" /\ pc'[t] = "save_pass" /\ UNCHANGED <<ec2, command, cancelled>>
      /\ ~Sent(t) /\ pc[t] \notin Launching
  BY DEF Forget, Goto, TypeOK, CallsTypeOK, awsVars, Sent, Launching
<1>2. \A i \in frame[t].rids : ec2[i] # "running"
  BY <1>0, <1>1 DEF ForgetsDead
<1>3. \A i \in Instances : ec2'[i] = "running" => (Recorded(i) => Recorded(i)')
  BY <1>1, <1>2 DEF Forget, Recorded
<1>4. ASSUME NEW j \in Jobs, command'[j] = "inprogress", Mapped(j)
      PROVE  Mapped(j)'
  <2>1. ec2[host[j]] = "running"
    BY <1>0, <1>1, <1>4 DEF LiveCommand
  <2>2. \A i \in frame[t].rids : i \in Instances /\ resources[i].job # j
    <3>1. \A i \in frame[t].rids : i \in Instances
      BY DEF TypeOK, CallsTypeOK, Frame
    <3>2. \A i \in Instances : resources[i].job = j => host[j] = i
      BY ModeAssumption DEF Base, HostsKnown
    <3> QED
      BY <1>2, <2>1, <3>1, <3>2
  <2> QED
    BY <1>4, <2>2 DEF Forget, Mapped
<1>5. \A j \in Jobs : command'[j] = "inprogress" => ec2'[host[j]] = "running" /\ (Mapped(j) => Mapped(j)')
  BY <1>0, <1>1, <1>4 DEF LiveCommand
<1> QED
  BY <1>1, <1>3, <1>5, TurningKeeps

\* Nobody submits while the provider is being shut down.
LEMMA NoSubmitInShutdown ==
  ASSUME Methodical, Reliable, NEW t \in Threads, pc[t] \in ShutdownSteps, NEW u \in Threads
  PROVE  pc[u] \notin SubmitSteps
BY DEF Methodical, Reliable, ShutdownSteps, SubmitSteps

\* shutdown() leaves nothing running, and then clears the books.
LEMMA ShutdownStepAccounted ==
  ASSUME TypeOK, TypeOK', Base, Methodical, NoLostInstance, Reliable, Accounted, NEW t \in Threads,
         Fading, Turning(t), ShutdownStep(t)
  PROVE  Accounted'
<1>0. pc[t] \in ShutdownSteps /\ ~Sent(t) /\ pc[t] \notin Launching /\ pc[t] # "cancel_call" /\ UNCHANGED cancelled
  BY DEF ShutdownStep, Infrastructure, Deinitialize, Clear, Erase, ShutdownSteps, Sent, Launching
<1>1. \A u \in Threads : pc[u] # "wait"
  BY <1>0, NoSubmitInShutdown DEF SubmitSteps
<1>2. LiveCommand /\ ShutdownOver
  BY DEF Accounted
<1>3. CASE Infrastructure(t)
  <2> DEFINE S == {i \in Instances : Tracked(i)}
  <2>1. S \in SUBSET Instances /\ CleanupResources(S)
    BY <1>3 DEF Infrastructure, CleanupAll
  <2>2. \A i \in Instances : i \in S <=> Tracked(i)
    OBVIOUS
  <2> HIDE DEF S
  <2>3. /\ \A j \in Jobs : command'[j] = "inprogress" => ec2'[host[j]] = "running"
        /\ \A i \in S : ec2'[i] # "running" /\ ~Tracked(i)'
    BY <1>2, <2>1, <2>2, CleanupEnds
  <2>4. \A i \in Instances : ec2'[i] # "running" /\ ~Tracked(i)'
    BY <1>1, <2>2, <2>3 DEF NoLostInstance, LiveInstanceTracked, Running, Fading
  <2>5. pc'[t] = "deinitialize" /\ UNCHANGED <<resources, job_map>>
    BY <1>3 DEF Infrastructure, Goto, TypeOK, CallsTypeOK, provVars
  <2>6. (\A j \in Jobs : Mapped(j) => Mapped(j)') /\ (\A i \in Instances : Recorded(i) => Recorded(i)')
    BY <2>5 DEF Mapped, Recorded
  <2> QED
    BY <1>0, <2>3, <2>4, <2>5, <2>6, TurningKeeps
<1>4. CASE Deinitialize(t)
  <2>1. pc[t] = "deinitialize" /\ pc'[t] = "clear" /\ UNCHANGED <<resources, job_map, ec2, command, mode_resources>>
    BY <1>4 DEF Deinitialize, FinishInfrastructure, Goto, TypeOK, CallsTypeOK, provVars, awsVars
  <2>2. \A i \in Instances : ec2'[i] # "running" /\ ~Tracked(i)'
    BY <1>2, <2>1 DEF ShutdownOver, Tracked
  <2>3. (\A j \in Jobs : Mapped(j) => Mapped(j)') /\ (\A i \in Instances : Recorded(i) => Recorded(i)')
    BY <2>1 DEF Mapped, Recorded
  <2>4. \A j \in Jobs : command'[j] = "inprogress" => ec2'[host[j]] = "running"
    BY <1>2, <2>1 DEF LiveCommand
  <2> QED
    BY <1>0, <2>1, <2>2, <2>3, <2>4, TurningKeeps
<1>5. CASE Clear(t)
  <2>1. pc[t] = "clear" /\ pc'[t] = "erase" /\ UNCHANGED <<ec2, command, mode_resources>>
    BY <1>5 DEF Clear, Goto, TypeOK, CallsTypeOK, modeVars, awsVars
  <2>2. \A i \in Instances : ec2'[i] # "running" /\ ~Tracked(i)'
    BY <1>2, <2>1 DEF ShutdownOver, Tracked
  <2>3. \A j \in Jobs : command'[j] # "inprogress"
    BY <1>2, <2>1, <2>2 DEF LiveCommand
  <2> QED
    BY <1>0, <2>1, <2>2, <2>3, TurningKeeps
<1>6. CASE Erase(t)
  <2>1. pc[t] = "erase" /\ pc'[t] = "idle" /\ UNCHANGED <<ec2, command>>
    BY <1>6 DEF Erase, Return, Goto, TypeOK, CallsTypeOK, awsVars
  <2>2. \A i \in Instances : ec2'[i] # "running"
    BY <1>2, <2>1 DEF ShutdownOver
  <2>3. \A j \in Jobs : command'[j] # "inprogress"
    BY <1>2, <2>1, <2>2 DEF LiveCommand
  <2> QED
    BY <1>0, <2>1, <2>2, <2>3, TurningKeeps
<1> QED
  BY <1>3, <1>4, <1>5, <1>6 DEF ShutdownStep

\* A submit() that goes on accounts for what it launches and sends.
LEMMA GoingAccounted ==
  ASSUME TypeOK, TypeOK', Base, Methodical, Reliable, Accounted, NEW t \in Threads, Going(t),
         \A i \in Instances : ec2[i] = "running" => ec2'[i] = "running",
         \A i \in Instances : ec2'[i] = "running" =>
           ec2[i] = "running" \/ (ec2[i] = "unused" /\ i = frame'[t].rid /\ pc'[t] \in Launching),
         \A i \in Instances : Tracked(i)' => Tracked(i) \/ ec2[i] = "running",
         command'[frame[t].job] = "inprogress" =>
           host'[frame[t].job] \in Instances /\ ec2'[host'[frame[t].job]] = "running" /\ Sent(t)',
         pc[t] \in Launching => pc'[t] \in Launching /\ frame'[t].rid = frame[t].rid
  PROVE  Accounted'
<1> USE DEF Accounted
<1>0. /\ frame[t].job \in Jobs /\ ~Submitted(frame[t].job) /\ pc[t] \in SubmitSteps
      /\ pc'[t] \in SubmitSteps /\ pc'[t] # "save_job"
  BY DEF Going, PreRecord, SubmitOK, TypeOK, Base, JobsNew
<1>1. LiveCommand'
  <2>1. ASSUME NEW j \in Jobs, j # frame[t].job, command'[j] = "inprogress"
        PROVE  /\ host'[j] \in Instances /\ ec2'[host'[j]] = "running"
               /\ Mapped(j)' \/ \E u \in Threads : Sent(u)' /\ pc'[u] # "save_job" /\ frame'[u].job = j
    <3>1. command[j] = "inprogress" /\ host'[j] = host[j] /\ (Mapped(j) => Mapped(j)')
      BY <2>1 DEF Going, Mapped
    <3>2. ASSUME NEW u \in Threads, Sent(u), pc[u] # "save_job", frame[u].job = j
          PROVE  Sent(u)' /\ pc'[u] # "save_job" /\ frame'[u].job = j
      BY <2>1, <3>2 DEF Going, Others, Sent
    <3> QED
      BY <3>1, <3>2 DEF LiveCommand
  <2>2. CASE command'[frame[t].job] = "inprogress"
    BY <1>0, <2>1, <2>2 DEF LiveCommand, Going
  <2> QED
    BY <2>1, <2>2 DEF LiveCommand
<1>2. ForgetsDead'
  <2>1. ASSUME NEW u \in Threads, pc'[u] = "forget"
        PROVE  \A i \in frame'[u].rids : ec2'[i] # "running" /\ ~Tracked(i)'
    <3>1. pc[u] = "forget" /\ frame'[u].rids = frame[u].rids /\ frame[u].rids \subseteq Instances
      BY <1>0, <2>1 DEF Going, Others, TypeOK, CallsTypeOK, Frame, SubmitSteps
    <3>2. \A i \in frame[u].rids : ec2[i] # "unused"
      BY <3>1, InFrames DEF Base, InstancesNew
    <3> QED
      BY <3>1, <3>2 DEF ForgetsDead
  <2> QED
    BY <2>1 DEF ForgetsDead
<1>3. ShutdownOver'
  <2>1. \A u \in Threads : pc[u] \notin ShutdownSteps
    BY <1>0, NoSubmitInShutdown
  <2> QED
    BY <1>0, <2>1 DEF ShutdownOver, ShutdownSteps, Going, Others, SubmitSteps
<1>4. CancelReaches'
  <2>1. frame[t].job \notin cancelled
    BY <1>0 DEF Base, JobsNew
  <2> QED
    BY <1>0, <2>1 DEF CancelReaches, Going, Others, SubmitSteps, TypeOK
<1>5. RunningCounted'
  <2>1. \A i \in Instances : Recorded(i) => Recorded(i)'
    BY DEF Going, Recorded
  <2> QED
    BY <2>1 DEF RunningCounted, Going, Others, Running
<1> QED
  BY <1>1, <1>2, <1>3, <1>4, <1>5

\* The warm path: an instance is taken from the list ...
LEMMA TakeAccounted ==
  ASSUME TypeOK, TypeOK', Base, Methodical, Reliable, Accounted, NEW t \in Threads,
         TakeWarm(t) \/ TakeCold(t)
  PROVE  Accounted'
<1> USE DEF TypeOK
<1>1. Going(t) /\ pc[t] = "take" /\ UNCHANGED <<command, host, ec2>>
  <2>1. CASE TakeCold(t)
    BY <2>1 DEF TakeCold, Going, Others, PreRecord, SubmitSteps, Goto, CallsTypeOK, awsVars, provVars
  <2>2. CASE TakeWarm(t)
    BY <2>2 DEF TakeWarm, Going, Others, PreRecord, SubmitSteps, Goto, CallsTypeOK, Frame, awsVars, provVars
  <2> QED
    BY <2>1, <2>2
<1>2. \A i \in Instances : Tracked(i)' => Tracked(i)
  BY DEF TakeWarm, TakeCold, GetWarmInstance, modeVars, Tracked, ModeTypeOK
<1>3. command[frame[t].job] # "inprogress" /\ pc[t] \notin Launching
  BY <1>1 DEF Base, JobsNew, Unsent, Sent, SubmitSteps, Launching
<1> QED
  BY <1>1, <1>2, <1>3, GoingAccounted

\* ... and its command sent, or refused.
LEMMA DispatchWarmAccounted ==
  ASSUME TypeOK, TypeOK', Base, Methodical, Reliable, Accounted, NEW t \in Threads, DispatchWarm(t)
  PROVE  Accounted'
<1> USE DEF TypeOK
<1>0. PICK r \in Instances, j \in Jobs : r = frame[t].rid /\ j = frame[t].job
  BY DEF DispatchWarm, SubmitOK, SubmitSteps
<1>1. pc[t] = "dispatch_warm" /\ UNCHANGED modeVars /\ UNCHANGED provVars /\ UNCHANGED <<reported, cancelled>>
  BY DEF DispatchWarm
<1>2. CASE SendCommand(r, j) /\ Goto(t, "track_warm") /\ UNCHANGED frame
  <2>1. Going(t) /\ pc'[t] = "track_warm" /\ UNCHANGED <<ec2, mode_resources>> /\ Sent(t)'
    BY <1>0, <1>1, <1>2 DEF SendCommand, StartCommand, Going, Others, PreRecord, SubmitSteps, Goto, CallsTypeOK,
       modeVars, provVars, ModeTypeOK, AwsTypeOK, Sent
  <2>2. host'[j] = r /\ ec2[r] = "running"
    BY <1>2 DEF SendCommand, StartCommand, ModeTypeOK, AwsTypeOK
  <2> QED
    BY <1>0, <1>1, <2>1, <2>2, GoingAccounted DEF Tracked, Launching
<1>3. CASE Return(t) /\ UNCHANGED <<ec2, command, host, warned>>
  <2>1. Fading /\ Turning(t)
    BY <1>1, <1>3, FadingQuiet, TurningReturn DEF modeVars, Tracked
  <2>2. pc'[t] = "idle" /\ ~Sent(t) /\ pc[t] \notin Launching
    BY <1>1, <1>3 DEF Return, Goto, CallsTypeOK, Sent, Launching
  <2> QED
    BY <1>1, <1>3, <2>1, <2>2, TurningKeeps DEF provVars, Mapped, Recorded, Accounted, LiveCommand
<1> QED
  BY <1>0, <1>2, <1>3 DEF DispatchWarm

\* A dead instance's record may be gone; a live one's is there.
LEMMA TrackWarmAccounted ==
  ASSUME TypeOK, TypeOK', Base, Methodical, NoLostInstance, Reliable, Accounted, NEW t \in Threads, TrackWarm(t)
  PROVE  Accounted'
<1> USE DEF TypeOK
<1>0. PICK r \in Instances, j \in Jobs : r = frame[t].rid /\ j = frame[t].job
  BY DEF TrackWarm, SubmitOK, SubmitSteps
<1>1. pc[t] = "track_warm" /\ UNCHANGED awsVars /\ UNCHANGED provVars /\ UNCHANGED <<reported, cancelled>>
  BY DEF TrackWarm, TrackCommand
<1>2. host[j] = r
  BY <1>0, <1>1 DEF Base, HostsKnown, Sent
<1>3. CASE TrackCommand(r, j) /\ Goto(t, "record") /\ UNCHANGED frame
  <2>1. Going(t) /\ pc'[t] = "record" /\ Sent(t)'
    BY <1>0, <1>1, <1>3 DEF Going, Others, PreRecord, SubmitSteps, Goto, CallsTypeOK, awsVars, provVars, Sent
  <2>2. \A i \in Instances : Tracked(i)' => Tracked(i)
    BY <1>3 DEF TrackCommand, Tracked, ModeTypeOK
  <2>3. command[j] = "inprogress" => ec2[host[j]] = "running" /\ host[j] \in Instances
    BY DEF Accounted, LiveCommand
  <2> QED
    BY <1>0, <1>1, <2>1, <2>2, <2>3, GoingAccounted DEF awsVars, Launching
<1>4. CASE ~Tracked(r) /\ Return(t) /\ UNCHANGED modeVars
  <2>1. Fading /\ Turning(t)
    BY <1>1, <1>4, FadingQuiet, TurningReturn DEF modeVars, awsVars, Tracked
  <2>2. pc'[t] = "idle" /\ pc[t] \notin Launching
    BY <1>1, <1>4 DEF Return, Goto, CallsTypeOK, Launching
  <2>3. ec2[r] # "running"
    <3>1. ~\E u \in Threads : pc[u] = "wait" /\ frame[u].rid = r
      BY <1>0, <1>1 DEF Base, InstancesNew
    <3> QED
      BY <1>4, <3>1 DEF NoLostInstance, LiveInstanceTracked, Running
  <2>4. command[j] # "inprogress"
    BY <1>2, <2>3 DEF Accounted, LiveCommand
  <2> QED
    BY <1>0, <1>1, <2>1, <2>2, <2>4, TurningKeeps DEF awsVars, provVars, Mapped, Recorded, Accounted, LiveCommand
<1> QED
  BY <1>0, <1>1, <1>3, <1>4 DEF TrackWarm

\* The cold path: an instance is launched, in UserData mode with its command, ...
LEMMA CreateAccounted ==
  ASSUME TypeOK, TypeOK', Base, Methodical, Reliable, Accounted, NEW t \in Threads, Create(t)
  PROVE  Accounted'
<1> USE DEF TypeOK
<1>0. pc[t] = "create" /\ frame[t].job \in Jobs /\ frame[t] \in Frame
  BY DEF Create, SubmitOK, SubmitSteps, CallsTypeOK
<1>1. ASSUME NEW r \in Instances, RunInstance(r, frame[t].job), Goto(t, "wait"), frame' = [frame EXCEPT ![t].rid = r]
      PROVE  Accounted'
  <2>1. Going(t) /\ pc'[t] = "wait" /\ frame'[t].rid = r /\ UNCHANGED mode_resources
    BY <1>0, <1>1 DEF Create, RunInstance, StartCommand, Going, Others, PreRecord, SubmitSteps, Goto, CallsTypeOK,
       Frame, modeVars, provVars, ModeTypeOK, AwsTypeOK
  <2>2. /\ ec2[r] = "unused" /\ ec2'[r] = "running" /\ \A i \in Instances : i # r => ec2'[i] = ec2[i]
        /\ UsesSsmDispatch => UNCHANGED command
        /\ ~UsesSsmDispatch => host'[frame[t].job] = r
    BY <1>0, <1>1 DEF RunInstance, StartCommand, ModeTypeOK, AwsTypeOK
  <2>3. command[frame[t].job] # "inprogress"
    BY <1>0 DEF Base, JobsNew, Unsent, Sent, SubmitSteps
  <2>4. command'[frame[t].job] = "inprogress" =>
          host'[frame[t].job] \in Instances /\ ec2'[host'[frame[t].job]] = "running" /\ Sent(t)'
    BY <2>1, <2>2, <2>3 DEF Sent
  <2> QED
    BY <1>0, <2>1, <2>2, <2>4, GoingAccounted DEF Tracked, Launching
<1>2. CASE RunInstanceFails /\ Return(t)
  <2>1. Fading /\ Turning(t)
    BY <1>0, <1>2, FadingQuiet, TurningReturn DEF Create, RunInstanceFails, modeVars, Tracked
  <2>2. pc'[t] = "idle" /\ pc[t] \notin Launching /\ ~Sent(t)
    BY <1>0, <1>2 DEF Return, Goto, CallsTypeOK, Launching, Sent
  <2> QED
    BY <1>0, <1>2, <2>1, <2>2, TurningKeeps
       DEF Create, RunInstanceFails, provVars, Mapped, Recorded, Accounted, LiveCommand
<1> QED
  BY <1>1, <1>2 DEF Create

\* ... comes up and is tracked, unless AWS has taken it ...
LEMMA WaitRunningAccounted ==
  ASSUME TypeOK, TypeOK', Base, Methodical, Reliable, Accounted, NEW t \in Threads, WaitRunning(t)
  PROVE  Accounted'
<1> USE DEF TypeOK
<1>0. PICK r \in Instances, j \in Jobs : r = frame[t].rid /\ j = frame[t].job
  BY DEF WaitRunning, SubmitOK, SubmitSteps
<1>1. /\ pc[t] = "wait" /\ UNCHANGED <<ec2, command, host>> /\ UNCHANGED provVars /\ UNCHANGED <<reported, cancelled>>
      /\ command[j] = "inprogress" => Sent(t)
  BY <1>0 DEF WaitRunning, TrackInstance, WaitFails, awsVars, Base, JobsNew, Unsent, SubmitSteps
<1>2. CASE TrackInstance(r) /\ Goto(t, IF UsesSsmDispatch THEN "deliver" ELSE "record") /\ UNCHANGED frame
  <2>1. Going(t) /\ pc'[t] \in {"deliver", "record"} /\ (Sent(t) => Sent(t)')
    BY <1>0, <1>1, <1>2 DEF Going, Others, PreRecord, SubmitSteps, Goto, CallsTypeOK, provVars, Sent
  <2>2. \A i \in Instances : Tracked(i)' => Tracked(i) \/ ec2[i] = "running"
    BY <1>2 DEF TrackInstance, Tracked, ModeTypeOK
  <2>3. command[j] = "inprogress" => ec2[host[j]] = "running" /\ host[j] \in Instances
    BY DEF Accounted, LiveCommand
  <2>4. pc'[t] \in Launching /\ frame'[t].rid = frame[t].rid
    BY <1>2, <2>1 DEF Launching
  <2> QED
    BY <1>0, <1>1, <2>1, <2>2, <2>3, <2>4, GoingAccounted
<1>3. CASE WaitFails(r) /\ Return(t)
  <2>1. Fading /\ Turning(t)
    BY <1>1, <1>3, FadingQuiet, TurningReturn DEF WaitFails, modeVars, Tracked
  <2>2. pc'[t] = "idle" /\ ec2[r] # "running"
    BY <1>1, <1>3 DEF Return, Goto, CallsTypeOK, WaitFails, Fault, Reliable
  <2>3. command[j] # "inprogress"
    BY <1>0, <1>1, <2>2 DEF Accounted, LiveCommand, Base, HostsKnown
  <2> QED
    BY <1>0, <1>1, <2>1, <2>2, <2>3, TurningKeeps DEF provVars, Mapped, Recorded, Accounted, LiveCommand
<1> QED
  BY <1>0, <1>2, <1>3 DEF WaitRunning

\* An abandoned instance is terminated.
LEMMA AbandonAccounted ==
  ASSUME TypeOK, TypeOK', Base, NoLostInstance, Reliable, Accounted, NEW t \in Threads, NEW r \in Instances,
         r = frame[t].rid, Abandon(r), Return(t), pc[t] \in {"deliver", "track_cold"},
         UNCHANGED provVars, UNCHANGED <<reported, cancelled>>
  PROVE  Accounted'
<1> USE DEF TypeOK
<1>1. Terminate({r}) /\ UNCHANGED warm_instances
  BY DEF Abandon, Known, NoLostInstance, Reliable
<1>2. Fading /\ Turning(t)
  BY <1>1, FadingAbandon, TurningReturn
<1>3. /\ \A j \in Jobs : command'[j] = "inprogress" => host[j] # r /\ ec2'[host[j]] = "running"
      /\ ec2'[r] # "running"
  <2> DEFINE S == {r}
  <2>1. Terminate(S) /\ LiveCommand
    BY <1>1 DEF Accounted
  <2> HIDE DEF S
  <2>2. /\ \A j \in Jobs : command'[j] = "inprogress" => host[j] \notin S /\ ec2'[host[j]] = "running"
        /\ \A i \in Instances : i \in S => ec2'[i] # "running"
    BY <2>1, TerminateEnds
  <2> QED
    BY <2>2 DEF S
<1>4. Sent(t) => host[frame[t].job] = r /\ frame[t].job \in Jobs
  BY DEF Base, HostsKnown, SubmitOK, SubmitSteps
<1>5. pc'[t] = "idle"
  BY DEF Return, Goto, CallsTypeOK
<1> QED
  BY <1>2, <1>3, <1>4, <1>5, TurningKeeps DEF provVars, Mapped, Recorded

\* ... and is sent its command over SSM, ...
LEMMA DeliverAccounted ==
  ASSUME TypeOK, TypeOK', Base, Methodical, NoLostInstance, Reliable, Accounted, NEW t \in Threads, Deliver(t)
  PROVE  Accounted'
<1> USE DEF TypeOK
<1>0. PICK r \in Instances, j \in Jobs : r = frame[t].rid /\ j = frame[t].job
  BY DEF Deliver, SubmitOK, SubmitSteps
<1>1. pc[t] = "deliver" /\ UNCHANGED provVars /\ UNCHANGED <<reported, cancelled>>
  BY DEF Deliver
<1>2. CASE SendCommand(r, j) /\ UNCHANGED modeVars /\ Goto(t, "track_cold") /\ UNCHANGED frame
  <2>1. Going(t) /\ pc'[t] = "track_cold" /\ UNCHANGED <<ec2, mode_resources>> /\ Sent(t)'
    BY <1>0, <1>1, <1>2 DEF SendCommand, StartCommand, Going, Others, PreRecord, SubmitSteps, Goto, CallsTypeOK,
       modeVars, provVars, ModeTypeOK, AwsTypeOK, Sent
  <2>2. host'[j] = r /\ ec2[r] = "running"
    BY <1>2 DEF SendCommand, StartCommand, ModeTypeOK, AwsTypeOK
  <2> QED
    BY <1>0, <1>1, <1>2, <2>1, <2>2, GoingAccounted DEF Tracked, Launching
<1> QED
  BY <1>0, <1>1, <1>2, AbandonAccounted DEF Deliver

\* ... which its record takes up.
LEMMA TrackColdAccounted ==
  ASSUME TypeOK, TypeOK', Base, Methodical, NoLostInstance, Reliable, Accounted, NEW t \in Threads, TrackCold(t)
  PROVE  Accounted'
<1> USE DEF TypeOK
<1>0. PICK r \in Instances, j \in Jobs : r = frame[t].rid /\ j = frame[t].job
  BY DEF TrackCold, SubmitOK, SubmitSteps
<1>1. pc[t] = "track_cold" /\ UNCHANGED provVars /\ UNCHANGED <<reported, cancelled>>
  BY DEF TrackCold
<1>3. CASE TrackCommand(r, j) /\ Goto(t, "record") /\ UNCHANGED frame
  <2>1. Going(t) /\ pc'[t] = "record" /\ Sent(t)' /\ UNCHANGED <<ec2, command, host>>
    BY <1>0, <1>1, <1>3 DEF TrackCommand, Going, Others, PreRecord, SubmitSteps, Goto, CallsTypeOK, awsVars, provVars, Sent
  <2>2. \A i \in Instances : Tracked(i)' => Tracked(i)
    BY <1>3 DEF TrackCommand, Tracked, ModeTypeOK
  <2>3. command[j] = "inprogress" => ec2[host[j]] = "running" /\ host[j] \in Instances
    BY DEF Accounted, LiveCommand
  <2> QED
    BY <1>0, <1>1, <1>3, <2>1, <2>2, <2>3, GoingAccounted DEF Launching
<1> QED
  BY <1>0, <1>1, <1>3, AbandonAccounted DEF TrackCold

\* submit() begins.
LEMMA SubmitAccounted ==
  ASSUME TypeOK, TypeOK', Base, Methodical, Reliable, Accounted, NEW t \in Threads, NEW j \in Jobs, Submit(t, j)
  PROVE  Accounted'
<1>1. /\ Others(t) /\ pc[t] = "idle" /\ pc'[t] = "take"
      /\ UNCHANGED <<ec2, command, host, mode_resources, resources, job_map, cancelled>>
  BY DEF Submit, Begin, Goto, TypeOK, CallsTypeOK, Others, modeVars, awsVars, provVars
<1> USE DEF Accounted
<1>2. LiveCommand'
  BY <1>1 DEF LiveCommand, Others, Sent, Mapped
<1>3. ForgetsDead'
  BY <1>1 DEF ForgetsDead, Others, Tracked
<1>4. ShutdownOver'
  BY <1>1 DEF ShutdownOver, Others, Tracked
<1>5. CancelReaches'
  BY <1>1 DEF CancelReaches, Others
<1>6. RunningCounted'
  BY <1>1 DEF RunningCounted, Others, Running, Recorded, Launching
<1> QED
  BY <1>2, <1>3, <1>4, <1>5, <1>6

\* submit() records what it has launched and sent.
LEMMA RecordJobAccounted ==
  ASSUME TypeOK, TypeOK', Base, Methodical, Reliable, Accounted, NEW t \in Threads, RecordJob(t)
  PROVE  Accounted'
<1>0. PICK r \in Instances, j \in Jobs : r = frame[t].rid /\ j = frame[t].job
  BY DEF RecordJob, TypeOK, SubmitOK, SubmitSteps
<1>1. /\ Others(t) /\ pc[t] = "record" /\ pc'[t] = "save_job"
      /\ UNCHANGED <<ec2, command, host, mode_resources, cancelled>>
  BY DEF RecordJob, Goto, TypeOK, CallsTypeOK, Others, modeVars, awsVars
<1>2. /\ resources' = [resources EXCEPT ![r] = [job |-> j, status |-> "PENDING"]]
      /\ job_map' = [job_map EXCEPT ![j] = [rid |-> r, status |-> "PENDING"]]
  BY <1>0 DEF RecordJob
<1>3. (\A k \in Jobs : Mapped(k) => Mapped(k)') /\ Mapped(j)'
  BY <1>2 DEF Mapped, Absent, TypeOK, BooksTypeOK
<1>4. (\A i \in Instances : Recorded(i) => Recorded(i)') /\ Recorded(r)'
  BY <1>2 DEF Recorded, Absent, TypeOK, BooksTypeOK
<1> USE DEF Accounted
<1>5. LiveCommand'
  BY <1>0, <1>1, <1>3 DEF LiveCommand, Others, Sent
<1>6. ForgetsDead'
  BY <1>1 DEF ForgetsDead, Others, Tracked
<1>7. ShutdownOver'
  BY <1>1 DEF ShutdownOver, Others, Tracked
<1>8. CancelReaches'
  BY <1>1 DEF CancelReaches, Others
<1>9. RunningCounted'
  BY <1>0, <1>1, <1>4 DEF RunningCounted, Others, Running
<1> QED
  BY <1>5, <1>6, <1>7, <1>8, <1>9

\* submit() returns.
LEMMA SaveJobAccounted ==
  ASSUME TypeOK, TypeOK', Base, Methodical, Reliable, Accounted, NEW t \in Threads, SaveJob(t)
  PROVE  Accounted'
<1>1. /\ Others(t) /\ pc[t] = "save_job" /\ pc'[t] = "idle"
      /\ UNCHANGED <<ec2, command, host, mode_resources, resources, job_map, cancelled>>
  BY DEF SaveJob, Return, Goto, TypeOK, CallsTypeOK, Others, modeVars, awsVars
<1> USE DEF Accounted
<1>2. LiveCommand'
  BY <1>1 DEF LiveCommand, Others, Sent, Mapped
<1>3. ForgetsDead'
  BY <1>1 DEF ForgetsDead, Others, Tracked
<1>4. ShutdownOver'
  BY <1>1 DEF ShutdownOver, Others, Tracked
<1>5. CancelReaches'
  BY <1>1 DEF CancelReaches, Others
<1>6. RunningCounted'
  BY <1>1 DEF RunningCounted, Others, Running, Recorded, Launching
<1> QED
  BY <1>2, <1>3, <1>4, <1>5, <1>6

\* The environment ends commands together with their instances or without.
LEMMA EnvironmentAccounted ==
  ASSUME TypeOK, TypeOK', Base, Reliable, Accounted, Environment
  PROVE  Accounted'
<1> USE DEF TypeOK, ModeTypeOK, AwsTypeOK, Accounted
<1>1. Fading
  BY FadingEnvironment DEF Base
<1>2. UNCHANGED <<resources, job_map, pc, frame, cancelled>>
  BY DEF Environment, provVars, callVars
<1>3. \A j \in Jobs : command'[j] = "inprogress" => command[j] = "inprogress" /\ ec2'[host[j]] = "running"
  <2>a. \A j \in Jobs : command[j] = "inprogress" => host[j] \in Instances /\ ec2[host[j]] = "running"
    BY DEF LiveCommand
  <2>1. ASSUME NEW k \in Jobs, FinishCommand(k)
        PROVE  \A j \in Jobs : command'[j] = "inprogress" => ec2'[host[j]] = "running"
    <3>1. ~UsesSsmDispatch => \A j \in Jobs : command[j] = "inprogress" /\ j # k => host[j] # host[k]
      BY <2>a, ModeAssumption DEF Base, HostsApart, UsesSsmDispatch
    <3>2. \A j \in Jobs : command'[j] = "inprogress" => command[j] = "inprogress" /\ j # k
      BY <2>1 DEF FinishCommand
    <3> QED
      BY <2>1, <2>a, <3>1, <3>2 DEF FinishCommand
  <2>2. ASSUME NEW k \in Jobs, ShutDownAfter(k)
        PROVE  \A j \in Jobs : command'[j] = "inprogress" => ec2'[host[j]] = "running"
    <3>1. \A j \in Jobs : command[j] = "inprogress" /\ j # k => host[j] # host[k]
      BY <2>2, <2>a, ModeAssumption DEF Base, HostsApart, ShutDownAfter
    <3> QED
      BY <2>2, <2>a, <3>1 DEF ShutDownAfter
  <2>3. ASSUME NEW i \in Instances, Reclaim(i)
        PROVE  \A j \in Jobs : command'[j] = "inprogress" => ec2'[host[j]] = "running"
    <3> DEFINE S == {i}
    <3>1. Terminate(S) /\ LiveCommand
      BY <2>3 DEF Reclaim
    <3> HIDE DEF S
    <3> QED
      BY <3>1, TerminateEnds
  <2>4. ASSUME NEW i \in Instances, ForgetInstance(i)
        PROVE  FALSE
    BY <2>4 DEF ForgetInstance, Fault, Reliable
  <2>5. ASSUME NEW i \in Instances, HandleInstanceInterruption(i)
        PROVE  \A j \in Jobs : command'[j] = "inprogress" => ec2'[host[j]] = "running"
    BY <2>5, <2>a DEF HandleInstanceInterruption
  <2> QED
    BY <1>1, <2>1, <2>2, <2>3, <2>4, <2>5 DEF Environment, Fading
<1>4. LiveCommand'
  BY <1>1, <1>2, <1>3 DEF LiveCommand, Fading, Sent, Mapped
<1>5. ForgetsDead'
  <2>1. \A t \in Threads : frame[t].rids \subseteq Instances
    BY DEF CallsTypeOK, Frame
  <2> QED
    BY <1>1, <1>2, <2>1 DEF ForgetsDead, Fading
<1>6. ShutdownOver'
  BY <1>1, <1>2 DEF ShutdownOver, Fading
<1>7. CancelReaches'
  BY <1>1, <1>2 DEF CancelReaches, Fading
<1>8. RunningCounted'
  BY <1>1, <1>2 DEF RunningCounted, Fading, Running, Recorded
<1> QED
  BY <1>4, <1>5, <1>6, <1>7, <1>8

\* The accounts are kept by every step.
LEMMA AccountedStep ==
  ASSUME TypeOK, TypeOK', Base, Methodical, NoLostInstance, Reliable, Accounted, [Next]_vars
  PROVE  Accounted'
<1>1. ASSUME NEW t \in Threads, SubmitStep(t)
      PROVE  Accounted'
  <2>1. CASE SubmitUninitialized(t)
    BY <2>1, TurnSubmitUninitialized, PlainStatus, PlainKeeps
  <2> QED
    BY <1>1, <2>1, TakeAccounted, DispatchWarmAccounted, TrackWarmAccounted, CreateAccounted, WaitRunningAccounted,
       DeliverAccounted, TrackColdAccounted, RecordJobAccounted, SaveJobAccounted DEF SubmitStep
<1>2. ASSUME NEW t \in Threads, Turned(t)
      PROVE  Accounted'
  <2>1. Fading /\ Turning(t)
    BY <1>2, TurnedTurns
  <2>2. CASE StatusStep(t) \/ StatusBegin(t) \/ SubmitUninitialized(t)
    BY <2>1, <2>2, PlainStatus, PlainKeeps
  <2>3. CASE ScaleIn(t) \/ CancelUpdate(t) \/ CleanupStep(t)
    BY <2>1, <2>3, PlainCleanup, PlainKeeps, TerminateDoomedAccounted, ForgetAccounted
  <2>4. CASE CancelStep(t)
    BY <2>1, <2>3, <2>4, CollectStepsKeep, CancelCallAccounted DEF CancelStep
  <2>5. CASE ShutdownStep(t)
    BY <2>1, <2>5, ShutdownStepAccounted
  <2>6. CASE Shutdown(t) \/ \E J \in SUBSET Jobs : Cancel(t, J)
    BY <2>1, <2>6, CollectStepsKeep
  <2> QED
    BY <1>2, <2>2, <2>3, <2>4, <2>5, <2>6 DEF Turned
<1>3. ASSUME NEW t \in Threads, Continue(t) \/ Call(t)
      PROVE  Accounted'
  <2>1. CASE \E j \in Jobs : Submit(t, j)
    BY <2>1, SubmitAccounted
  <2>2. CASE Turned(t)
    BY <1>2, <2>2
  <2> QED
    BY <1>1, <1>3, <2>1, <2>2 DEF Continue, Call, Turned
<1>4. CASE Tick \/ UNCHANGED vars
  BY <1>4 DEF Tick, vars, modeVars, awsVars, provVars, callVars, Accounted, LiveCommand, ForgetsDead, ShutdownOver,
     CancelReaches, RunningCounted, Running, Recorded, Mapped, Tracked, Sent
<1>5. ~Restart
  BY DEF Restart, Fault, Reliable
<1> QED
  BY <1>3, <1>4, <1>5, EnvironmentAccounted DEF Next, Rest

\* Nothing is to be accounted for at first.
LEMMA InitAccounted == Init => Accounted
BY DEF Init, ModeInit, Accounted, LiveCommand, ForgetsDead, ShutdownOver, CancelReaches, RunningCounted, Running

\* Every invariant of this module together.
CallsAccounted == TypeOK /\ NoLostInstance /\ Base /\ Methodical /\ Accounted

\* The invariants together hold of every behaviour.
LEMMA CallsKeepAccounts ==
  ASSUME Reliable
  PROVE  Spec => []CallsAccounted
<1>0. FaultsKeepTrack /\ "crash" \notin Faults
  BY DEF Reliable, FaultsKeepTrack
<1>1. Init => CallsAccounted
  <2>1. Init => NoLostInstance
    BY DEF Init, ModeInit, NoLostInstance, LiveInstanceTracked, Running
  <2> QED
    BY <2>1, InitType, InitBase, InitMethod, InitAccounted DEF CallsAccounted
<1>2. CallsAccounted /\ [Next]_vars => CallsAccounted'
  BY <1>0, TypeStep, TrackingStep, BaseStep, MethodStep, AccountedStep DEF CallsAccounted
<1> QED
  BY <1>1, <1>2, PTL DEF Spec

\* However many threads submit, poll, cancel and scale in at once, and with a warm
\* pool or without: once cancel() has returned, the job's command is over.
THEOREM CancelStopsJob ==
  ASSUME Reliable
  PROVE  Spec => []CancelTakesEffect
<1>1. CallsAccounted => CancelTakesEffect
  BY DEF CallsAccounted, Accounted, CancelReaches, CancelTakesEffect, Quiet
<1> QED
  BY <1>1, CallsKeepAccounts, PTL

-----------------------------------------------------------------------------
(* max_blocks.                                                             *)

\* Parsl's scaling strategy is the only caller of submit().
OneSubmitter == \A t, u \in Threads : "submit" \in Calls[t] /\ "submit" \in Calls[u] => t = u

\* The blocks that count leave room for the one being submitted.
RoomForBlock ==
  /\ IsFiniteSet(Blocks) /\ Cardinality(Blocks) <= MaxBlocks
  /\ \A t \in Threads : pc[t] \in PreRecord => Cardinality(Blocks) < MaxBlocks

\* A step that records no block leaves the room there is.
LEMMA RoomKept ==
  ASSUME RoomForBlock, \A i \in Instances : Recorded(i)' => Recorded(i),
         \A t \in Threads : pc'[t] \in PreRecord =>
           pc[t] \in PreRecord \/ Cardinality(Blocks) < MaxBlocks
  PROVE  RoomForBlock'
<1> DEFINE B == Blocks
           C == Blocks'
<1>1. C \subseteq B
  BY DEF Blocks, Recorded
<1>2. IsFiniteSet(B)
  BY DEF RoomForBlock
<1> HIDE DEF B, C
<1>3. IsFiniteSet(C) /\ Cardinality(C) <= Cardinality(B) /\ Cardinality(B) \in Nat /\ Cardinality(C) \in Nat
  BY <1>1, <1>2, FS_Subset, FS_CardinalityType
<1>4. IsFiniteSet(Blocks') /\ Cardinality(Blocks') <= Cardinality(Blocks)
      /\ Cardinality(Blocks) \in Nat /\ Cardinality(Blocks') \in Nat
  BY <1>3 DEF B, C
<1> QED
  BY <1>4, ProviderAssumption DEF RoomForBlock

\* A finite set with one element more has at most one element more.
LEMMA OneMore ==
  ASSUME NEW B, NEW x, IsFiniteSet(B)
  PROVE  /\ IsFiniteSet(B \cup {x})
         /\ Cardinality(B \cup {x}) \in Nat
         /\ Cardinality(B) \in Nat
         /\ Cardinality(B \cup {x}) <= Cardinality(B) + 1
<1>1. IsFiniteSet(B \cup {x})
  BY FS_AddElement
<1>2. Cardinality(B \cup {x}) = IF x \in B THEN Cardinality(B) ELSE Cardinality(B) + 1
  BY FS_AddElement
<1>3. Cardinality(B) \in Nat
  BY FS_CardinalityType
<1> QED
  BY <1>1, <1>2, <1>3

\* Only the submit() that was let in records a block.
LEMMA RecordJobKeepsRoom ==
  ASSUME TypeOK, Methodical, OneSubmitter, RoomForBlock, NEW t \in Threads, RecordJob(t)
  PROVE  RoomForBlock'
<1>0. PICK r \in Instances : r = frame[t].rid
  BY DEF RecordJob, TypeOK, SubmitOK, SubmitSteps
<1>1. pc[t] = "record" /\ Others(t) /\ pc'[t] = "save_job"
  BY DEF RecordJob, Goto, TypeOK, CallsTypeOK, Others
<1>2. \A i \in Instances : Recorded(i)' => Recorded(i) \/ i = r
  BY <1>0 DEF RecordJob, Recorded, TypeOK, BooksTypeOK
<1>3. IsFiniteSet(Blocks) /\ Cardinality(Blocks) < MaxBlocks
  BY <1>1 DEF RoomForBlock, PreRecord, SubmitSteps
<1> DEFINE B == Blocks
           C == Blocks'
<1>4. C \subseteq B \cup {r} /\ IsFiniteSet(B)
  BY <1>2, <1>3 DEF Blocks
<1> HIDE DEF B, C
<1>5. /\ IsFiniteSet(C) /\ Cardinality(C) \in Nat /\ Cardinality(B) \in Nat
      /\ Cardinality(C) <= Cardinality(B) + 1
  <2>1. IsFiniteSet(B \cup {r}) /\ Cardinality(B \cup {r}) \in Nat /\ Cardinality(B) \in Nat
        /\ Cardinality(B \cup {r}) <= Cardinality(B) + 1
    BY <1>4, OneMore
  <2>2. IsFiniteSet(C) /\ Cardinality(C) <= Cardinality(B \cup {r})
    BY <1>4, <2>1, FS_Subset
  <2>3. Cardinality(C) \in Nat
    BY <2>2, FS_CardinalityType
  <2> QED
    BY <2>1, <2>2, <2>3
<1>6. IsFiniteSet(Blocks') /\ Cardinality(Blocks') <= MaxBlocks
  <2>1. IsFiniteSet(Blocks') /\ Cardinality(Blocks') \in Nat /\ Cardinality(Blocks) \in Nat
        /\ Cardinality(Blocks') <= Cardinality(Blocks) + 1
    BY <1>5 DEF B, C
  <2> QED
    BY <1>3, <2>1, ProviderAssumption
<1>7. \A u \in Threads : pc'[u] \notin PreRecord
  <2>1. \A u \in Threads : pc[u] \in SubmitSteps => u = t
    BY <1>1 DEF Methodical, OneSubmitter, SubmitSteps
  <2> QED
    BY <1>1, <2>1 DEF Others, PreRecord
<1> QED
  BY <1>6, <1>7 DEF RoomForBlock

\* The other steps record none; those of submit() were let in.
LEMMA RoomStep ==
  ASSUME TypeOK, TypeOK', Base, Methodical, OneSubmitter, "crash" \notin Faults, RoomForBlock, [Next]_vars
  PROVE  RoomForBlock'
<1>1. ASSUME NEW t \in Threads, Turned(t)
      PROVE  RoomForBlock'
  <2>1. Dropping /\ Turning(t)
    BY <1>1, TurnedTurns
  <2> QED
    BY <2>1, RoomKept DEF Dropping, Turning, Others, PreRecord
<1>2. ASSUME UNCHANGED resources, NEW t \in Threads, Others(t), pc[t] \in PreRecord
      PROVE  RoomForBlock'
  BY <1>2, RoomKept DEF Others, Recorded, RoomForBlock
<1>3. ASSUME NEW t \in Threads, SubmitStep(t), ~RecordJob(t), ~SaveJob(t)
      PROVE  RoomForBlock'
  <2>1. pc[t] \in PreRecord /\ UNCHANGED resources
    BY <1>3 DEF SubmitStep, SubmitUninitialized, TakeWarm, TakeCold, DispatchWarm, TrackWarm, Create, WaitRunning,
       Deliver, TrackCold, provVars, PreRecord, SubmitSteps
  <2>2. Others(t)
    BY <1>3, WithinSubmit DEF Within
  <2> QED
    BY <1>2, <2>1, <2>2
<1>4. ASSUME NEW t \in Threads, SaveJob(t)
      PROVE  RoomForBlock'
  <2>1. pc'[t] = "idle" /\ Others(t) /\ UNCHANGED resources
    BY <1>4 DEF SaveJob, Return, Goto, TypeOK, CallsTypeOK, Others
  <2> QED
    BY <2>1, RoomKept DEF Others, Recorded, PreRecord, SubmitSteps
<1>5. ASSUME NEW t \in Threads, NEW j \in Jobs, Submit(t, j)
      PROVE  RoomForBlock'
  BY <1>5, RoomKept DEF Submit, provVars, Recorded
<1>6. ASSUME NEW t \in Threads, Continue(t) \/ Call(t)
      PROVE  RoomForBlock'
  BY <1>1, <1>3, <1>4, <1>5, <1>6, RecordJobKeepsRoom DEF Continue, Call, Turned
<1>7. CASE Tick \/ Environment \/ UNCHANGED vars
  BY <1>7, RoomKept DEF Tick, Environment, vars, provVars, callVars, Recorded
<1>8. ~Restart
  BY DEF Restart, Fault
<1> QED
  BY <1>6, <1>7, <1>8 DEF Next, Rest

\* At first there are no blocks.
LEMMA InitRoom == Init => RoomForBlock
<1> SUFFICES ASSUME Init PROVE RoomForBlock
  OBVIOUS
<1>1. Blocks = {}
  BY DEF Init, Blocks, Recorded, NoRecord
<1>2. \A t \in Threads : pc[t] \notin PreRecord
  BY DEF Init, PreRecord, SubmitSteps
<1> QED
  BY <1>1, <1>2, FS_EmptySet, ProviderAssumption DEF RoomForBlock

\* What runs is counted, or is the one instance being launched, for which there is room.
LEMMA RoomBoundsRunning ==
  ASSUME TypeOK, Methodical, OneSubmitter, Accounted, RoomForBlock
  PROVE  CapacityRespected
<1> DEFINE B == Blocks
           R == Running
<1>1. IsFiniteSet(B)
  BY DEF RoomForBlock
<1>2. CASE R \subseteq B
  <2> HIDE DEF B, R
  <2>1. Cardinality(R) <= Cardinality(B) /\ Cardinality(R) \in Nat /\ Cardinality(B) \in Nat
    BY <1>1, <1>2, FS_Subset, FS_CardinalityType
  <2>2. Cardinality(B) <= MaxBlocks
    BY DEF RoomForBlock, B
  <2>3. Cardinality(R) <= MaxBlocks
    BY <2>1, <2>2, ProviderAssumption
  <2> QED
    BY <2>3 DEF CapacityRespected, R
<1>3. CASE ~(R \subseteq B)
  <2>1. PICK i \in Running : ~Recorded(i)
    BY <1>3 DEF Blocks, Running
  <2>2. PICK t \in Threads : pc[t] \in Launching /\ frame[t].rid = i
    BY <2>1 DEF Accounted, RunningCounted
  <2>3. \A u \in Threads : pc[u] \in SubmitSteps => u = t
    BY <2>2 DEF Methodical, OneSubmitter, SubmitSteps, Launching
  <2>4. R \subseteq B \cup {i}
    <3>1. \A k \in Running : Recorded(k) \/ k = i
      BY <2>2, <2>3 DEF Accounted, RunningCounted, Launching, SubmitSteps
    <3> QED
      BY <3>1 DEF Blocks, Running
  <2>5. Cardinality(Blocks) < MaxBlocks
    BY <2>2 DEF RoomForBlock, Launching, PreRecord, SubmitSteps
  <2> HIDE DEF B, R
  <2>6. IsFiniteSet(B \cup {i}) /\ Cardinality(B \cup {i}) \in Nat /\ Cardinality(B) \in Nat
        /\ Cardinality(B \cup {i}) <= Cardinality(B) + 1
    BY <1>1, OneMore
  <2>7. Cardinality(R) <= Cardinality(B \cup {i}) /\ Cardinality(R) \in Nat
    BY <2>4, <2>6, FS_Subset, FS_CardinalityType
  <2>8. Cardinality(R) <= MaxBlocks
    BY <2>5, <2>6, <2>7, ProviderAssumption DEF B
  <2> QED
    BY <2>8 DEF CapacityRespected, R
<1> QED
  BY <1>2, <1>3

\* With one thread that submits, whatever the others cancel and clean up and
\* whatever AWS interrupts, no more than max_blocks instances run.  With two, both
\* can pass the check of submit() before either has recorded its block.
THEOREM CapacityKept ==
  ASSUME Reliable, OneSubmitter
  PROVE  Spec => []CapacityRespected
<1>1. Init => RoomForBlock
  BY InitRoom
<1>2. CallsAccounted /\ CallsAccounted' /\ RoomForBlock /\ [Next]_vars => RoomForBlock'
  BY RoomStep DEF CallsAccounted, Reliable
<1>3. CallsAccounted /\ RoomForBlock => CapacityRespected
  BY RoomBoundsRunning DEF CallsAccounted
<1> QED
  BY <1>1, <1>2, <1>3, CallsKeepAccounts, PTL DEF Spec

-----------------------------------------------------------------------------
(* One command per host.                                                   *)

\* Without a warm pool no instance ever gets a second command, whatever runs
\* beside the submit() calls and whatever fails, as long as the process lives.
THEOREM OneCommandPerHost ==
  ASSUME WarmPoolSize = 0, "crash" \notin Faults
  PROVE  Spec => []AtMostOneCommand
<1> DEFINE Inv == TypeOK /\ Base /\ SentToHost
<1>1. Init => Inv
  BY InitType, InitBase, InitHosts
<1>2. Inv /\ [Next]_vars => Inv'
  BY TypeStep, BaseStep, HostStep
<1>3. Inv => AtMostOneCommand
  BY ModeAssumption DEF Base, HostsApart, SentToHost, AtMostOneCommand
<1> QED
  BY <1>1, <1>2, <1>3, PTL DEF Spec

-----------------------------------------------------------------------------
(* shutdown() and the stored documents.                                    *)

\* A step that does not delete the mode's document.
DocumentStays == mode_store'.present \/ UNCHANGED mode_store

\* submit() deletes nothing.
LEMMA SubmitKeepsDocument ==
  ASSUME NEW t \in Threads, SubmitStep(t)
  PROVE  DocumentStays
BY DEF SubmitStep, SubmitUninitialized, TakeWarm, GetWarmInstance, TakeCold, DispatchWarm, TrackWarm, TrackCommand,
   Create, RunInstance, RunInstanceFails, WaitRunning, TrackInstance, WaitFails, Deliver, TrackCold, Abandon,
   RecordJob, SaveJob, modeVars, SaveMode, DocumentStays

\* Of the other methods only shutdown() does, in its last step.
LEMMA TurnedKeepsDocument ==
  ASSUME NEW t \in Threads, Turned(t), ~Erase(t)
  PROVE  DocumentStays
<1>0. SaveMode => DocumentStays
  BY DEF SaveMode, DocumentStays
<1>1. CASE SubmitUninitialized(t) \/ StatusStep(t) \/ StatusBegin(t)
  BY <1>0, <1>1 DEF SubmitUninitialized, StatusStep, StatusBegin, Group, PollSsm, PollCommands, PollEc2, PollInstances,
     PollRaises, PollCommandsRaises, StatusUpdate, SaveStatus, modeVars, DocumentStays
<1>2. CASE CancelStep(t) \/ ScaleIn(t) \/ Shutdown(t) \/ \E J \in SUBSET Jobs : Cancel(t, J)
  BY <1>0, <1>2 DEF CancelStep, ScaleInCancels, CancelCall, CancelJobs, CancelUpdate, ScaleIn, Shutdown, Cancel,
     modeVars, DocumentStays
<1>3. CASE CleanupStep(t)
  BY <1>0, <1>3 DEF CleanupStep, Scan, PoolSnapshot, TransitionSkipped, TransitionToPool,
     TransitionEvicting, Unlist, TerminateDoomed, CleanupResources, Forget, SavePass, SavePassMode, Finish,
     SaveCancel, modeVars, DocumentStays
<1>4. CASE ShutdownStep(t)
  BY <1>4 DEF ShutdownStep, Infrastructure, CleanupAll, CleanupResources, Deinitialize,
     FinishInfrastructure, SaveMode, Clear, modeVars, DocumentStays
<1> QED
  BY <1>1, <1>2, <1>3, <1>4 DEF Turned

\* A thread's step moves its own call only.
LEMMA StepsAlone ==
  ASSUME TypeOK, TypeOK', Base, NEW t \in Threads, Continue(t) \/ Call(t)
  PROVE  Others(t)
<1>1. CASE SubmitStep(t) \/ \E j \in Jobs : Submit(t, j)
  BY <1>1 DEF SubmitStep, Submit, SubmitUninitialized, TakeWarm, TakeCold, DispatchWarm, TrackWarm,
     Create, WaitRunning, Deliver, TrackCold, RecordJob, SaveJob, Return, Goto, TypeOK, CallsTypeOK, Others
<1>2. CASE Turned(t)
  BY <1>2, TurnedTurns DEF Turning
<1> QED
  BY <1>1, <1>2 DEF Continue, Call, Turned

\* What a call is about to write under the provider's key is a document.
SavingSteps == {"save_job", "save_status", "save_pass", "save_cancel"}
Saving == \A t \in Threads : pc[t] \in SavingSteps => frame[t].state.present

\* A call takes its snapshot of the books in the step before it writes it, and
\* only the write and shutdown() touch the provider's document.
LEMMA CallSaves ==
  ASSUME TypeOK, Saving, NEW t \in Threads, Call(t) \/ Continue(t)
  PROVE  /\ pc'[t] \in SavingSteps => frame'[t].state.present
         /\ Clear(t) \/ UNCHANGED provider_store \/ provider_store'.present
<1> DEFINE Saved == pc'[t] \in SavingSteps => frame'[t].state.present
           Kept == Clear(t) \/ UNCHANGED provider_store \/ provider_store'.present
<1> USE DEF TypeOK, CallsTypeOK, SavingSteps
<1>1. frame[t] \in Frame /\ NoFrame \in Frame
  BY NoFrameType
<1>2. CASE RecordJob(t) \/ StatusUpdate(t) \/ Forget(t) \/ Finish(t)
  <2>1. frame'[t].state = Snapshot
    <3>1. \A f \in Frame : \A x : [f EXCEPT !.state = x].state = x
      BY DEF Frame
    <3>2. CASE RecordJob(t)
      BY <1>1, <3>1, <3>2 DEF RecordJob
    <3>3. CASE StatusUpdate(t)
      BY <3>3 DEF StatusUpdate, NoFrame
    <3>4. CASE Forget(t)
      BY <1>1, <3>1, <3>4 DEF Forget
    <3>5. CASE Finish(t)
      BY <3>5 DEF Finish, NoFrame
    <3> QED
      BY <1>2, <3>2, <3>3, <3>4, <3>5
  <2>2. UNCHANGED provider_store
    BY <1>2 DEF RecordJob, StatusUpdate, WriteBack, Forget, Finish, provVars
  <2> QED
    BY <2>1, <2>2 DEF Snapshot
<1>3. CASE SaveJob(t) \/ SaveStatus(t) \/ SavePass(t) \/ SaveCancel(t)
  BY <1>3 DEF SaveJob, SaveStatus, SavePass, SaveCancel, WriteState, Saving, ToCleanup, Return, Goto
<1>4. CASE \/ SubmitUninitialized(t) \/ TakeWarm(t) \/ TakeCold(t) \/ DispatchWarm(t) \/ TrackWarm(t)
           \/ Create(t) \/ WaitRunning(t) \/ Deliver(t) \/ TrackCold(t)
  BY <1>4 DEF SubmitUninitialized, TakeWarm, TakeCold, DispatchWarm, TrackWarm, Create, WaitRunning, Deliver, TrackCold,
     provVars, Return, Goto
<1>5. CASE Group(t) \/ PollSsm(t) \/ PollEc2(t) \/ PollRaises(t) \/ CancelStep(t)
  BY <1>5 DEF Group, PollSsm, PollEc2, PollRaises, CancelStep, ScaleInCancels, Collect, CancelCall, CancelUpdate, ToCleanup,
     WriteBack, Heard, provVars, Return, Goto
<1>6. CASE Scan(t) \/ PoolSnapshot(t) \/ Unlist(t) \/ TerminateDoomed(t)
  BY <1>6 DEF Scan, AfterPool, PoolSnapshot, Unlist, TerminateDoomed, provVars, Goto
<1>7. CASE TransitionSkipped(t) \/ TransitionToPool(t) \/ TransitionEvicting(t)
  <2>1. PICK i, rids, pool, dirty : TransitionRound(t, i, rids, pool, dirty)
    BY <1>7 DEF TransitionSkipped, TransitionToPool, TransitionEvicting
  <2>2. UNCHANGED provider_store
    BY <1>7 DEF TransitionSkipped, TransitionToPool, TransitionEvicting, MarkWarm, provVars
  <2> QED
    BY <2>1, <2>2 DEF TransitionRound, AfterPool, Goto
<1>8. CASE SavePassMode(t) \/ ShutdownStep(t)
  BY <1>8 DEF SavePassMode, ShutdownStep, Infrastructure, Deinitialize, Clear, Erase, provVars, Return, Goto
<1>9. CASE Call(t)
  BY <1>9 DEF Call, Submit, StatusBegin, Cancel, ScaleIn, Shutdown, Collect, Begin, provVars, Goto
<1> QED
  BY <1>2, <1>3, <1>4, <1>5, <1>6, <1>7, <1>8, <1>9 DEF Continue, SubmitStep, StatusStep, CleanupStep

\* Hence Saving is kept.
LEMMA SavingStep ==
  ASSUME TypeOK, TypeOK', Base, Saving, [Next]_vars
  PROVE  Saving'
<1>1. ASSUME NEW t \in Threads, Call(t) \/ Continue(t)
      PROVE  Saving'
  BY <1>1, CallSaves, StepsAlone DEF Others, Saving
<1>2. CASE Restart
  BY <1>2 DEF Restart, Saving, SavingSteps
<1>3. CASE Tick \/ Environment \/ UNCHANGED vars
  BY <1>3 DEF Tick, Environment, vars, callVars, Saving
<1> QED
  BY <1>1, <1>2, <1>3 DEF Next, Rest

\* When the last steps of shutdown() delete the two documents, no instance they
\* describe is running: nobody will need them to find it.
THEOREM ShutdownEndsAll ==
  ASSUME Reliable
  PROVE  Spec => ShutdownLeavesNothing
<1> DEFINE Left ==
      (\/ provider_store.present /\ ~provider_store'.present
       \/ mode_store.present /\ ~mode_store'.present)
       => \A i \in Running : /\ provider_store.resources[i].status = Absent
                            /\ mode_store.resources[i].status = Absent
           ProviderStays == UNCHANGED provider_store \/ provider_store'.present
<1>1. CallsAccounted /\ Saving /\ [Next]_vars => [Left]_vars
  <2> SUFFICES ASSUME CallsAccounted, Saving, [Next]_vars PROVE Left
    OBVIOUS
  <2>1. CASE \E t \in Threads : Clear(t) \/ Erase(t)
    BY <2>1 DEF Clear, Erase, CallsAccounted, Accounted, ShutdownOver, Running
  <2>2. ASSUME NEW t \in Threads, Continue(t) \/ Call(t), ~Clear(t), ~Erase(t)
        PROVE  DocumentStays /\ ProviderStays
    <3>1. DocumentStays
      BY <2>2, SubmitKeepsDocument, TurnedKeepsDocument DEF Continue, Call, Turned, Submit, modeVars, DocumentStays
    <3>2. ProviderStays
      BY <2>2, CallSaves DEF CallsAccounted
    <3> QED
      BY <3>1, <3>2
  <2>3. CASE Tick \/ Environment \/ Restart \/ UNCHANGED vars
    <3>1. DocumentStays
      BY <2>3 DEF Tick, Environment, FinishCommand, ShutDownAfter, Reclaim, ForgetInstance, HandleInstanceInterruption,
         Restart, LoadMode, vars, modeVars, DocumentStays
    <3>2. UNCHANGED provider_store
      BY <2>3 DEF Tick, Environment, Restart, vars, provVars
    <3> QED
      BY <3>1, <3>2 DEF DocumentStays
  <2> QED
    BY <2>1, <2>2, <2>3 DEF Next, Rest, DocumentStays
<1>2. Spec => []CallsAccounted
  BY CallsKeepAccounts
<1>3. Init => Saving
  BY DEF Init, Saving, SavingSteps
<1>4. CallsAccounted /\ Saving /\ [Next]_vars => Saving'
  BY SavingStep, TypeStep DEF CallsAccounted
<1>5. Spec => [][Left]_vars
  BY <1>1, <1>2, <1>3, <1>4, PTL DEF Spec
<1> QED
  BY <1>5 DEF ShutdownLeavesNothing

-----------------------------------------------------------------------------
(* What a poll asks for, and what it is answered.                          *)

\* No answer is missing: either SSM is asked, or EC2 answers.
PollsAnswer == UsesSsmDispatch \/ "poll" \notin Faults

\* A submitted job's entry may go, but its instance never changes.
MappedSame == \A j \in Jobs : Submitted(j) /\ Mapped(j)' => Mapped(j) /\ job_map'[j].rid = job_map[j].rid

\* Entries of submitted jobs go away or stay where they are, in every step.
LEMMA MappedStays ==
  ASSUME TypeOK, TypeOK', Base, "crash" \notin Faults, [Next]_vars
  PROVE  MappedSame
<1>1. ASSUME NEW t \in Threads, Turned(t)
      PROVE  MappedSame
  <2>1. \A j \in Jobs : Mapped(j)' => job_map'[j].rid # NoInstance
    BY ModeAssumption DEF TypeOK, BooksTypeOK, Mapped, JobEntry, NoEntry
  <2> QED
    BY <1>1, <2>1, TurnedTurns DEF Dropping, MappedSame
<1>2. ASSUME NEW t \in Threads, RecordJob(t)
      PROVE  MappedSame
  <2>1. frame[t].job \in Jobs /\ ~Submitted(frame[t].job)
    BY <1>2 DEF RecordJob, TypeOK, SubmitOK, SubmitSteps, Base, JobsNew, PreRecord
  <2> QED
    BY <1>2, <2>1 DEF RecordJob, MappedSame, Mapped, TypeOK, BooksTypeOK
<1>3. CASE UNCHANGED job_map
  BY <1>3 DEF MappedSame, Mapped
<1>4. ASSUME NEW t \in Threads, SubmitStep(t) \/ (\E j \in Jobs : Submit(t, j)), ~RecordJob(t)
      PROVE  UNCHANGED job_map
  BY <1>4 DEF SubmitStep, Submit, SubmitUninitialized, TakeWarm, TakeCold, DispatchWarm, TrackWarm,
     Create, WaitRunning, Deliver, TrackCold, SaveJob, provVars
<1>5. CASE Environment \/ Tick \/ UNCHANGED vars
  BY <1>3, <1>5 DEF Environment, Tick, vars, provVars
<1>6. ~Restart
  BY DEF Restart, Fault
<1> QED
  BY <1>1, <1>2, <1>3, <1>4, <1>5, <1>6 DEF Next, Rest, Continue, Call, Turned

\* A status() under way asks for the instance of every job it does not know over,
\* and leaves none of the instances it asks for without an answer.
Answered(t) ==
  /\ pc[t] \in Asking => \A j \in frame[t].jobs :
       frame[t].known[j] = Absent /\ Mapped(j) => job_map[j].rid \in frame[t].rids
  /\ pc[t] = "poll" => \A i \in frame[t].rids : i \in frame[t].todo \/ frame[t].told[i] # Absent
  /\ pc[t] = "update" => \A i \in frame[t].rids : frame[t].told[i] # Absent

\* A call that stands still has asked enough still.
LEMMA AnsweredStays ==
  ASSUME TypeOK, Base, MappedSame, NEW u \in Threads, Answered(u), pc'[u] = pc[u], frame'[u] = frame[u]
  PROVE  Answered(u)'
<1>1. frame[u].jobs \subseteq Jobs /\ \A j \in frame[u].jobs : Submitted(j)
  BY DEF TypeOK, CallsTypeOK, Frame, Base, JobsNew
<1>2. pc'[u] \in Asking => \A j \in frame'[u].jobs :
        frame'[u].known[j] = Absent /\ Mapped(j)' => job_map'[j].rid \in frame'[u].rids
  BY <1>1 DEF Answered, MappedSame
<1> QED
  BY <1>2 DEF Answered

\* status() asks for every instance whose job job_map does not say is over.
LEMMA BeginAnswered ==
  ASSUME TypeOK, NEW t \in Threads, StatusBegin(t)
  PROVE  Answered(t)'
<1> DEFINE R == {job_map[j].rid : j \in {j \in AcceptedJobs : Mapped(j)} \ Settled}
           K == [j \in Jobs |-> IF j \in Settled THEN job_map[j].status ELSE Absent]
<1>1. /\ frame'[t] = [NoFrame EXCEPT !.method = "status", !.jobs = AcceptedJobs, !.rids = R, !.known = K]
      /\ pc'[t] = IF R = {} THEN "update" ELSE "group"
      /\ UNCHANGED job_map
  BY DEF StatusBegin, Goto, TypeOK, CallsTypeOK, provVars
<1>2. \A j \in AcceptedJobs : K[j] = Absent /\ Mapped(j) => job_map[j].rid \in R
  BY DEF Settled, TerminalStates, Absent, AcceptedJobs
<1> HIDE DEF R, K
<1>3. frame'[t].jobs = AcceptedJobs /\ frame'[t].rids = R /\ frame'[t].known = K
  BY <1>1 DEF NoFrame
<1> QED
  BY <1>1, <1>2, <1>3 DEF Answered, Mapped

\* The instances not answered from the records are left to ask.
LEMMA GroupAnswered ==
  ASSUME TypeOK, NEW t \in Threads, Answered(t), Group(t)
  PROVE  Answered(t)'
<1>1. frame[t] \in Frame /\ pc[t] = "group" /\ pc'[t] = "poll" /\ UNCHANGED job_map
  BY DEF Group, Goto, TypeOK, CallsTypeOK, provVars
<1>2. /\ frame'[t].told = LocalStatuses(frame[t].rids) /\ frame'[t].todo = MustAskAws(frame[t].rids)
      /\ frame'[t].rids = frame[t].rids /\ frame'[t].jobs = frame[t].jobs /\ frame'[t].known = frame[t].known
  BY <1>1 DEF Group, TypeOK, CallsTypeOK, Frame
<1>3. \A i \in frame[t].rids : i \in MustAskAws(frame[t].rids) \/ LocalStatuses(frame[t].rids)[i] # Absent
  BY DEF MustAskAws
<1> QED
  BY <1>1, <1>2, <1>3 DEF Answered, Mapped, Asking

\* Every instance that was left to ask has its answer.
LEMMA HeardAnswered ==
  ASSUME TypeOK, NEW t \in Threads, Answered(t), pc[t] = "poll", NEW m, Heard(t, m),
         \A i \in frame[t].todo : m[i] # Absent
  PROVE  Answered(t)'
<1>1. frame[t] \in Frame /\ pc'[t] = "update" /\ UNCHANGED job_map
  BY DEF Heard, Goto, TypeOK, CallsTypeOK, provVars
<1> DEFINE g == [i \in Instances |-> IF i \in frame[t].todo THEN m[i] ELSE frame[t].told[i]]
<1>2. frame' = [frame EXCEPT ![t] = [frame[t] EXCEPT !.told = g, !.todo = {}]]
  BY DEF Heard, TypeOK, CallsTypeOK
<1>3. frame[t].rids \subseteq Instances /\ \A i \in frame[t].rids : g[i] # Absent
  BY <1>1 DEF Answered, Frame
<1> HIDE DEF g
<1>4. frame'[t].told = g /\ frame'[t].rids = frame[t].rids /\ frame'[t].jobs = frame[t].jobs /\ frame'[t].known = frame[t].known
  BY <1>1, <1>2 DEF TypeOK, CallsTypeOK, Frame
<1> QED
  BY <1>1, <1>3, <1>4 DEF Answered, Mapped, Asking

\* SSM answers for each of them; so does EC2 unless the call fails.
LEMMA PollsAnswered ==
  ASSUME TypeOK, PollsAnswer, NEW t \in Threads, Answered(t), PollSsm(t) \/ PollEc2(t)
  PROVE  Answered(t)'
<1>1. CASE PollSsm(t)
  <2>1. PICK answer \in [frame[t].todo -> Answers] : PollCommands(frame[t].todo, answer) /\ Heard(t, answer)
    BY <1>1 DEF PollSsm
  <2>2. pc[t] = "poll" /\ \A i \in frame[t].todo : answer[i] # Absent
    BY <1>1 DEF PollSsm, Answers, Absent
  <2> QED
    BY <2>1, <2>2, HeardAnswered
<1>2. CASE PollEc2(t)
  <2>1. PICK outcome \in PollOutcomes : PollInstances(frame[t].todo, outcome)
         /\ Heard(t, InstanceStatuses(frame[t].todo, outcome))
    BY <1>2 DEF PollEc2
  <2> DEFINE m == InstanceStatuses(frame[t].todo, outcome)
  <2>2. pc[t] = "poll" /\ ~UsesSsmDispatch /\ frame[t].todo \subseteq Instances
    BY <1>2 DEF PollEc2, TypeOK, CallsTypeOK, Frame
  <2>3. outcome # "client_error"
    BY <2>1, <2>2 DEF PollInstances, PollsAnswer, Fault
  <2>4. \A i \in frame[t].todo : m[i] # Absent
    BY <2>2, <2>3 DEF InstanceStatuses, InstanceStatus, Absent
  <2> HIDE DEF m
  <2>5. Heard(t, m)
    BY <2>1 DEF m
  <2> QED
    BY <2>2, <2>4, <2>5, HeardAnswered
<1> QED
  BY <1>1, <1>2

\* No call ever waits for an answer that will not come.
LEMMA AnsweredStep ==
  ASSUME TypeOK, TypeOK', Base, "crash" \notin Faults, PollsAnswer, \A t \in Threads : Answered(t), [Next]_vars
  PROVE  \A t \in Threads : Answered(t)'
<1>1. MappedSame
  BY MappedStays
<1>2. ASSUME NEW t \in Threads, Continue(t) \/ Call(t)
      PROVE  \A u \in Threads : Answered(u)'
  <2>1. CASE StatusBegin(t) \/ Group(t) \/ PollSsm(t) \/ PollEc2(t)
    BY <1>1, <1>2, <2>1, BeginAnswered, GroupAnswered, PollsAnswered, StepsAlone, AnsweredStays DEF Others
  <2>2. CASE ~(StatusBegin(t) \/ Group(t) \/ PollSsm(t) \/ PollEc2(t))
    <3>1. Answered(t)'
      BY <1>2, <2>2, AsksNothing DEF Answered, Asking
    <3> QED
      BY <1>1, <1>2, <3>1, StepsAlone, AnsweredStays DEF Others
  <2> QED
    BY <2>1, <2>2
<1>3. CASE Environment \/ Tick \/ UNCHANGED vars
  <2>1. UNCHANGED <<pc, frame>>
    BY <1>3 DEF Environment, Tick, vars, callVars
  <2> QED
    BY <1>1, <2>1, AnsweredStays
<1>4. ~Restart
  BY DEF Restart, Fault
<1> QED
  BY <1>2, <1>3, <1>4 DEF Next, Rest

-----------------------------------------------------------------------------
(* A job once reported over is not reported pending or running again.      *)

\* Parsl's status poller is the only caller of status().
OnePoller == \A t, u \in Threads : "status" \in Calls[t] /\ "status" \in Calls[u] => t = u

\* Nothing can be heard of j any more that is not an end: its entry is gone, says
\* so, or leads to an instance the mode does not know and never will again.
Closed(j) ==
  \/ ~Mapped(j) \/ job_map[j].status \in TerminalStates
  \/ job_map[j].status = "UNKNOWN" /\ ~Tracked(job_map[j].rid)

\* What a call has in hand does not open a closed job.
CallCloses(t) ==
  /\ pc[t] = "save_job" => reported[frame[t].job] = "none"
  /\ pc[t] = "cancel_update" => \A i \in Instances :
       \/ frame[t].told[i] \in TerminalStates \cup {Absent}
       \/ frame[t].told[i] = "UNKNOWN" /\ i \in frame[t].rids /\ ~Tracked(i)
  /\ pc[t] \in Asking => \A j \in frame[t].jobs :
       /\ frame[t].known[j] # Absent => frame[t].known[j] \in TerminalStates /\ Closed(j)
       /\ frame[t].known[j] = Absent /\ Mapped(j) /\ reported[j] \in TerminalStates =>
            /\ ~Tracked(job_map[j].rid)
            /\ frame[t].told[job_map[j].rid] \in {Absent, "UNKNOWN"}
            /\ pc[t] = "poll" => job_map[j].rid \notin frame[t].todo

\* What was reported over is closed, and stays so.
ReportsClose ==
  /\ \A j \in Jobs : reported[j] \in TerminalStates => Closed(j)
  /\ \A t \in Threads : CallCloses(t)

\* An instance that is known and not tracked will not be tracked any more.
UntrackedStay == \A i \in Instances : Handled(i) /\ ~Tracked(i) => ~Tracked(i)'

\* Only new instances enter the mode's book.
LEMMA UntrackedStaysSo ==
  ASSUME TypeOK, TypeOK', Base, "crash" \notin Faults, [Next]_vars
  PROVE  UntrackedStay
<1> USE DEF UntrackedStay
<1>1. ASSUME NEW t \in Threads, Turned(t)
      PROVE  UntrackedStay
  BY <1>1, TurnedTurns DEF Fading
<1>2. ASSUME NEW t \in Threads, SubmitStep(t) \/ \E j \in Jobs : Submit(t, j)
      PROVE  UntrackedStay
  <2>1. ASSUME NEW j \in Jobs, Submit(t, j)
        PROVE  UntrackedStay
    BY <2>1 DEF Submit, modeVars, Tracked
  <2>2. CASE WaitRunning(t)
    <3>1. pc[t] = "wait" /\ frame[t].rid \in Instances /\ ~Handled(frame[t].rid)
      BY <2>2 DEF WaitRunning, TypeOK, SubmitOK, SubmitSteps, Base, InstancesNew
    <3>2. UNCHANGED mode_resources \/ \E r : mode_resources' = [mode_resources EXCEPT ![frame[t].rid] = r]
      BY <2>2 DEF WaitRunning, TrackInstance, WaitFails, modeVars
    <3> QED
      BY <3>1, <3>2 DEF TypeOK, ModeTypeOK, Tracked
  <2>3. CASE TakeWarm(t)
    BY <2>3 DEF TakeWarm, GetWarmInstance, Tracked, TypeOK, ModeTypeOK, ModeRecord
  <2>4. CASE TrackWarm(t) \/ TrackCold(t) \/ Deliver(t)
    <3>1. \/ UNCHANGED mode_resources
          \/ Tracked(frame[t].rid) /\ \E r : mode_resources' = [mode_resources EXCEPT ![frame[t].rid] = r]
          \/ mode_resources' = [mode_resources EXCEPT ![frame[t].rid] = NoModeRecord]
      BY <2>4 DEF TrackWarm, TrackCold, Deliver, TrackCommand, Abandon, modeVars
    <3> QED
      BY <3>1 DEF TypeOK, ModeTypeOK, Tracked, NoModeRecord
  <2>5. CASE TakeCold(t) \/ DispatchWarm(t) \/ Create(t) \/ RecordJob(t) \/ SaveJob(t)
    BY <2>5 DEF TakeCold, DispatchWarm, Create, RecordJob, SaveJob, RunInstance, RunInstanceFails, modeVars, Tracked
  <2>6. CASE SubmitUninitialized(t)
    BY <2>6, <1>1 DEF Turned
  <2> QED
    BY <1>2, <2>1, <2>2, <2>3, <2>4, <2>5, <2>6 DEF SubmitStep
<1>3. CASE Environment
  BY <1>3, FadingEnvironment DEF Fading, TypeOK, Base
<1>4. CASE Tick \/ UNCHANGED vars
  BY <1>4 DEF Tick, vars, modeVars, Tracked
<1>5. ~Restart
  BY DEF Restart, Fault
<1> QED
  BY <1>1, <1>2, <1>3, <1>4, <1>5 DEF Next, Rest, Continue, Call, Turned

\* Entries are overwritten only by what status() or cancel() has heard.
LEMMA EntriesStay ==
  ASSUME TypeOK, TypeOK', Base, "crash" \notin Faults, [Next]_vars,
         \A t \in Threads : ~StatusUpdate(t) /\ ~CancelUpdate(t),
         NEW j \in Jobs, Submitted(j)
  PROVE  job_map'[j] \in {job_map[j], NoEntry}
<1>1. CASE UNCHANGED job_map
  BY <1>1
<1>2. ASSUME NEW t \in Threads, RecordJob(t)
      PROVE  job_map'[j] \in {job_map[j], NoEntry}
  <2>1. frame[t].job # j
    BY <1>2 DEF RecordJob, Base, JobsNew, PreRecord, SubmitSteps
  <2> QED
    BY <1>2, <2>1 DEF RecordJob, TypeOK, BooksTypeOK
<1>3. ASSUME NEW t \in Threads, Forget(t) \/ Clear(t)
      PROVE  job_map'[j] \in {job_map[j], NoEntry}
  BY <1>3 DEF Forget, Clear
<1>4. ASSUME NEW t \in Threads, Continue(t) \/ Call(t), ~(RecordJob(t) \/ Forget(t) \/ Clear(t))
      PROVE  UNCHANGED job_map
  <2>1. CASE SubmitStep(t) \/ \E k \in Jobs : Submit(t, k)
    BY <1>4, <2>1 DEF SubmitStep, Submit, SubmitUninitialized, TakeWarm, TakeCold, DispatchWarm, TrackWarm,
       Create, WaitRunning, Deliver, TrackCold, SaveJob, provVars
  <2>2. CASE StatusStep(t) \/ StatusBegin(t)
    BY <2>2 DEF StatusStep, StatusBegin, Group, PollSsm, PollEc2, PollRaises, SaveStatus, Heard, provVars
  <2>3. CASE CancelStep(t) \/ ScaleIn(t) \/ Shutdown(t) \/ \E J \in SUBSET Jobs : Cancel(t, J)
    BY <2>3 DEF CancelStep, ScaleInCancels, CancelCall, ScaleIn, Shutdown, Cancel, provVars
  <2>4. CASE CleanupStep(t) \/ ShutdownStep(t)
    BY <1>4, <2>4 DEF CleanupStep, Scan, PoolSnapshot, TransitionSkipped, TransitionToPool, MarkWarm,
       TransitionEvicting, Unlist, TerminateDoomed, SavePass, SavePassMode, Finish, SaveCancel,
       ShutdownStep, Infrastructure, Deinitialize, Erase, provVars
  <2> QED
    BY <1>4, <2>1, <2>2, <2>3, <2>4 DEF Continue, Call
<1>5. CASE Environment \/ Tick \/ UNCHANGED vars
  BY <1>1, <1>5 DEF Environment, Tick, vars, provVars
<1>6. ~Restart
  BY DEF Restart, Fault
<1> QED
  BY <1>1, <1>2, <1>3, <1>4, <1>5, <1>6 DEF Next, Rest

\* A closed job stays closed unless status() writes back what it has heard of it.
LEMMA ClosedStays ==
  ASSUME TypeOK, TypeOK', Base, "crash" \notin Faults, ReportsClose, [Next]_vars,
         NEW j \in Jobs, Submitted(j), Closed(j),
         \A t \in Threads : StatusUpdate(t) => j \notin frame[t].jobs \/ frame[t].known[j] # Absent
  PROVE  Closed(j)'
<1> USE DEF TypeOK
<1>1. job_map[j] \in JobEntry /\ (Mapped(j) => job_map[j].rid \in Instances /\ Handled(job_map[j].rid))
  BY DEF BooksTypeOK, JobEntry, NoEntry, Mapped, Handled
<1>2. UntrackedStay
  BY UntrackedStaysSo
<1>3. CASE \A t \in Threads : ~StatusUpdate(t) /\ ~CancelUpdate(t)
  <2>1. job_map'[j] \in {job_map[j], NoEntry}
    BY <1>3, EntriesStay
  <2> QED
    BY <1>1, <1>2, <2>1 DEF UntrackedStay, Closed, Mapped, NoEntry
<1>4. ASSUME NEW t \in Threads, StatusUpdate(t)
      PROVE  Closed(j)'
  BY <1>4 DEF StatusUpdate, WriteBack, modeVars, Closed, Mapped, Tracked
<1>5. ASSUME NEW t \in Threads, CancelUpdate(t)
      PROVE  Closed(j)'
  <2>1. UNCHANGED mode_resources /\ pc[t] = "cancel_update"
    BY <1>5 DEF CancelUpdate, modeVars
  <2>2. CASE job_map'[j] = job_map[j]
    BY <2>1, <2>2 DEF Closed, Mapped, Tracked
  <2>3. CASE job_map'[j] # job_map[j]
    <3>1. /\ Mapped(j) /\ frame[t].told[job_map[j].rid] # Absent
          /\ job_map'[j] = [job_map[j] EXCEPT !.status = frame[t].told[job_map[j].rid]]
      BY <1>5, <2>3 DEF CancelUpdate, WriteBack
    <3>2. job_map'[j].rid = job_map[j].rid /\ job_map'[j].status = frame[t].told[job_map[j].rid]
      BY <1>1, <3>1 DEF JobEntry, NoEntry
    <3> QED
      BY <1>1, <2>1, <3>1, <3>2 DEF ReportsClose, CallCloses, Closed, Tracked
  <2> QED
    BY <2>2, <2>3
<1> QED
  BY <1>3, <1>4, <1>5

\* Owners hear of their jobs from submit() and status() only.
LEMMA ReportedSame ==
  ASSUME NEW t \in Threads, Continue(t) \/ Call(t), ~(SaveJob(t) \/ StatusUpdate(t) \/ PollRaises(t))
  PROVE  UNCHANGED reported
<1>1. CASE SubmitStep(t) \/ \E k \in Jobs : Submit(t, k)
  BY <1>1 DEF SubmitStep, Submit, SubmitUninitialized, TakeWarm, TakeCold, DispatchWarm, TrackWarm,
     Create, WaitRunning, Deliver, TrackCold, RecordJob
<1>2. CASE StatusStep(t) \/ StatusBegin(t)
  BY <1>2 DEF StatusStep, StatusBegin, Group, PollSsm, PollEc2, SaveStatus, Heard
<1>3. CASE CancelStep(t) \/ ScaleIn(t) \/ Shutdown(t) \/ \E J \in SUBSET Jobs : Cancel(t, J)
  BY <1>3 DEF CancelStep, ScaleInCancels, CancelCall, CancelUpdate, ScaleIn, Shutdown, Cancel
<1>4. CASE CleanupStep(t) \/ ShutdownStep(t)
  BY <1>4 DEF CleanupStep, Scan, PoolSnapshot, TransitionSkipped, TransitionToPool,
     TransitionEvicting, Unlist, TerminateDoomed, Forget, SavePass, SavePassMode, Finish, SaveCancel,
     ShutdownStep, Infrastructure, Deinitialize, Clear, Erase
<1> QED
  BY <1>1, <1>2, <1>3, <1>4 DEF Continue, Call

\* A verdict on a job reported over is not that it is pending or running; a verdict
\* that it is over closes it.
LEMMA VerdictCloses ==
  ASSUME TypeOK, Base, NEW t \in Threads, Answered(t), CallCloses(t), StatusUpdate(t), NEW j \in frame[t].jobs
  PROVE  /\ reported[j] \in TerminalStates => Verdict(t, j) \notin {"PENDING", "RUNNING"}
         /\ Verdict(t, j) \in TerminalStates /\ frame[t].known[j] = Absent => Closed(j)'
<1>1. j \in Jobs /\ pc[t] \in Asking /\ pc[t] = "update"
  BY DEF StatusUpdate, Asking, TypeOK, CallsTypeOK, Frame
<1>2. CASE frame[t].known[j] # Absent
  <2>1. Verdict(t, j) = frame[t].known[j]
    BY <1>2 DEF Verdict
  <2> QED
    BY <1>1, <1>2, <2>1 DEF CallCloses, TerminalStates
<1>3. CASE frame[t].known[j] = Absent /\ ~Mapped(j)
  BY <1>3 DEF Verdict, TerminalStates
<1>4. CASE frame[t].known[j] = Absent /\ Mapped(j)
  <2>1. job_map[j] \in JobEntry /\ job_map[j].rid \in frame[t].rids
    BY <1>1, <1>4 DEF Answered, TypeOK, BooksTypeOK
  <2>2. frame[t].told[job_map[j].rid] # Absent
    BY <1>1, <2>1 DEF Answered
  <2>3. Verdict(t, j) = frame[t].told[job_map[j].rid]
    BY <1>4, <2>2 DEF Verdict
  <2>4. job_map'[j] = [job_map[j] EXCEPT !.status = frame[t].told[job_map[j].rid]]
    BY <1>1, <1>4, <2>2 DEF StatusUpdate, WriteBack
  <2>5. job_map'[j].status = Verdict(t, j)
    BY <2>1, <2>3, <2>4 DEF JobEntry, NoEntry
  <2>6. reported[j] \in TerminalStates => Verdict(t, j) = "UNKNOWN"
    BY <1>1, <1>4, <2>2, <2>3 DEF CallCloses
  <2> QED
    BY <2>5, <2>6 DEF Closed
<1> QED
  BY <1>2, <1>3, <1>4

\* What is reported over is closed.
LEMMA ReportedCloses ==
  ASSUME TypeOK, TypeOK', Base, "crash" \notin Faults, ReportsClose, \A t \in Threads : Answered(t), [Next]_vars
  PROVE  \A j \in Jobs : /\ reported[j] \in TerminalStates => reported'[j] \notin {"PENDING", "RUNNING"}
                         /\ reported'[j] \in TerminalStates => Closed(j)'
<1> SUFFICES ASSUME NEW j \in Jobs
             PROVE  /\ reported[j] \in TerminalStates => reported'[j] \notin {"PENDING", "RUNNING"}
                    /\ reported'[j] \in TerminalStates => Closed(j)'
  OBVIOUS
<1>1. reported[j] \in TerminalStates => Submitted(j)
  BY DEF Submitted, TerminalStates
<1>2. ASSUME NEW t \in Threads, StatusUpdate(t)
      PROVE  /\ reported[j] \in TerminalStates => reported'[j] \notin {"PENDING", "RUNNING"}
             /\ reported'[j] \in TerminalStates => Closed(j)'
  <2>1. CASE j \in frame[t].jobs
    <3>1. reported'[j] = Verdict(t, j)
      BY <1>2, <2>1 DEF StatusUpdate
    <3>2. CASE frame[t].known[j] = Absent
      BY <1>2, <2>1, <3>1, <3>2, VerdictCloses DEF ReportsClose
    <3>3. CASE frame[t].known[j] # Absent
      <4>1. Closed(j)
        BY <1>2, <2>1, <3>3 DEF StatusUpdate, ReportsClose, CallCloses, Asking
      <4>2. Closed(j)'
        BY <1>2, <3>3, <4>1 DEF StatusUpdate, WriteBack, modeVars, Closed, Mapped, Tracked
      <4> QED
        BY <1>2, <2>1, <3>1, <4>2, VerdictCloses DEF ReportsClose
    <3> QED
      BY <3>2, <3>3
  <2>2. CASE j \notin frame[t].jobs
    <3>1. reported'[j] = reported[j]
      BY <1>2, <2>2 DEF StatusUpdate
    <3>2. Closed(j) => Closed(j)'
      BY <1>2, <2>2 DEF StatusUpdate, WriteBack, modeVars, Closed, Mapped, Tracked
    <3> QED
      BY <3>1, <3>2 DEF ReportsClose, TerminalStates
  <2> QED
    BY <2>1, <2>2
<1>3. CASE \A t \in Threads : ~StatusUpdate(t)
  <2>1. reported'[j] = reported[j] \/ reported'[j] = "UNKNOWN" \/ (reported'[j] = "PENDING" /\ reported[j] = "none")
         \/ (reported'[j] \in TerminalStates /\ Closed(j) /\ Submitted(j))
    <3>1. ASSUME NEW t \in Threads, SaveJob(t)
          PROVE  reported'[j] = reported[j] \/ (reported'[j] = "PENDING" /\ reported[j] = "none")
      BY <3>1 DEF SaveJob, ReportsClose, CallCloses, TypeOK
    <3>2. ASSUME NEW t \in Threads, PollRaises(t)
          PROVE  reported'[j] = reported[j] \/ reported'[j] = "UNKNOWN"
                 \/ (reported'[j] \in TerminalStates /\ Closed(j) /\ Submitted(j))
      <4>1. pc[t] \in Asking
        BY <3>2 DEF PollRaises, Asking
      <4>2. j \in frame[t].jobs => Submitted(j)
        BY DEF Base, JobsNew
      <4> QED
        BY <3>2, <4>1, <4>2 DEF PollRaises, ReportsClose, CallCloses
    <3>3. CASE Environment \/ Tick \/ UNCHANGED vars
      BY <3>3 DEF Environment, Tick, vars
    <3>4. ~Restart
      BY DEF Restart, Fault
    <3> QED
      BY <1>3, <3>1, <3>2, <3>3, <3>4, ReportedSame DEF Next, Rest
  <2>2. Closed(j) /\ Submitted(j) => Closed(j)'
    BY <1>3, ClosedStays
  <2> QED
    BY <1>1, <2>1, <2>2 DEF ReportsClose, TerminalStates
<1> QED
  BY <1>2, <1>3

\* A step at which status() writes is a step of the only poller.
LEMMA PollerAlone ==
  ASSUME OnePoller, Methodical, NEW t \in Threads, NEW u \in Threads, pc[t] \in Asking, pc[u] \in Asking
  PROVE  t = u
BY DEF OnePoller, Methodical, Asking, StatusSteps

\* Reports on a job that is being asked about change only at the end of the poll.
LEMMA ReportsWait ==
  ASSUME TypeOK, TypeOK', Base, "crash" \notin Faults, OnePoller, Methodical, ReportsClose, [Next]_vars,
         NEW u \in Threads, pc[u] \in Asking, pc'[u] \in Asking, NEW j \in frame[u].jobs
  PROVE  reported'[j] = reported[j]
<1>1. j \in Jobs /\ reported[j] # "none"
  BY DEF TypeOK, CallsTypeOK, Frame, Base, JobsNew
<1>2. ASSUME NEW t \in Threads, SaveJob(t)
      PROVE  reported'[j] = reported[j]
  BY <1>1, <1>2 DEF SaveJob, ReportsClose, CallCloses, TypeOK
<1>3. ASSUME NEW t \in Threads, StatusUpdate(t) \/ PollRaises(t)
      PROVE  reported'[j] = reported[j]
  <2>1. pc[t] \in Asking /\ pc'[t] \notin Asking
    BY <1>3, AsksNothing DEF StatusUpdate, PollRaises, Asking, Continue, StatusStep, Group, PollSsm, PollEc2, StatusBegin, Begin, Goto, ToCleanup, Return, TypeOK, CallsTypeOK
  <2> QED
    BY <2>1, PollerAlone
<1>4. CASE Environment \/ Tick \/ UNCHANGED vars
  BY <1>4 DEF Environment, Tick, vars
<1>5. ~Restart
  BY DEF Restart, Fault
<1> QED
  BY <1>2, <1>3, <1>4, <1>5, ReportedSame DEF Next, Rest

\* A call that stands still opens nothing.
LEMMA CallClosesStays ==
  ASSUME TypeOK, TypeOK', Base, "crash" \notin Faults, OnePoller, Methodical, ReportsClose, [Next]_vars,
         NEW u \in Threads, pc'[u] = pc[u], frame'[u] = frame[u]
  PROVE  CallCloses(u)'
<1> USE DEF TypeOK
<1>1. UntrackedStay /\ MappedSame
  BY UntrackedStaysSo, MappedStays
<1>2. CallCloses(u)
  BY DEF ReportsClose
<1>3. pc[u] = "save_job" => reported'[frame[u].job] = "none"
  <2> SUFFICES ASSUME pc[u] = "save_job" PROVE reported'[frame[u].job] = "none"
    OBVIOUS
  <2> DEFINE j == frame[u].job
  <2>1. j \in Jobs /\ reported[j] = "none"
    BY <1>2 DEF CallCloses, SubmitOK, SubmitSteps
  <2>2. ASSUME NEW t \in Threads, SaveJob(t)
        PROVE  reported'[j] = "none"
    <3>1. t # u
      BY <2>2 DEF SaveJob, Return, Goto, CallsTypeOK
    <3>2. frame[t].job # j
      BY <2>1, <3>1, ModeAssumption DEF Base, JobsNew
    <3> QED
      BY <2>1, <2>2, <3>2 DEF SaveJob
  <2>3. ASSUME NEW t \in Threads, StatusUpdate(t) \/ PollRaises(t)
        PROVE  reported'[j] = "none"
    <3>1. j \notin frame[t].jobs
      BY <2>1, <2>3 DEF StatusUpdate, PollRaises, Asking, Base, JobsNew
    <3> QED
      BY <2>1, <2>3, <3>1 DEF StatusUpdate, PollRaises
  <2>4. CASE Environment \/ Tick \/ UNCHANGED vars
    BY <2>1, <2>4 DEF Environment, Tick, vars
  <2>5. ~Restart
    BY DEF Restart, Fault
  <2> QED
    BY <2>1, <2>2, <2>3, <2>4, <2>5, ReportedSame DEF Next, Rest
<1>4. \A i \in frame[u].rids : i \in Instances /\ Handled(i)
  BY DEF CallsTypeOK, Frame, Handled
<1>5. ASSUME pc[u] \in Asking, NEW j \in frame[u].jobs
      PROVE  /\ frame[u].known[j] # Absent => frame[u].known[j] \in TerminalStates /\ Closed(j)'
             /\ frame[u].known[j] = Absent /\ Mapped(j)' /\ reported'[j] \in TerminalStates =>
                  /\ mode_resources'[job_map'[j].rid].status = Absent
                  /\ frame[u].told[job_map'[j].rid] \in {Absent, "UNKNOWN"}
                  /\ pc[u] = "poll" => job_map'[j].rid \notin frame[u].todo
  <2>1. j \in Jobs /\ Submitted(j)
    BY <1>5 DEF CallsTypeOK, Frame, Base, JobsNew
  <2>2. \A t \in Threads : ~StatusUpdate(t)
    <3>1. ASSUME NEW t \in Threads, StatusUpdate(t)
          PROVE  FALSE
      <4>1. t = u
        BY <1>5, <3>1, PollerAlone DEF StatusUpdate, Asking
      <4> QED
        BY <3>1, <4>1 DEF StatusUpdate, Goto, CallsTypeOK
    <3> QED
      BY <3>1
  <2>3. Closed(j) => Closed(j)'
    BY <2>1, <2>2, ClosedStays
  <2>4. reported'[j] = reported[j]
    BY <1>5, ReportsWait
  <2>5. Mapped(j)' => Mapped(j) /\ job_map'[j].rid = job_map[j].rid /\ job_map[j].rid \in Instances /\ Handled(job_map[j].rid)
    BY <1>1, <2>1 DEF MappedSame, BooksTypeOK, JobEntry, NoEntry, Mapped, Handled
  <2>6. Mapped(j)' /\ ~Tracked(job_map[j].rid) => mode_resources'[job_map'[j].rid].status = Absent
    BY <1>1, <2>5 DEF UntrackedStay, Tracked
  <2> QED
    BY <1>2, <1>5, <2>3, <2>4, <2>5, <2>6 DEF CallCloses
<1>6. pc[u] = "cancel_update" => \A i \in Instances :
        \/ frame[u].told[i] \in TerminalStates \cup {Absent}
        \/ frame[u].told[i] = "UNKNOWN" /\ i \in frame[u].rids /\ ~Tracked(i)'
  BY <1>1, <1>2, <1>4 DEF CallCloses, UntrackedStay
<1> QED
  BY <1>3, <1>5, <1>6 DEF CallCloses, Tracked

\* A job that is being saved has not been reported yet.
LEMMA RecordCloses ==
  ASSUME TypeOK, Base, NEW t \in Threads, RecordJob(t)
  PROVE  CallCloses(t)'
<1> USE DEF TypeOK
<1>1. frame[t] \in Frame /\ pc[t] = "record" /\ pc'[t] = "save_job" /\ UNCHANGED reported
  BY DEF RecordJob, Goto, CallsTypeOK
<1>2. frame'[t].job = frame[t].job
  BY <1>1 DEF RecordJob, CallsTypeOK, Frame
<1>3. reported[frame[t].job] = "none"
  BY <1>1 DEF Base, JobsNew, PreRecord, SubmitSteps, Submitted
<1> QED
  BY <1>1, <1>2, <1>3 DEF CallCloses, Asking

\* cancel_jobs() answers that an instance is terminated, or does not know it.
LEMMA CancelCloses ==
  ASSUME TypeOK, UntrackedStay, NEW t \in Threads, CancelCall(t)
  PROVE  CallCloses(t)'
<1> USE DEF TypeOK
<1>1. frame[t] \in Frame /\ pc'[t] = "cancel_update"
  BY DEF CancelCall, Goto, CallsTypeOK
<1>2. PICK outcome \in CancelOutcomes : frame' = [frame EXCEPT ![t].told = CancelStatuses(frame[t].rids, outcome)]
  BY DEF CancelCall
<1>3. frame'[t].told = CancelStatuses(frame[t].rids, outcome) /\ frame'[t].rids = frame[t].rids
  BY <1>1, <1>2 DEF CallsTypeOK, Frame
<1>4. \A i \in frame[t].rids : Handled(i)
  BY DEF Handled
<1>5. ASSUME NEW i \in Instances
      PROVE  \/ frame'[t].told[i] \in TerminalStates \cup {Absent}
             \/ frame'[t].told[i] = "UNKNOWN" /\ i \in frame'[t].rids /\ mode_resources'[i].status = Absent
  BY <1>3, <1>4 DEF CancelStatuses, CancelOutcomes, TerminalStates, UntrackedStay, Tracked
<1> QED
  BY <1>1, <1>5 DEF CallCloses, Asking, Tracked

\* status() takes from job_map only what is over.
LEMMA BeginCloses ==
  ASSUME TypeOK, ReportsClose, NEW t \in Threads, StatusBegin(t)
  PROVE  CallCloses(t)'
<1> USE DEF TypeOK
<1> DEFINE R == {job_map[j].rid : j \in {j \in AcceptedJobs : Mapped(j)} \ Settled}
           K == [j \in Jobs |-> IF j \in Settled THEN job_map[j].status ELSE Absent]
<1>1. /\ frame'[t] = [NoFrame EXCEPT !.method = "status", !.jobs = AcceptedJobs, !.rids = R, !.known = K]
      /\ pc'[t] \in {"update", "group"}
      /\ UNCHANGED <<job_map, reported, mode_resources>>
  BY DEF StatusBegin, Goto, CallsTypeOK, provVars, modeVars
<1>2. \A j \in AcceptedJobs : /\ K[j] # Absent => K[j] \in TerminalStates /\ job_map[j].status \in TerminalStates
                              /\ K[j] = Absent => job_map[j].status \notin TerminalStates
  BY DEF Settled, TerminalStates, Absent, AcceptedJobs
<1> HIDE DEF R, K
<1>3. frame'[t].jobs = AcceptedJobs /\ frame'[t].known = K /\ frame'[t].told = NoStatuses
  BY <1>1 DEF NoFrame
<1>4. AcceptedJobs \subseteq Jobs
  BY DEF AcceptedJobs
<1>5. ASSUME NEW j \in AcceptedJobs, Mapped(j)
      PROVE  job_map[j].rid \in Instances
  BY <1>4, <1>5 DEF BooksTypeOK, JobEntry, NoEntry, Mapped
<1>6. \A j \in AcceptedJobs : K[j] = Absent /\ Mapped(j) /\ reported[j] \in TerminalStates =>
        ~Tracked(job_map[j].rid) /\ NoStatuses[job_map[j].rid] = Absent
  BY <1>2, <1>4, <1>5 DEF ReportsClose, Closed, NoStatuses
<1>7. \A j \in AcceptedJobs : Closed(j)' <=> Closed(j)
  BY <1>1 DEF Closed, Mapped, Tracked
<1> QED
  BY <1>1, <1>2, <1>3, <1>6, <1>7 DEF CallCloses, Closed, Mapped, Tracked

\* The mode answers for an instance it does not know without asking AWS.
LEMMA GroupCloses ==
  ASSUME TypeOK, ReportsClose, NEW t \in Threads, Group(t)
  PROVE  CallCloses(t)'
<1> USE DEF TypeOK
<1>1. /\ frame[t] \in Frame /\ pc[t] = "group" /\ pc'[t] = "poll"
      /\ UNCHANGED <<job_map, reported, mode_resources>>
  BY DEF Group, Goto, CallsTypeOK, provVars, modeVars
<1>2. /\ frame'[t].told = LocalStatuses(frame[t].rids) /\ frame'[t].todo = MustAskAws(frame[t].rids)
      /\ frame'[t].jobs = frame[t].jobs /\ frame'[t].known = frame[t].known
  BY <1>1 DEF Group, CallsTypeOK, Frame
<1>3. ASSUME NEW i \in Instances, ~Tracked(i)
      PROVE  /\ LocalStatuses(frame[t].rids)[i] \in {Absent, "UNKNOWN"}
             /\ i \notin MustAskAws(frame[t].rids)
  BY <1>3 DEF LocalStatuses, MustAskAws, Tracked, Absent
<1>4. ASSUME NEW j \in frame[t].jobs, Mapped(j)
      PROVE  job_map[j].rid \in Instances
  BY <1>1, <1>4 DEF BooksTypeOK, JobEntry, NoEntry, Mapped, Frame
<1>5. CallCloses(t)
  BY DEF ReportsClose
<1>6. \A j : Closed(j)' <=> Closed(j)
  BY <1>1 DEF Closed, Mapped, Tracked
<1> QED
  BY <1>1, <1>2, <1>3, <1>4, <1>5, <1>6 DEF CallCloses, Closed, Mapped, Tracked, Asking

\* AWS is heard of the instances it was asked about.
LEMMA HeardCloses ==
  ASSUME TypeOK, ReportsClose, UntrackedStay, NEW t \in Threads, pc[t] = "poll", NEW m, Heard(t, m)
  PROVE  CallCloses(t)'
<1> USE DEF TypeOK
<1>1. frame[t] \in Frame /\ pc'[t] = "update" /\ UNCHANGED <<job_map, reported>>
  BY DEF Heard, Goto, CallsTypeOK, provVars
<1> DEFINE g == [i \in Instances |-> IF i \in frame[t].todo THEN m[i] ELSE frame[t].told[i]]
<1>2. frame' = [frame EXCEPT ![t] = [frame[t] EXCEPT !.told = g, !.todo = {}]]
  BY DEF Heard, CallsTypeOK
<1>3. \A i \in Instances \ frame[t].todo : g[i] = frame[t].told[i]
  OBVIOUS
<1> HIDE DEF g
<1>4. frame'[t].told = g /\ frame'[t].jobs = frame[t].jobs /\ frame'[t].known = frame[t].known
  BY <1>1, <1>2 DEF CallsTypeOK, Frame
<1>5. ASSUME NEW j \in frame[t].jobs, Mapped(j)
      PROVE  /\ job_map[j].rid \in Instances
             /\ ~Tracked(job_map[j].rid) => mode_resources'[job_map[j].rid].status = Absent
  <2>1. j \in Jobs /\ job_map[j].rid \in Instances
    BY <1>1, <1>5 DEF BooksTypeOK, JobEntry, NoEntry, Mapped, Frame
  <2> QED
    BY <2>1 DEF UntrackedStay, Handled, Tracked
<1>6. CallCloses(t)
  BY DEF ReportsClose
<1>7. \A j \in frame[t].jobs : Closed(j) => Closed(j)'
  BY <1>1, <1>5 DEF Closed, Mapped, Tracked
<1> QED
  BY <1>1, <1>3, <1>4, <1>5, <1>6, <1>7 DEF CallCloses, Mapped, Tracked, Asking

\* A call's own step opens nothing.
LEMMA CallClosesMoves ==
  ASSUME TypeOK, TypeOK', Base, "crash" \notin Faults, ReportsClose, [Next]_vars,
         NEW t \in Threads, Continue(t) \/ Call(t)
  PROVE  CallCloses(t)'
<1>1. UntrackedStay
  BY UntrackedStaysSo
<1>2. CASE StatusBegin(t) \/ Group(t)
  BY <1>2, BeginCloses, GroupCloses
<1>3. CASE PollSsm(t) \/ PollEc2(t)
  <2>1. pc[t] = "poll" /\ \E m : Heard(t, m)
    BY <1>3 DEF PollSsm, PollEc2
  <2> QED
    BY <1>1, <2>1, HeardCloses
<1>4. CASE RecordJob(t) \/ CancelCall(t)
  BY <1>1, <1>4, RecordCloses, CancelCloses
<1>5. CASE ~(StatusBegin(t) \/ Group(t) \/ PollSsm(t) \/ PollEc2(t) \/ RecordJob(t) \/ CancelCall(t))
  BY <1>5, AsksNothing DEF CallCloses
<1> QED
  BY <1>2, <1>3, <1>4, <1>5

\* What was reported over stays closed.
LEMMA ReportsCloseStep ==
  ASSUME TypeOK, TypeOK', Base, "crash" \notin Faults, OnePoller, Methodical,
         \A t \in Threads : Answered(t), ReportsClose, [Next]_vars
  PROVE  ReportsClose'
<1>1. \A j \in Jobs : reported'[j] \in TerminalStates => Closed(j)'
  BY ReportedCloses
<1>2. ASSUME NEW t \in Threads, Continue(t) \/ Call(t)
      PROVE  \A u \in Threads : CallCloses(u)'
  BY <1>2, StepsAlone, CallClosesMoves, CallClosesStays DEF Others
<1>3. CASE Environment \/ Tick \/ UNCHANGED vars
  <2>1. UNCHANGED <<pc, frame>>
    BY <1>3 DEF Environment, Tick, vars, callVars
  <2> QED
    BY <1>1, <2>1, CallClosesStays DEF ReportsClose
<1>4. ~Restart
  BY DEF Restart, Fault
<1>5. \A t \in Threads : CallCloses(t)'
  BY <1>2, <1>3, <1>4, CallClosesStays DEF Next, Rest, Environment, Tick, vars, callVars
<1> QED
  BY <1>1, <1>5 DEF ReportsClose

\* No call is under way and nothing is reported when the program starts.
LEMMA InitReportsClose ==
  ASSUME Init
  PROVE  ReportsClose /\ \A t \in Threads : Answered(t)
<1>1. \A t \in Threads : pc[t] = "idle"
  BY DEF Init
<1>2. \A j \in Jobs : reported[j] = "none"
  BY DEF Init
<1> QED
  BY <1>1, <1>2 DEF ReportsClose, CallCloses, Answered, Asking, TerminalStates

\* Owners are not told two things that contradict each other: with one poller, and
\* as long as every poll is answered, no interleaving of status() with submits,
\* cancels, cleanups, recycling of the instance or shutdown makes a job that was
\* reported over pending or running again.
THEOREM EndedStaysEnded ==
  ASSUME OnePoller, PollsAnswer, "crash" \notin Faults
  PROVE  Spec => NoResurrection
<1> DEFINE AllAnswered == \A t \in Threads : Answered(t)
           Kept == TypeOK /\ Base /\ Methodical /\ AllAnswered /\ ReportsClose
           Left == \A j \in Jobs : reported[j] \in TerminalStates => reported'[j] \notin {"PENDING", "RUNNING"}
<1>1. Init => Kept
  BY InitType, InitBase, InitMethod, InitReportsClose
<1>2. Kept /\ [Next]_vars => Kept'
  <2> SUFFICES ASSUME Kept, [Next]_vars PROVE Kept'
    OBVIOUS
  <2>1. TypeOK'
    BY TypeStep
  <2>2. Base' /\ Methodical'
    BY <2>1, BaseStep, MethodStep
  <2>3. AllAnswered'
    BY <2>1, AnsweredStep
  <2>4. ReportsClose'
    BY <2>1, ReportsCloseStep
  <2> QED
    BY <2>1, <2>2, <2>3, <2>4
<1>3. Kept /\ Kept' /\ [Next]_vars => [Left]_vars
  BY ReportedCloses
<1> HIDE DEF Kept, Left
<1>4. Spec => [][Left]_vars
  BY <1>1, <1>2, <1>3, PTL DEF Spec
<1> QED
  BY <1>4 DEF NoResurrection, Left

-----------------------------------------------------------------------------
(* What the statuses say of an instance that is never reused.              *)

\* A command sent to i is over, or has succeeded; a job on i was cancelled, or
\* is known to its owner.
Over(i) == \E j \in Jobs : host[j] = i /\ command[j] \in {"success", "failed", "killed"}
Succeeded(i) == \E j \in Jobs : host[j] = i /\ command[j] = "success"
CancelledOn(i) == \E j \in cancelled : host[j] = i
SubmittedOn(i) == \E j \in Jobs : host[j] = i /\ Submitted(j)

\* What status s of i promises.
Fits(i, s) ==
  /\ s = "COMPLETED" => IF UsesSsmDispatch THEN Succeeded(i) ELSE Over(i)
  /\ s = "FAILED" => Over(i)
  /\ s = "CANCELED" => CancelledOn(i)
  /\ s = "INTERRUPTED" => i \in warned

\* The same promise, kept after the step.
Will(i, s) ==
  /\ s = "COMPLETED" => IF UsesSsmDispatch THEN Succeeded(i)' ELSE Over(i)'
  /\ s = "FAILED" => Over(i)'
  /\ s = "CANCELED" => CancelledOn(i)'
  /\ s = "INTERRUPTED" => i \in warned'

\* Nobody's work is lost with i.
Spent(i) == Over(i) \/ CancelledOn(i) \/ i \in warned

\* The statuses in the books, ...
BooksTrue ==
  /\ \A i \in Instances : Fits(i, resources[i].status)
  /\ \A j \in Jobs : Mapped(j) => Fits(job_map[j].rid, job_map[j].status)
  /\ \A i \in Instances : Fits(i, mode_resources[i].status)

\* ... the command a record names, ...
Commanded ==
  UsesSsmDispatch => \A i \in Instances : Tracked(i) =>
    \/ mode_resources[i].cmd \in Jobs /\ host[mode_resources[i].cmd] = i
    \/ \E t \in Threads : pc[t] \in {"deliver", "track_cold"} /\ frame[t].rid = i

\* ... and what a call has heard or is about to do are true.
CallTrue(t) ==
  /\ pc[t] \notin {"pool", "transition", "unlist"}
  /\ \A i \in Instances : Fits(i, frame[t].told[i])
  /\ \A i \in frame[t].rids : SubmittedOn(i)
  /\ \A i \in frame[t].todo : SubmittedOn(i)
  /\ pc[t] = "cancel_call" => \A i \in frame[t].rids : CancelledOn(i)
  /\ pc[t] = "terminate" => \A i \in frame[t].rids : Spent(i)
  /\ pc[t] # "idle" /\ frame[t].method = "shutdown" => \A j \in Jobs : Mapped(j) => j \in cancelled

\* The record of a new instance stays while submit() is at work on it.
LaunchTracked ==
  \A t \in Threads : pc[t] \in {"deliver", "track_cold", "record"} => Tracked(frame[t].rid)

Truthful == BooksTrue /\ Commanded /\ LaunchTracked /\ \A t \in Threads : CallTrue(t)

\* Time only adds to what can be said of an instance.
Advancing ==
  /\ \A i \in Instances : /\ Over(i) => Over(i)'
                          /\ Succeeded(i) => Succeeded(i)'
                          /\ CancelledOn(i) => CancelledOn(i)'
                          /\ SubmittedOn(i) => SubmittedOn(i)'
  /\ \A j \in Jobs : host[j] \in Instances => host'[j] = host[j]
  /\ \A j \in Jobs : command[j] \in {"success", "failed", "killed"} => command'[j] = command[j]
  /\ \A j \in Jobs : Submitted(j) => Submitted(j)'
  /\ warned \subseteq warned' /\ cancelled \subseteq cancelled'

\* A promise once kept stays kept.
LEMMA FitsStays ==
  ASSUME Advancing, NEW i \in Instances, NEW s, Fits(i, s)
  PROVE  Will(i, s)
BY DEF Advancing, Fits, Will

\* No step takes back a warning, a cancellation or a submission.
LEMMA MarksStay ==
  ASSUME TypeOK, TypeOK', Base, "crash" \notin Faults, [Next]_vars
  PROVE  /\ warned \subseteq warned' /\ cancelled \subseteq cancelled'
         /\ \A j \in Jobs : Submitted(j) => Submitted(j)'
<1> USE DEF TypeOK
<1>1. ASSUME NEW t \in Threads, SubmitStep(t) \/ \E j \in Jobs : Submit(t, j)
      PROVE  /\ UNCHANGED <<warned, cancelled>>
             /\ \A j \in Jobs : Submitted(j) => Submitted(j)'
  <2>1. UNCHANGED <<warned, cancelled>>
    BY <1>1 DEF SubmitStep, Submit, SubmitUninitialized, TakeWarm, TakeCold, DispatchWarm, SendCommand, TrackWarm,
       TrackCommand, Create, RunInstance, RunInstanceFails, WaitRunning, TrackInstance, WaitFails, Deliver,
       TrackCold, Abandon, Terminate, RecordJob, SaveJob, awsVars
  <2>2. CASE SaveJob(t)
    <3>1. /\ \A u \in Threads : u # t => pc'[u] = pc[u] /\ frame'[u] = frame[u]
          /\ \A j \in Jobs : reported'[j] = IF j = frame[t].job THEN "PENDING" ELSE reported[j]
      BY <2>2 DEF SaveJob, Return, Goto, CallsTypeOK
    <3>2. ASSUME NEW j \in Jobs, NEW u \in Threads, pc[u] = "save_job", frame[u].job = j
          PROVE  Submitted(j)'
      <4>1. CASE u = t
        BY <3>1, <3>2, <4>1 DEF Submitted
      <4>2. CASE u # t
        BY <3>1, <3>2, <4>2 DEF Submitted
      <4> QED
        BY <4>1, <4>2
    <3>3. \A j \in Jobs : reported[j] # "none" => Submitted(j)'
      BY <3>1 DEF Submitted
    <3> QED
      BY <2>1, <3>2, <3>3 DEF Submitted
  <2>3. CASE ~SaveJob(t)
    <3>1. UNCHANGED reported /\ pc[t] # "save_job"
      BY <1>1, <2>3 DEF SubmitStep, Submit, Begin, SubmitUninitialized, TakeWarm, TakeCold, DispatchWarm, TrackWarm,
         Create, WaitRunning, Deliver, TrackCold, RecordJob
    <3>2. Others(t)
      BY <1>1, <2>3 DEF SubmitStep, Submit, SubmitUninitialized, TakeWarm, TakeCold, DispatchWarm, TrackWarm,
         Create, WaitRunning, Deliver, TrackCold, RecordJob, Return, Goto, CallsTypeOK, Others
    <3>3. ASSUME NEW j \in Jobs, NEW u \in Threads, pc[u] = "save_job", frame[u].job = j
          PROVE  Submitted(j)'
      <4>1. pc'[u] = pc[u] /\ frame'[u] = frame[u]
        BY <3>1, <3>2, <3>3 DEF Others
      <4> QED
        BY <3>3, <4>1 DEF Submitted
    <3>4. \A j \in Jobs : reported[j] # "none" => Submitted(j)'
      BY <3>1 DEF Submitted
    <3> QED
      BY <2>1, <3>3, <3>4 DEF Submitted
  <2> QED
    BY <2>1, <2>2, <2>3
<1>2. ASSUME NEW t \in Threads, Turned(t)
      PROVE  /\ UNCHANGED warned /\ cancelled \subseteq cancelled'
             /\ \A j \in Jobs : Submitted(j) => Submitted(j)'
  <2>1. \A j \in Jobs : Submitted(j)' <=> Submitted(j)
    BY <1>2, TurnedTurns, SubmittedFades
  <2>2. CASE SubmitUninitialized(t) \/ StatusStep(t) \/ StatusBegin(t)
    BY <2>1, <2>2 DEF SubmitUninitialized, StatusStep, StatusBegin, Group, PollSsm, PollCommands, PollEc2, PollInstances,
       PollRaises, PollCommandsRaises, StatusUpdate, SaveStatus, awsVars, Heard
  <2>3. CASE CancelStep(t) \/ ScaleIn(t) \/ Shutdown(t) \/ \E J \in SUBSET Jobs : Cancel(t, J)
    BY <2>1, <2>3 DEF CancelStep, ScaleInCancels, CancelCall, CancelJobs, Terminate, CancelUpdate, ScaleIn, Shutdown,
       Cancel, Collect, awsVars
  <2>4. CASE CleanupStep(t)
    BY <2>1, <2>4 DEF CleanupStep, Scan, PoolSnapshot, TransitionSkipped, TransitionToPool,
       TransitionEvicting, Unlist, TerminateDoomed, CleanupResources, Terminate, Forget, SavePass, SavePassMode, Finish,
       SaveCancel, awsVars
  <2>5. CASE ShutdownStep(t)
    BY <2>1, <2>5 DEF ShutdownStep, Infrastructure, CleanupAll, CleanupResources, Terminate, Deinitialize,
       FinishInfrastructure, Clear, Erase, awsVars
  <2> QED
    BY <1>2, <2>2, <2>3, <2>4, <2>5 DEF Turned
<1>3. CASE Environment
  BY <1>3 DEF Environment, FinishCommand, ShutDownAfter, Reclaim, Terminate, ForgetInstance,
     HandleInstanceInterruption, callVars, Submitted
<1>4. CASE Tick \/ UNCHANGED vars
  BY <1>4 DEF Tick, vars, awsVars, callVars, Submitted
<1>5. ~Restart
  BY DEF Restart, Fault
<1> QED
  BY <1>1, <1>2, <1>3, <1>4, <1>5 DEF Next, Rest, Continue, Call, Turned

\* So does everything that is said in their terms.
LEMMA Advance ==
  ASSUME TypeOK, TypeOK', Base, SentToHost, "crash" \notin Faults, [Next]_vars
  PROVE  Advancing
<1> USE DEF TypeOK
<1>1. warned \subseteq warned' /\ cancelled \subseteq cancelled' /\ \A j \in Jobs : Submitted(j) => Submitted(j)'
  BY MarksStay
<1>2. /\ \A j \in Jobs : host[j] \in Instances => host'[j] = host[j]
      /\ \A j \in Jobs : command[j] \in {"success", "failed", "killed"} => command'[j] = command[j]
  <2>1. CASE Ending
    BY <2>1 DEF Ending
  <2>2. ASSUME NEW t \in Threads, NEW i \in Instances, Sending(t, i)
        PROVE  /\ \A j \in Jobs : host[j] \in Instances => host'[j] = host[j]
               /\ \A j \in Jobs : command[j] \in {"success", "failed", "killed"} => command'[j] = command[j]
    <3>1. command[frame[t].job] = "none" /\ frame[t].job \in Jobs
      BY <2>2 DEF Sending, Base, JobsNew, Unsent, Sent, SubmitSteps, SubmitOK
    <3> QED
      BY <2>2, <3>1 DEF Sending, StartCommand, SentToHost, ModeTypeOK, AwsTypeOK
  <2> QED
    BY <2>1, <2>2, CommandStep
<1> QED
  BY <1>1, <1>2 DEF Advancing, Over, Succeeded, CancelledOn, SubmittedOn

\* Records and entries are of submitted jobs.
LEMMA BooksSubmitted ==
  ASSUME TypeOK, Base
  PROVE  /\ \A i \in Instances : Recorded(i) => SubmittedOn(i)
         /\ \A j \in Jobs : Mapped(j) => job_map[j].rid \in Instances /\ host[j] = job_map[j].rid /\ Submitted(j)
<1> USE DEF TypeOK, BooksTypeOK, Base
<1>1. \A i \in Instances : Recorded(i) => resources[i].job \in Jobs
  BY DEF Recorded, Record, NoRecord
<1>2. \A i \in Instances : Recorded(i) => SubmittedOn(i)
  BY <1>1, ModeAssumption DEF HostsKnown, JobsNew, SubmittedOn
<1>3. \A j \in Jobs : Mapped(j) => job_map[j].rid \in Instances
  BY DEF Mapped, JobEntry, NoEntry
<1> QED
  BY <1>2, <1>3 DEF HostsKnown, JobsNew

\* An instance submit() is still at work on has no submitted job.
LEMMA NewNotSubmitted ==
  ASSUME TypeOK, Base, WarmPoolSize = 0, NEW t \in Threads, pc[t] \in {"deliver", "track_cold", "record"}
  PROVE  ~SubmittedOn(frame[t].rid) /\ frame[t].rid \in Instances
<1> USE DEF TypeOK, Base
<1>1. frame[t].rid \in Instances /\ frame[t].job \in Jobs /\ ~Submitted(frame[t].job)
  BY DEF SubmitOK, SubmitSteps, JobsNew, PreRecord
<1>2. CASE pc[t] = "deliver"
  BY <1>1, <1>2 DEF HostsApart, SubmittedOn
<1>3. CASE pc[t] # "deliver"
  <2>1. host[frame[t].job] = frame[t].rid
    BY <1>3 DEF HostsKnown, Sent
  <2>2. \A j \in Jobs : host[j] = frame[t].rid => j = frame[t].job
    BY <1>1, <2>1, ModeAssumption DEF HostsApart
  <2> QED
    BY <1>1, <2>2 DEF SubmittedOn
<1> QED
  BY <1>2, <1>3

\* A call that stands still stays true.
LEMMA CallStays ==
  ASSUME TypeOK, Advancing, NEW u \in Threads, CallTrue(u), pc'[u] = pc[u], frame'[u] = frame[u],
         pc[u] # "idle" /\ frame[u].method = "shutdown" => \A j \in Jobs : Mapped(j)' => Mapped(j)
  PROVE  CallTrue(u)'
<1>1. frame[u].rids \subseteq Instances /\ frame[u].todo \subseteq Instances
  BY DEF TypeOK, CallsTypeOK, Frame
<1>2. \A i \in Instances : Will(i, frame'[u].told[i])
  BY FitsStays DEF CallTrue
<1>3. \A i \in Instances : Spent(i) => Spent(i)'
  BY DEF Spent, Advancing
<1> QED
  BY <1>1, <1>2, <1>3 DEF CallTrue, Advancing, Fits, Will

\* A call that takes a step stays true if what it has newly heard or is about to
\* do is.
LEMMA CallAfter ==
  ASSUME TypeOK, TypeOK', Dropping, Advancing, NEW t \in Threads, CallTrue(t),
         pc'[t] \notin {"pool", "transition", "unlist"},
         \A i \in Instances : \/ frame'[t].told[i] \in {Absent, "UNKNOWN", frame[t].told[i]}
                              \/ Will(i, frame'[t].told[i]),
         \A i \in Instances : i \in frame'[t].rids =>
           i \in frame[t].rids \/ SubmittedOn(i),
         \A i \in Instances : i \in frame'[t].todo =>
           i \in frame[t].rids \/ i \in frame[t].todo \/ SubmittedOn(i),
         pc'[t] = "cancel_call" => \A i \in Instances : i \in frame'[t].rids => CancelledOn(i)',
         pc'[t] = "terminate" => \A i \in Instances : i \in frame'[t].rids => Spent(i)',
         pc'[t] # "idle" /\ frame'[t].method = "shutdown" =>
           \/ pc[t] # "idle" /\ frame[t].method = "shutdown"
           \/ \A j \in Jobs : Mapped(j) => j \in cancelled'
  PROVE  CallTrue(t)'
<1>1. frame'[t].rids \subseteq Instances /\ frame'[t].todo \subseteq Instances
  BY DEF TypeOK, CallsTypeOK, Frame
<1>2. \A i \in Instances : Will(i, frame'[t].told[i])
  <2>1. \A i \in Instances : Will(i, frame[t].told[i])
    BY FitsStays DEF CallTrue
  <2>2. \A i \in Instances : Will(i, Absent) /\ Will(i, "UNKNOWN")
    BY DEF Will, Absent
  <2>3. ASSUME NEW i \in Instances PROVE Will(i, frame'[t].told[i])
    <3>1. CASE frame'[t].told[i] = Absent \/ frame'[t].told[i] = "UNKNOWN"
      BY <3>1 DEF Will, Absent
    <3>2. CASE frame'[t].told[i] = frame[t].told[i]
      BY <2>1, <3>2
    <3> QED
      BY <3>1, <3>2
  <2> QED
    BY <2>3
<1>3. \A i \in Instances : SubmittedOn(i) => SubmittedOn(i)'
  BY DEF Advancing
<1>4. \A i \in frame'[t].rids : SubmittedOn(i)'
  BY <1>1, <1>3 DEF CallTrue
<1>5. \A i \in frame'[t].todo : SubmittedOn(i)'
  BY <1>1, <1>3 DEF CallTrue
<1>6. pc'[t] # "idle" /\ frame'[t].method = "shutdown" => \A j \in Jobs : Mapped(j)' => j \in cancelled'
  BY DEF CallTrue, Dropping, Advancing
<1> QED
  BY <1>1, <1>2, <1>4, <1>5, <1>6 DEF CallTrue, Fits, Will

\* A step that launches, sends and tracks nothing keeps the truth if it writes
\* nothing false into the books.
LEMMA TurningTrue ==
  ASSUME TypeOK, TypeOK', Base, Truthful, WarmPoolSize = 0, Advancing,
         NEW t \in Threads, Fading, Dropping, Turning(t), CallTrue(t)',
         \A i \in Instances : resources'[i].status \in {Absent, "UNKNOWN", resources[i].status} \/ Will(i, resources'[i].status),
         \A j \in Jobs : Mapped(j)' =>
           \/ job_map'[j].status \in {"UNKNOWN", job_map[j].status}
           \/ Will(job_map[j].rid, job_map'[j].status),
         \A i \in Instances : mode_resources'[i].status \in {Absent, mode_resources[i].status} \/ Will(i, mode_resources'[i].status),
         \A i \in Instances : Tracked(i)' => mode_resources'[i].cmd = mode_resources[i].cmd,
         pc[t] \in {"deliver", "track_cold"} => mode_resources'[frame[t].rid].status = Absent,
         \A i \in Instances : Tracked(i) => \/ Tracked(i)' \/ SubmittedOn(i)
                                            \/ \A u \in Threads : u # t => frame[u].rid # i
  PROVE  Truthful'
<1> USE DEF Truthful
<1>1. \A u \in Threads : CallTrue(u)'
  <2>1. ASSUME NEW u \in Threads, u # t
        PROVE  CallTrue(u)'
    <3>1. pc'[u] = pc[u] /\ frame'[u] = frame[u] /\ \A j \in Jobs : Mapped(j)' => Mapped(j)
      BY <2>1 DEF Turning, Others, Dropping
    <3> QED
      BY <3>1, CallStays
  <2> QED
    BY <2>1
<1>2. BooksTrue'
  <2>1. ASSUME NEW i \in Instances PROVE Will(i, resources'[i].status)
    <3>1. CASE resources'[i].status = resources[i].status
      BY <3>1, FitsStays DEF BooksTrue
    <3>2. CASE resources'[i].status \in {Absent, "UNKNOWN"}
      BY <3>2 DEF Will, Absent
    <3> QED
      BY <3>1, <3>2
  <2>2. ASSUME NEW i \in Instances PROVE Will(i, mode_resources'[i].status)
    <3>1. CASE mode_resources'[i].status = mode_resources[i].status
      BY <3>1, FitsStays DEF BooksTrue
    <3>2. CASE mode_resources'[i].status = Absent
      BY <3>2 DEF Will, Absent
    <3> QED
      BY <3>1, <3>2
  <2>3. ASSUME NEW j \in Jobs, Mapped(j)' PROVE Fits(job_map[j].rid, job_map[j].status)'
    <3>1. Mapped(j)
      BY <2>3 DEF Dropping
    <3>2. PICK r \in Instances : r = job_map[j].rid
      BY <3>1, BooksSubmitted
    <3>3. job_map'[j].rid \in Instances
      BY <2>3 DEF TypeOK, BooksTypeOK, JobEntry, NoEntry, Mapped
    <3>4. job_map'[j].rid = r
      BY <3>2, <3>3, ModeAssumption DEF Dropping
    <3>5. Will(r, job_map'[j].status)
      <4>1. CASE job_map'[j].status = job_map[j].status
        BY <3>1, <3>2, <4>1, FitsStays DEF BooksTrue
      <4>2. CASE job_map'[j].status = "UNKNOWN"
        BY <4>2 DEF Will
      <4> QED
        BY <2>3, <3>2, <4>1, <4>2
    <3> QED
      BY <3>4, <3>5 DEF Fits, Will, Over, Succeeded, CancelledOn
  <2>4. \A i \in Instances : Fits(i, resources[i].status)'
    BY <2>1 DEF Fits, Will
  <2>5. \A i \in Instances : Fits(i, mode_resources[i].status)'
    BY <2>2 DEF Fits, Will
  <2> QED
    BY <2>3, <2>4, <2>5 DEF BooksTrue
<1>3. Commanded'
  <2> SUFFICES ASSUME UsesSsmDispatch, NEW i \in Instances, Tracked(i)'
               PROVE  \/ mode_resources'[i].cmd \in Jobs /\ host'[mode_resources'[i].cmd] = i
                      \/ \E u \in Threads : pc'[u] \in {"deliver", "track_cold"} /\ frame'[u].rid = i
    BY DEF Commanded, UsesSsmDispatch
  <2>1. Tracked(i) /\ mode_resources'[i].cmd = mode_resources[i].cmd
    BY DEF Fading
  <2>2. ASSUME NEW u \in Threads, pc[u] \in {"deliver", "track_cold"}, frame[u].rid = i
        PROVE  pc'[u] \in {"deliver", "track_cold"} /\ frame'[u].rid = i
    BY <2>2 DEF Turning, Others, Tracked
  <2> QED
    BY <2>1, <2>2 DEF Commanded, Fading
<1>4. LaunchTracked'
  <2> SUFFICES ASSUME NEW u \in Threads, pc'[u] \in {"deliver", "track_cold", "record"}
               PROVE  mode_resources'[frame'[u].rid].status # Absent
    BY DEF LaunchTracked, Tracked
  <2>1. u # t /\ pc[u] = pc'[u] /\ frame'[u] = frame[u]
    BY DEF Turning, Others, SubmitSteps
  <2>2. ~SubmittedOn(frame[u].rid) /\ frame[u].rid \in Instances /\ Tracked(frame[u].rid)
    BY <2>1, NewNotSubmitted DEF LaunchTracked
  <2> QED
    BY <2>1, <2>2 DEF Tracked
<1> QED
  BY <1>1, <1>2, <1>3, <1>4

\* A step that only moves a call.
LEMMA MovingTrue ==
  ASSUME TypeOK, TypeOK', Base, Truthful, WarmPoolSize = 0, Advancing,
         NEW t \in Threads, Fading, Dropping, Turning(t), CallTrue(t)',
         UNCHANGED <<resources, job_map, mode_resources>>, pc[t] \notin {"deliver", "track_cold"}
  PROVE  Truthful'
BY TurningTrue DEF Tracked

\* A call that starts afresh, or returns.
LEMMA CallAnew ==
  ASSUME TypeOK, TypeOK', Dropping, Advancing, NEW t \in Threads, CallTrue(t),
         pc'[t] \notin {"pool", "transition", "unlist"},
         frame'[t].told = NoStatuses, frame'[t].rids = {}, frame'[t].todo = {},
         pc'[t] # "idle" /\ frame'[t].method = "shutdown" =>
           \/ pc[t] # "idle" /\ frame[t].method = "shutdown"
           \/ \A j \in Jobs : Mapped(j) => j \in cancelled'
  PROVE  CallTrue(t)'
BY CallAfter DEF NoStatuses, Absent

\* A return leaves nothing to be true.
LEMMA ReturnTrue ==
  ASSUME TypeOK, TypeOK', Dropping, Advancing, NEW t \in Threads, CallTrue(t), Return(t)
  PROVE  CallTrue(t)'
<1>1. pc'[t] = "idle" /\ frame'[t] = NoFrame
  BY DEF Return, Goto, TypeOK, CallsTypeOK
<1> QED
  BY <1>1, CallAnew DEF NoFrame

\* A cleanup pass begins with nothing.
LEMMA ToCleanupTrue ==
  ASSUME TypeOK, TypeOK', Dropping, Advancing, NEW t \in Threads, CallTrue(t), pc[t] # "idle", ToCleanup(t)
  PROVE  CallTrue(t)'
<1>1. CASE Return(t)
  BY <1>1, ReturnTrue
<1>2. CASE Goto(t, "scan") /\ frame' = [frame EXCEPT ![t] = [NoFrame EXCEPT !.method = frame[t].method]]
  <2>1. pc'[t] = "scan" /\ frame'[t] = [NoFrame EXCEPT !.method = frame[t].method]
    BY <1>2 DEF Goto, TypeOK, CallsTypeOK
  <2>2. frame'[t].told = NoStatuses /\ frame'[t].rids = {} /\ frame'[t].todo = {} /\ frame'[t].method = frame[t].method
    BY <2>1 DEF NoFrame
  <2> QED
    BY <2>1, <2>2, CallAnew
<1> QED
  BY <1>1, <1>2 DEF ToCleanup

\* status() begins with the instances of the jobs it asks for.
LEMMA StatusBeginTrue ==
  ASSUME TypeOK, TypeOK', Base, Truthful, WarmPoolSize = 0, Advancing, NEW t \in Threads, StatusBegin(t)
  PROVE  Truthful'
<1>1. Fading /\ Dropping /\ Turning(t)
  BY TurnStatusBegin
<1>2. pc[t] = "idle" /\ pc'[t] \in {"update", "group"}
  BY DEF StatusBegin, Begin, Goto, TypeOK, CallsTypeOK
<1>3. /\ frame'[t].told = NoStatuses /\ frame'[t].todo = {} /\ frame'[t].method = "status"
      /\ \A i \in frame'[t].rids : \E j \in Jobs : Mapped(j) /\ job_map[j].rid = i
  BY DEF StatusBegin, TypeOK, CallsTypeOK, NoFrame, AcceptedJobs
<1>4. \A i \in frame'[t].rids : SubmittedOn(i)
  BY <1>3, BooksSubmitted DEF SubmittedOn
<1>5. CallTrue(t)'
  BY <1>1, <1>2, <1>3, <1>4, CallAfter DEF Truthful, NoStatuses
<1> QED
  BY <1>1, <1>2, <1>5, MovingTrue DEF StatusBegin, provVars, modeVars

\* What is answered without AWS comes from the records.
LEMMA GroupTrue ==
  ASSUME TypeOK, TypeOK', Base, Truthful, WarmPoolSize = 0, Advancing, NEW t \in Threads, Group(t)
  PROVE  Truthful'
<1>1. Fading /\ Dropping /\ Turning(t)
  BY TurnGroup
<1>2. pc[t] = "group" /\ pc'[t] = "poll"
  BY DEF Group, Goto, TypeOK, CallsTypeOK
<1>3. frame[t] \in Frame
  BY DEF TypeOK, CallsTypeOK
<1>4. /\ frame'[t].told = LocalStatuses(frame[t].rids) /\ frame'[t].todo \subseteq frame[t].rids
      /\ frame'[t].rids = frame[t].rids /\ frame'[t].method = frame[t].method
  BY <1>3 DEF Group, MustAskAws, TypeOK, CallsTypeOK, Frame
<1>5. \A i \in Instances : frame'[t].told[i] \in {Absent, "UNKNOWN"} \/ Will(i, frame'[t].told[i])
  <2>1. ASSUME NEW i \in Instances, mode_resources[i].status = "INTERRUPTED"
        PROVE  Will(i, "INTERRUPTED")
    BY <2>1, FitsStays DEF Truthful, BooksTrue
  <2> QED
    BY <1>4, <2>1 DEF LocalStatuses
<1>6. CallTrue(t)'
  BY <1>1, <1>2, <1>4, <1>5, CallAfter DEF Truthful
<1> QED
  BY <1>1, <1>2, <1>6, MovingTrue DEF Group, provVars, modeVars

\* What SSM answers of a command is true of its host.
LEMMA AnswerTrue ==
  ASSUME TypeOK, Base, Truthful, WarmPoolSize = 0, UsesSsmDispatch, Advancing,
         NEW i \in Instances, SubmittedOn(i), Tracked(i), NEW a \in CommandStatus(i)
  PROVE  Will(i, a)
<1>1. mode_resources[i].cmd \in Jobs /\ host[mode_resources[i].cmd] = i
  BY NewNotSubmitted DEF Truthful, Commanded
<1>2. Fits(i, a)
  BY <1>1 DEF CommandStatus, Fits, Succeeded, Over
<1> QED
  BY <1>2, FitsStays

\* The records with the answers written into them.
LEMMA AnswersWritten ==
  ASSUME ModeTypeOK, NEW S \in SUBSET Instances, NEW answer, NEW i \in Instances
  PROVE  /\ WithAnswers(S, answer)[i].cmd = mode_resources[i].cmd
         /\ WithAnswers(S, answer)[i].status = mode_resources[i].status
              \/ (i \in S /\ WithAnswers(S, answer)[i].status = answer[i])
<1>1. mode_resources[i] \in ModeRecord
  BY DEF ModeTypeOK
<1> QED
  BY <1>1 DEF WithAnswers, ModeRecord

\* The answers of a poll join what the call has heard.
LEMMA HeardTrue ==
  ASSUME TypeOK, TypeOK', Dropping, Advancing, NEW t \in Threads, CallTrue(t), pc[t] = "poll", NEW m, Heard(t, m),
         \A i \in frame[t].todo : m[i] \in {Absent, "UNKNOWN"} \/ Will(i, m[i])
  PROVE  CallTrue(t)'
<1>1. frame[t] \in Frame /\ pc'[t] = "update"
  BY DEF Heard, Goto, TypeOK, CallsTypeOK
<1> DEFINE g == [i \in Instances |-> IF i \in frame[t].todo THEN m[i] ELSE frame[t].told[i]]
<1>2. frame' = [frame EXCEPT ![t] = [frame[t] EXCEPT !.told = g, !.todo = {}]]
  BY DEF Heard, TypeOK, CallsTypeOK
<1> HIDE DEF g
<1>3. frame'[t].told = g /\ frame'[t].todo = {} /\ frame'[t].rids = frame[t].rids /\ frame'[t].method = frame[t].method
  BY <1>1, <1>2 DEF TypeOK, CallsTypeOK, Frame
<1>4. \A i \in Instances : frame'[t].told[i] \in {Absent, "UNKNOWN", frame[t].told[i]} \/ Will(i, frame'[t].told[i])
  <2>1. \A i \in Instances : g[i] \in {Absent, "UNKNOWN", frame[t].told[i]} \/ Will(i, g[i])
    <3>1. \A i \in Instances : IF i \in frame[t].todo THEN g[i] = m[i] ELSE g[i] = frame[t].told[i]
      BY DEF g
    <3> QED
      BY <3>1
  <2> QED
    BY <1>3, <2>1
<1> QED
  BY <1>1, <1>3, <1>4, CallAfter

\* The SSM poll.
LEMMA PollSsmTrue ==
  ASSUME TypeOK, TypeOK', Base, Truthful, WarmPoolSize = 0, Advancing, NEW t \in Threads, PollSsm(t)
  PROVE  Truthful'
<1>1. Fading /\ Dropping /\ Turning(t) /\ pc[t] = "poll" /\ UsesSsmDispatch
  BY TurnPolls DEF PollSsm
<1>2. PICK answer \in [frame[t].todo -> Answers] :
        PollCommands(frame[t].todo, answer) /\ Heard(t, answer)
  BY DEF PollSsm
<1>3. frame[t].todo \in SUBSET Instances /\ CallTrue(t)
  BY DEF TypeOK, CallsTypeOK, Frame, Truthful
<1>4. \A i \in frame[t].todo : answer[i] = "UNKNOWN" \/ Will(i, answer[i])
  BY <1>1, <1>2, <1>3, AnswerTrue DEF PollCommands, CallTrue
<1>5. CallTrue(t)'
  BY <1>1, <1>2, <1>3, <1>4, HeardTrue
<1>6. \A i \in Instances : /\ mode_resources'[i].cmd = mode_resources[i].cmd
                           /\ mode_resources'[i].status = mode_resources[i].status
                                \/ (i \in frame[t].todo /\ answer[i] # "UNKNOWN" /\ mode_resources'[i].status = answer[i])
  <2>1. \A i \in Instances : mode_resources[i] \in ModeRecord
    BY DEF TypeOK, ModeTypeOK
  <2> QED
    BY <1>2, <2>1 DEF PollCommands, WithAnswers, ModeRecord
<1>7. \A i \in Instances : mode_resources'[i].status \in {Absent, mode_resources[i].status} \/ Will(i, mode_resources'[i].status)
  BY <1>4, <1>6
<1>8. \A i \in Instances : Tracked(i) => Tracked(i)'
  <2>1. \A i \in frame[t].todo : answer[i] # Absent
    BY DEF Answers, Absent
  <2> QED
    BY <1>6, <2>1 DEF Tracked
<1>9. UNCHANGED <<resources, job_map>>
  BY <1>2 DEF Heard, provVars
<1> QED
  BY <1>1, <1>5, <1>6, <1>7, <1>8, <1>9, TurningTrue

\* A poll that raises has written what it had heard by then.
LEMMA PollRaisesTrue ==
  ASSUME TypeOK, TypeOK', Base, Truthful, WarmPoolSize = 0, Advancing, NEW t \in Threads, PollRaises(t)
  PROVE  Truthful'
<1>1. Fading /\ Dropping /\ Turning(t) /\ pc[t] = "poll" /\ UsesSsmDispatch /\ ToCleanup(t)
      /\ UNCHANGED <<resources, job_map>>
  BY TurnPollRaises DEF PollRaises, provVars
<1>2. PICK done \in SUBSET frame[t].todo : \E answer \in [done -> Answers] :
        PollCommandsRaises(frame[t].todo, done, answer)
  BY DEF PollRaises
<1>3. PICK answer \in [done -> Answers] : PollCommandsRaises(frame[t].todo, done, answer)
  BY <1>2
<1>4. done \in SUBSET Instances /\ CallTrue(t)
  BY DEF TypeOK, CallsTypeOK, Frame, Truthful
<1>5. \A i \in done : Will(i, answer[i])
  BY <1>1, <1>3, <1>4, AnswerTrue DEF PollCommandsRaises, CallTrue
<1>6. \A i \in Instances : /\ mode_resources'[i].cmd = mode_resources[i].cmd
                           /\ mode_resources'[i].status = mode_resources[i].status
                                \/ (i \in done /\ mode_resources'[i].status = answer[i])
  BY <1>3, <1>4, AnswersWritten DEF PollCommandsRaises, TypeOK
<1>7. \A i \in Instances : mode_resources'[i].status \in {Absent, mode_resources[i].status} \/ Will(i, mode_resources'[i].status)
  BY <1>5, <1>6
<1>8. \A i \in Instances : Tracked(i) => Tracked(i)'
  <2>1. \A i \in done : answer[i] # Absent
    BY DEF Answers, Absent
  <2> QED
    BY <1>6, <2>1 DEF Tracked
<1>9. CallTrue(t)'
  BY <1>1, <1>4, ToCleanupTrue
<1> QED
  BY <1>1, <1>6, <1>7, <1>8, <1>9, TurningTrue

\* An instance that is not up runs nothing any more.
LEMMA DownIsOver ==
  ASSUME TypeOK, Accounted, SentToHost, NEW i \in Instances, SubmittedOn(i), ec2[i] # "running"
  PROVE  Over(i)
<1>1. PICK j \in Jobs : host[j] = i
  BY DEF SubmittedOn
<1>2. command[j] # "none" /\ command[j] # "inprogress"
  BY <1>1 DEF SentToHost, Accounted, LiveCommand
<1> QED
  BY <1>1, <1>2 DEF Over, TypeOK, ModeTypeOK, AwsTypeOK

\* The EC2 poll.
LEMMA PollEc2True ==
  ASSUME TypeOK, TypeOK', Base, Truthful, WarmPoolSize = 0, Advancing, Accounted, NoLostInstance, SentToHost,
         NEW t \in Threads, PollEc2(t)
  PROVE  Truthful'
<1>1. Fading /\ Dropping /\ Turning(t) /\ pc[t] = "poll" /\ ~UsesSsmDispatch
  BY TurnPolls DEF PollEc2
<1>2. PICK outcome \in PollOutcomes : PollInstances(frame[t].todo, outcome)
       /\ Heard(t, InstanceStatuses(frame[t].todo, outcome))
  BY DEF PollEc2
<1>3. frame[t].todo \in SUBSET Instances /\ CallTrue(t)
  BY DEF TypeOK, CallsTypeOK, Frame, Truthful
<1> DEFINE m == InstanceStatuses(frame[t].todo, outcome)
<1>4. outcome # "unknown_id"
  BY <1>2, <1>3 DEF PollInstances, Known, NoLostInstance
<1>5. \A i \in Instances : m[i] \in {Absent, "UNKNOWN", "RUNNING"} \/ (m[i] = "COMPLETED" /\ i \in frame[t].todo /\ ec2[i] # "running")
  BY <1>4 DEF InstanceStatuses, InstanceStatus, PollOutcomes
<1> HIDE DEF m
<1>6. \A i \in Instances : m[i] \in {Absent, "UNKNOWN"} \/ Will(i, m[i])
  <2>1. ASSUME NEW i \in Instances, m[i] = "COMPLETED"
        PROVE  Will(i, "COMPLETED")
    <3>1. Over(i)
      BY <1>3, <1>5, <2>1, DownIsOver, Absent # "COMPLETED" DEF CallTrue, Absent
    <3> QED
      BY <1>1, <3>1 DEF Will, Advancing
  <2>2. \A i \in Instances : Will(i, "RUNNING")
    BY DEF Will
  <2> QED
    BY <1>5, <2>1, <2>2
<1>7. CallTrue(t)'
  BY <1>1, <1>2, <1>3, <1>6, HeardTrue DEF m
<1>8. \A i \in Instances : /\ mode_resources'[i].cmd = mode_resources[i].cmd
                           /\ mode_resources'[i].status = mode_resources[i].status
                                \/ (m[i] \notin {Absent, "UNKNOWN"} /\ mode_resources'[i].status = m[i])
  <2>1. \A i \in Instances : mode_resources[i] \in ModeRecord
    BY DEF TypeOK, ModeTypeOK
  <2> QED
    BY <1>2, <2>1 DEF PollInstances, ModeRecord, m
<1>9. \A i \in Instances : mode_resources'[i].status \in {Absent, mode_resources[i].status} \/ Will(i, mode_resources'[i].status)
  BY <1>6, <1>8
<1>10. \A i \in Instances : Tracked(i) => Tracked(i)'
  BY <1>8 DEF Tracked
<1>11. UNCHANGED <<resources, job_map>>
  BY <1>2 DEF Heard, provVars
<1> QED
  BY <1>1, <1>7, <1>8, <1>9, <1>10, <1>11, TurningTrue

\* The statuses written back are those heard.
LEMMA WrittenBack ==
  ASSUME BooksTypeOK, NEW J, NEW m, WriteBack(J, m)
  PROVE  /\ \A i \in Instances : resources'[i].status = resources[i].status \/ resources'[i].status = m[i]
         /\ \A j \in Jobs : \/ job_map'[j].status = job_map[j].status
                            \/ Mapped(j) /\ job_map'[j].status = m[job_map[j].rid]
<1>1. \A j \in Jobs : job_map[j] \in JobEntry
  BY DEF BooksTypeOK
<1>2. \A e \in JobEntry : \A s : [e EXCEPT !.status = s].status = s
  BY DEF JobEntry, NoEntry
<1>3. \A i \in Instances : resources[i] \in Record
  BY DEF BooksTypeOK
<1>4. \A e \in Record : \A s : [e EXCEPT !.status = s].status = s
  BY DEF Record, NoRecord
<1>5. \A j \in Jobs : \/ job_map'[j].status = job_map[j].status
                      \/ Mapped(j) /\ job_map'[j].status = m[job_map[j].rid]
  BY <1>1, <1>2 DEF WriteBack, Mapped
<1>6. \A i \in Instances : resources'[i].status = resources[i].status \/ resources'[i].status = m[i]
  BY <1>3, <1>4 DEF WriteBack, Recorded
<1> QED
  BY <1>5, <1>6

\* Writing back what a call has heard keeps the books true.
LEMMA WriteBackTrue ==
  ASSUME TypeOK, TypeOK', Base, Truthful, WarmPoolSize = 0, Advancing,
         NEW t \in Threads, Fading, Dropping, Turning(t), CallTrue(t)', NEW J, WriteBack(J, frame[t].told),
         UNCHANGED mode_resources, pc[t] \notin {"deliver", "track_cold"}
  PROVE  Truthful'
<1> DEFINE m == frame[t].told
<1>1. \A i \in Instances : Will(i, m[i])
  BY FitsStays DEF Truthful, CallTrue
<1> HIDE DEF m
<1>2. WriteBack(J, m)
  BY DEF m
<1>3. /\ \A i \in Instances : resources'[i].status = resources[i].status \/ resources'[i].status = m[i]
      /\ \A j \in Jobs : \/ job_map'[j].status = job_map[j].status
                         \/ Mapped(j) /\ job_map'[j].status = m[job_map[j].rid]
  BY <1>2, WrittenBack DEF TypeOK
<1>4. \A j \in Jobs : Mapped(j) => job_map[j].rid \in Instances
  BY BooksSubmitted
<1>5. \A j \in Jobs : Mapped(j)' =>
           \/ job_map'[j].status \in {"UNKNOWN", job_map[j].status}
           \/ Will(job_map[j].rid, job_map'[j].status)
  BY <1>1, <1>3, <1>4
<1>6. \A i \in Instances : resources'[i].status \in {Absent, "UNKNOWN", resources[i].status} \/ Will(i, resources'[i].status)
  BY <1>1, <1>3
<1> QED
  BY <1>5, <1>6, TurningTrue DEF Tracked

\* The second lock regions of status() and cancel(), and the save that follows.
LEMMA UpdatesTrue ==
  ASSUME TypeOK, TypeOK', Base, Truthful, WarmPoolSize = 0, Advancing,
         NEW t \in Threads, StatusUpdate(t) \/ SaveStatus(t) \/ CancelUpdate(t)
  PROVE  Truthful'
<1>1. Fading /\ Dropping /\ Turning(t) /\ CallTrue(t)
  BY TurnStatusUpdate, TurnSaveStatus, TurnCancelUpdate DEF Truthful
<1>2. CASE StatusUpdate(t)
  <2>1. pc'[t] = "save_status" /\ frame'[t] = [NoFrame EXCEPT !.method = "status", !.state = Snapshot]
    BY <1>2 DEF StatusUpdate, Goto, TypeOK, CallsTypeOK
  <2>2. frame'[t].told = NoStatuses /\ frame'[t].rids = {} /\ frame'[t].todo = {} /\ frame'[t].method = "status"
    BY <2>1 DEF NoFrame
  <2>3. CallTrue(t)'
    BY <1>1, <2>1, <2>2, CallAnew
  <2> QED
    BY <1>1, <1>2, <2>3, WriteBackTrue DEF StatusUpdate, modeVars
<1>3. CASE SaveStatus(t)
  <2>1. CallTrue(t)'
    BY <1>1, <1>3, ToCleanupTrue DEF SaveStatus
  <2> QED
    BY <1>1, <1>3, <2>1, MovingTrue DEF SaveStatus, modeVars
<1>4. CASE CancelUpdate(t)
  <2>1. CallTrue(t)'
    BY <1>1, <1>4, ToCleanupTrue DEF CancelUpdate
  <2> QED
    BY <1>1, <1>4, <2>1, WriteBackTrue DEF CancelUpdate, modeVars
<1> QED
  BY <1>2, <1>3, <1>4

\* The ids cancel() collects are hosts of the jobs it cancels.
LEMMA CollectTrue ==
  ASSUME TypeOK, TypeOK', Base, Truthful, WarmPoolSize = 0, Advancing,
         NEW t \in Threads, Fading, Dropping, Turning(t),
         NEW method, NEW J \in SUBSET Jobs, Collect(t, method, J),
         method = "shutdown" => \A j \in Jobs : Mapped(j) => j \in J,
         UNCHANGED <<resources, job_map, mode_resources>>, pc[t] \notin {"deliver", "track_cold"}
  PROVE  Truthful'
<1>1. /\ pc'[t] = "cancel_call" /\ frame'[t].told = NoStatuses /\ frame'[t].todo = {} /\ frame'[t].method = method
      /\ \A i \in frame'[t].rids : \E j \in J : Mapped(j) /\ job_map[j].rid = i
      /\ cancelled' = cancelled \cup J
  BY DEF Collect, Goto, TypeOK, CallsTypeOK, NoFrame
<1>2. \A i \in frame'[t].rids : \E j \in J : host[j] = i /\ Submitted(j)
  BY <1>1, BooksSubmitted
<1>3. \A i \in Instances : i \in frame'[t].rids => SubmittedOn(i) /\ CancelledOn(i)'
  <2>1. \A i \in Instances : i \in frame'[t].rids => \E j \in J : host'[j] = i
    BY <1>2 DEF Fading
  <2> QED
    BY <1>1, <1>2, <2>1 DEF SubmittedOn, CancelledOn
<1>4. CallTrue(t)'
  BY <1>1, <1>3, CallAfter DEF Truthful, NoStatuses
<1> QED
  BY <1>4, MovingTrue

\* Calls that begin to cancel.
LEMMA CancelBeginsTrue ==
  ASSUME TypeOK, TypeOK', Base, Truthful, WarmPoolSize = 0, Advancing, NEW t \in Threads,
         ScaleIn(t) \/ ScaleInCancels(t) \/ Shutdown(t) \/ \E J \in SUBSET Jobs : Cancel(t, J)
  PROVE  Truthful'
<1>1. Fading /\ Dropping /\ Turning(t) /\ CallTrue(t)
  BY TurnScaleIn, TurnScaleInCancels, TurnShutdown, TurnCancel DEF Truthful
<1>2. /\ UNCHANGED <<resources, job_map, mode_resources>> /\ pc[t] \notin {"deliver", "track_cold"}
  BY DEF ScaleIn, ScaleInCancels, Shutdown, Cancel, Begin, provVars, modeVars
<1>3. CASE ScaleIn(t)
  <2>1. pc'[t] = "cancel" /\ \E K : frame'[t] = [NoFrame EXCEPT !.method = "scale_in", !.jobs = K]
    BY <1>3 DEF ScaleIn, Goto, TypeOK, CallsTypeOK
  <2>2. frame'[t].told = NoStatuses /\ frame'[t].rids = {} /\ frame'[t].todo = {} /\ frame'[t].method = "scale_in"
    BY <2>1 DEF NoFrame
  <2> QED
    BY <1>1, <1>2, <2>1, <2>2, CallAnew, MovingTrue
<1>4. CASE ScaleInCancels(t)
  <2>1. Collect(t, "scale_in", frame[t].jobs) /\ frame[t].jobs \in SUBSET Jobs
    BY <1>4 DEF ScaleInCancels, TypeOK, CallsTypeOK, Frame
  <2> QED
    BY <1>1, <1>2, <2>1, CollectTrue
<1>5. CASE Shutdown(t)
  <2> DEFINE J == {j \in Jobs : Mapped(j)}
  <2>1. CASE J # {}
    <3>1. Collect(t, "shutdown", J) /\ J \in SUBSET Jobs /\ \A j \in Jobs : Mapped(j) => j \in J
      BY <1>5, <2>1 DEF Shutdown
    <3> HIDE DEF J
    <3> QED
      BY <1>1, <1>2, <3>1, CollectTrue
  <2>2. CASE J = {}
    <3>1. pc'[t] = "infrastructure" /\ frame'[t] = [NoFrame EXCEPT !.method = "shutdown"]
      BY <1>5, <2>2 DEF Shutdown, Goto, TypeOK, CallsTypeOK
    <3>2. frame'[t].told = NoStatuses /\ frame'[t].rids = {} /\ frame'[t].todo = {} /\ frame'[t].method = "shutdown"
      BY <3>1 DEF NoFrame
    <3>3. \A j \in Jobs : Mapped(j) => j \in cancelled'
      BY <2>2
    <3> QED
      BY <1>1, <1>2, <3>1, <3>2, <3>3, CallAnew, MovingTrue
  <2> QED
    BY <2>1, <2>2
<1>6. ASSUME NEW J \in SUBSET Jobs, Cancel(t, J)
      PROVE  Truthful'
  BY <1>1, <1>2, <1>6, CollectTrue DEF Cancel
<1> QED
  BY <1>3, <1>4, <1>5, <1>6

\* The call that cancels them.
LEMMA CancelCallTrue ==
  ASSUME TypeOK, TypeOK', Base, Truthful, WarmPoolSize = 0, Advancing, Reliable, NoLostInstance,
         NEW t \in Threads, CancelCall(t)
  PROVE  Truthful'
<1>1. Fading /\ Dropping /\ Turning(t) /\ CallTrue(t) /\ frame[t] \in Frame
      /\ pc[t] = "cancel_call" /\ pc'[t] = "cancel_update" /\ UNCHANGED <<resources, job_map>>
  BY TurnCancelCall DEF Truthful, CancelCall, Goto, TypeOK, CallsTypeOK, provVars
<1>2. PICK outcome \in CancelOutcomes :
        /\ CancelJobs(frame[t].rids, outcome)
        /\ frame' = [frame EXCEPT ![t].told = CancelStatuses(frame[t].rids, outcome)]
  BY DEF CancelCall
<1>3. frame'[t].told = CancelStatuses(frame[t].rids, outcome) /\ frame'[t].todo = frame[t].todo
      /\ frame'[t].rids = frame[t].rids /\ frame'[t].method = frame[t].method
  BY <1>1, <1>2 DEF TypeOK, CallsTypeOK, Frame
<1>4. outcome = "CANCELED"
  BY <1>1, <1>2 DEF CancelJobs, CancelOutcomes, Reliable, Fault, Known, NoLostInstance, Frame
<1>5. \A i \in Instances : i \in frame[t].rids => Will(i, "CANCELED")
  BY <1>1 DEF CallTrue, Will, Advancing
<1>6. \A i \in Instances : frame'[t].told[i] \in {Absent, "UNKNOWN"} \/ Will(i, frame'[t].told[i])
  BY <1>3, <1>4, <1>5 DEF CancelStatuses
<1>7. CallTrue(t)'
  BY <1>1, <1>3, <1>6, CallAfter
<1>8. \A i \in Instances : /\ mode_resources'[i].cmd = mode_resources[i].cmd
                           /\ mode_resources'[i].status = mode_resources[i].status
                                \/ (i \in frame[t].rids /\ mode_resources'[i].status = "CANCELED")
  <2>1. \A i \in Instances : mode_resources[i] \in ModeRecord
    BY DEF TypeOK, ModeTypeOK
  <2> QED
    BY <1>2, <1>4, <2>1 DEF CancelJobs, ModeRecord
<1>9. \A i \in Instances : mode_resources'[i].status \in {Absent, mode_resources[i].status} \/ Will(i, mode_resources'[i].status)
  BY <1>5, <1>8
<1>10. \A i \in Instances : Tracked(i) => Tracked(i)'
  BY <1>8 DEF Tracked, Absent
<1> QED
  BY <1>1, <1>7, <1>8, <1>9, <1>10, TurningTrue

\* The scan takes only instances on which nobody's work is lost.
LEMMA ScanTrue ==
  ASSUME TypeOK, TypeOK', Base, Truthful, WarmPoolSize = 0, Advancing, NEW t \in Threads, Scan(t)
  PROVE  Truthful'
<1>1. Fading /\ Dropping /\ Turning(t) /\ CallTrue(t) /\ frame[t] \in Frame /\ pc[t] = "scan"
      /\ UNCHANGED <<resources, job_map, mode_resources>>
  BY TurnScan DEF Truthful, Scan, TypeOK, CallsTypeOK, provVars, modeVars
<1>2. \A i \in Doomed : i \in Instances /\ SubmittedOn(i) /\ Spent(i)
  <2>1. ASSUME NEW i \in Doomed
        PROVE  i \in Instances /\ resources[i].status \in {"COMPLETED", "FAILED", "CANCELED", "INTERRUPTED"}
    BY <2>1 DEF Doomed, InStatus
  <2>2. ASSUME NEW i \in Doomed
        PROVE  SubmittedOn(i)
    BY <2>1, <2>2, BooksSubmitted DEF Recorded, Absent
  <2>3. ASSUME NEW i \in Doomed
        PROVE  Spent(i)
    <3>1. Fits(i, resources[i].status)
      BY <2>1 DEF Truthful, BooksTrue
    <3> QED
      BY <2>1, <3>1 DEF Fits, Spent, Succeeded, Over
  <2> QED
    BY <2>1, <2>2, <2>3
<1>3. pc'[t] \in {"terminate", "idle", "finish"}
  BY DEF Scan, Reusable, AfterPool, Goto, TypeOK, CallsTypeOK
<1>4. CASE pc'[t] = "idle"
  <2>1. frame'[t] = NoFrame
    BY <1>4 DEF Scan, Reusable, AfterPool, Goto, TypeOK, CallsTypeOK
  <2>2. CallTrue(t)'
    BY <1>1, <1>4, <2>1, CallAnew DEF NoFrame
  <2> QED
    BY <1>1, <2>2, MovingTrue
<1>5. CASE pc'[t] # "idle"
  <2>1. frame'[t] = [frame[t] EXCEPT !.rids = Doomed, !.todo = {}]
    BY <1>5 DEF Scan, Reusable, AfterPool, Goto, TypeOK, CallsTypeOK
  <2>2. frame'[t].told = frame[t].told /\ frame'[t].rids = Doomed /\ frame'[t].todo = {} /\ frame'[t].method = frame[t].method
    BY <1>1, <2>1 DEF Frame
  <2>3. \A i \in Instances : i \in Doomed => Spent(i)'
    BY <1>2 DEF Spent, Advancing
  <2>4. CallTrue(t)'
    BY <1>1, <1>2, <1>3, <2>2, <2>3, CallAfter
  <2> QED
    BY <1>1, <2>4, MovingTrue
<1> QED
  BY <1>4, <1>5

\* A call whose frame keeps what it has heard and has to do goes on.
LEMMA CallGoesOn ==
  ASSUME TypeOK, TypeOK', Dropping, Advancing, NEW t \in Threads, CallTrue(t), pc[t] # "idle",
         pc'[t] \notin {"pool", "transition", "unlist", "cancel_call", "terminate"},
         frame'[t].told = frame[t].told, frame'[t].rids = frame[t].rids, frame'[t].todo = frame[t].todo,
         frame'[t].method = frame[t].method
  PROVE  CallTrue(t)'
BY CallAfter

\* Their records go, in the mode and then in the provider.
LEMMA DropsTrue ==
  ASSUME TypeOK, TypeOK', Base, Truthful, WarmPoolSize = 0, Advancing, NEW t \in Threads, TerminateDoomed(t) \/ Forget(t)
  PROVE  Truthful'
<1>1. Fading /\ Dropping /\ Turning(t) /\ CallTrue(t) /\ frame[t] \in Frame
  BY TurnTerminateDoomed, TurnForget DEF Truthful, TypeOK, CallsTypeOK
<1>2. CASE TerminateDoomed(t)
  <2>1. pc[t] = "terminate" /\ pc'[t] = "forget" /\ frame'[t] = frame[t] /\ UNCHANGED <<resources, job_map>>
    BY <1>2 DEF TerminateDoomed, Goto, TypeOK, CallsTypeOK, provVars
  <2>2. CallTrue(t)'
    BY <1>1, <2>1, CallGoesOn
  <2>3. \A i \in Instances : mode_resources'[i] = mode_resources[i] \/ (i \in frame[t].rids /\ mode_resources'[i] = NoModeRecord)
    BY <1>2 DEF TerminateDoomed, CleanupResources, TypeOK, ModeTypeOK
  <2>4. \A i \in Instances : mode_resources'[i].status \in {Absent, mode_resources[i].status}
    BY <2>3 DEF NoModeRecord
  <2>5. \A i \in Instances : Tracked(i)' => mode_resources'[i].cmd = mode_resources[i].cmd
    BY <2>3 DEF NoModeRecord, Tracked
  <2>6. \A i \in Instances : Tracked(i) => Tracked(i)' \/ SubmittedOn(i)
    BY <1>1, <2>3 DEF CallTrue, Tracked
  <2> QED
    BY <1>1, <2>1, <2>2, <2>4, <2>5, <2>6, TurningTrue
<1>3. CASE Forget(t)
  <2>1. /\ pc[t] = "forget" /\ pc'[t] = "save_pass" /\ UNCHANGED mode_resources
        /\ \E d : frame'[t] = [frame[t] EXCEPT !.state = d]
    BY <1>3 DEF Forget, Goto, TypeOK, CallsTypeOK, modeVars
  <2>2. frame'[t].told = frame[t].told /\ frame'[t].rids = frame[t].rids /\ frame'[t].todo = frame[t].todo
        /\ frame'[t].method = frame[t].method
    BY <1>1, <2>1 DEF Frame
  <2>3. CallTrue(t)'
    BY <1>1, <2>1, <2>2, CallGoesOn
  <2>4. \A i \in Instances : resources'[i].status \in {Absent, resources[i].status}
    BY <1>3 DEF Forget, NoRecord
  <2>5. \A j \in Jobs : Mapped(j)' => job_map'[j] = job_map[j]
    BY <1>3 DEF Forget, NoEntry, Mapped
  <2> QED
    BY <1>1, <2>1, <2>3, <2>4, <2>5, TurningTrue DEF Tracked
<1> QED
  BY <1>2, <1>3

\* The rest of a pass, and shutdown().
LEMMA ClosingTrue ==
  ASSUME TypeOK, TypeOK', Base, Truthful, WarmPoolSize = 0, Advancing, Methodical, Reliable, NEW t \in Threads,
         SavePass(t) \/ SavePassMode(t) \/ Finish(t) \/ SaveCancel(t) \/ ShutdownStep(t)
  PROVE  Truthful'
<1>1. Fading /\ Dropping /\ Turning(t) /\ CallTrue(t)
  BY TurnSavePass, TurnSavePassMode, TurnFinish, TurnSaveCancel, TurnShutdownStep DEF Truthful
<1>2. CASE SavePass(t)
  <2>1. pc[t] = "save_pass" /\ pc'[t] = "save_mode" /\ frame'[t] = frame[t] /\ UNCHANGED <<resources, job_map, mode_resources>>
    BY <1>2 DEF SavePass, Goto, TypeOK, CallsTypeOK, modeVars
  <2>2. CallTrue(t)'
    BY <1>1, <2>1, CallGoesOn
  <2> QED
    BY <1>1, <2>1, <2>2, MovingTrue
<1>3. CASE SavePassMode(t) \/ Finish(t) \/ SaveCancel(t)
  <2>1. pc[t] \in {"save_mode", "finish", "save_cancel"} /\ UNCHANGED <<resources, job_map, mode_resources>>
    BY <1>3 DEF SavePassMode, Finish, SaveCancel, provVars, modeVars
  <2>2. CASE Return(t)
    BY <1>1, <2>1, <2>2, ReturnTrue, MovingTrue
  <2>3. CASE ~Return(t)
    <3>1. /\ pc'[t] \in {"finish", "save_cancel", "infrastructure"}
          /\ \E d : frame'[t] \in {[NoFrame EXCEPT !.method = frame[t].method],
                                   [NoFrame EXCEPT !.method = frame[t].method, !.state = d]}
      BY <1>3, <2>3 DEF SavePassMode, Finish, SaveCancel, Goto, TypeOK, CallsTypeOK
    <3>2. frame'[t].told = NoStatuses /\ frame'[t].rids = {} /\ frame'[t].todo = {} /\ frame'[t].method = frame[t].method
      BY <3>1 DEF NoFrame
    <3>3. CallTrue(t)'
      BY <1>1, <2>1, <3>1, <3>2, CallAnew
    <3> QED
      BY <1>1, <2>1, <3>3, MovingTrue
  <2> QED
    BY <2>2, <2>3
<1>4. CASE Infrastructure(t) \/ Deinitialize(t)
  <2>1. pc[t] \in ShutdownSteps /\ pc'[t] \in {"deinitialize", "clear", "erase"} /\ frame'[t] = frame[t] /\ UNCHANGED <<resources, job_map>>
    BY <1>4 DEF Infrastructure, Deinitialize, ShutdownSteps, Goto, TypeOK, CallsTypeOK, provVars
  <2>2. CallTrue(t)'
    BY <1>1, <2>1, CallGoesOn DEF ShutdownSteps
  <2>3. \A u \in Threads : pc[u] \notin SubmitSteps
    BY <2>1, NoSubmitInShutdown
  <2>4. \A u \in Threads : frame[u].rid = NoInstance
    BY <2>3 DEF Base, FramesKept
  <2>5. \A i \in Instances : mode_resources'[i] \in {mode_resources[i], NoModeRecord}
    BY <1>4 DEF Infrastructure, CleanupAll, CleanupResources, Deinitialize, FinishInfrastructure, TypeOK, ModeTypeOK
  <2>6. \A i \in Instances : mode_resources'[i].status \in {Absent, mode_resources[i].status}
    BY <2>5 DEF NoModeRecord
  <2>7. \A i \in Instances : Tracked(i)' => mode_resources'[i].cmd = mode_resources[i].cmd
    BY <2>5 DEF NoModeRecord, Tracked
  <2> QED
    BY <1>1, <2>1, <2>2, <2>4, <2>6, <2>7, TurningTrue, ModeAssumption DEF ShutdownSteps
<1>5. CASE Clear(t)
  <2>1. pc[t] \in ShutdownSteps /\ pc'[t] = "erase" /\ frame'[t] = frame[t] /\ UNCHANGED mode_resources
        /\ (\A i \in Instances : resources'[i].status = Absent) /\ (\A j \in Jobs : job_map'[j].status = Absent)
    BY <1>5 DEF Clear, ShutdownSteps, Goto, TypeOK, CallsTypeOK, modeVars, NoRecord, NoEntry
  <2>2. CallTrue(t)'
    BY <1>1, <2>1, CallGoesOn DEF ShutdownSteps
  <2> QED
    BY <1>1, <2>1, <2>2, TurningTrue DEF Tracked, Mapped, ShutdownSteps
<1>6. CASE Erase(t)
  <2>1. pc[t] = "erase" /\ UNCHANGED <<mode_resources, resources, job_map>>
    BY <1>6 DEF Erase, provVars
  <2>2. CallTrue(t)'
    BY <1>1, <1>6, ReturnTrue DEF Erase
  <2> QED
    BY <1>1, <2>1, <2>2, MovingTrue
<1> QED
  BY <1>2, <1>3, <1>4, <1>5, <1>6 DEF ShutdownStep

\* Without a warm pool there is no pass over it.
LEMMA NoPoolSteps ==
  ASSUME Truthful, NEW t \in Threads
  PROVE  ~(PoolSnapshot(t) \/ TransitionSkipped(t) \/ TransitionToPool(t) \/ TransitionEvicting(t) \/ Unlist(t))
BY DEF Truthful, CallTrue, PoolSnapshot, TransitionSkipped, TransitionToPool, TransitionEvicting, Unlist

\* Every step in which no submit() goes on keeps the truth.
LEMMA TurnedTrue ==
  ASSUME TypeOK, TypeOK', Base, Truthful, WarmPoolSize = 0, Advancing, Methodical, Reliable, Accounted, NoLostInstance,
         SentToHost, NEW t \in Threads, Turned(t)
  PROVE  Truthful'
<1>1. CASE SubmitUninitialized(t)
  <2>1. Fading /\ Dropping /\ Turning(t) /\ Return(t) /\ pc[t] = "take" /\ UNCHANGED <<resources, job_map, mode_resources>>
    BY <1>1, TurnSubmitUninitialized DEF SubmitUninitialized, provVars, modeVars
  <2> QED
    BY <2>1, ReturnTrue, MovingTrue DEF Truthful
<1>2. CASE StatusStep(t) \/ StatusBegin(t)
  BY <1>2, StatusBeginTrue, GroupTrue, PollSsmTrue, PollEc2True, PollRaisesTrue, UpdatesTrue DEF StatusStep
<1>3. CASE CancelStep(t) \/ ScaleIn(t) \/ Shutdown(t) \/ \E J \in SUBSET Jobs : Cancel(t, J)
  BY <1>3, CancelBeginsTrue, CancelCallTrue, UpdatesTrue DEF CancelStep
<1>4. CASE CleanupStep(t) \/ ShutdownStep(t)
  BY <1>4, NoPoolSteps, ScanTrue, DropsTrue, ClosingTrue DEF CleanupStep
<1> QED
  BY <1>1, <1>2, <1>3, <1>4 DEF Turned


\* A call of submit() has heard nothing and is about to end nothing.
LEMMA CallOfSubmit ==
  ASSUME TypeOK, Advancing, NEW t \in Threads, CallTrue(t), pc'[t] \in SubmitSteps, frame'[t].method # "shutdown",
         frame'[t].told = frame[t].told, frame'[t].rids = frame[t].rids, frame'[t].todo = frame[t].todo
  PROVE  CallTrue(t)'
<1>1. frame[t].rids \subseteq Instances /\ frame[t].todo \subseteq Instances
  BY DEF TypeOK, CallsTypeOK, Frame
<1>2. \A i \in Instances : Will(i, frame'[t].told[i])
  BY FitsStays DEF CallTrue
<1> QED
  BY <1>1, <1>2 DEF CallTrue, Advancing, Fits, Will, SubmitSteps

\* An empty frame says nothing.
LEMMA CallEmpty ==
  ASSUME NEW t \in Threads, pc'[t] \in {"idle", "take"},
         frame'[t].told = NoStatuses, frame'[t].rids = {}, frame'[t].todo = {}, frame'[t].method # "shutdown"
  PROVE  CallTrue(t)'
BY DEF CallTrue, NoStatuses, Absent, Fits

\* What the records and entries that stay say stays true.
LEMMA StatusesStay ==
  ASSUME TypeOK, Base, BooksTrue, Advancing
  PROVE  /\ \A i \in Instances : resources'[i] = resources[i] => Fits(i, resources[i].status)'
         /\ \A i \in Instances : mode_resources'[i].status = mode_resources[i].status => Fits(i, mode_resources[i].status)'
         /\ \A j \in Jobs : Mapped(j) /\ job_map'[j] = job_map[j] => Fits(job_map[j].rid, job_map[j].status)'
<1>1. \A i \in Instances : resources'[i] = resources[i] => Fits(i, resources[i].status)'
  BY FitsStays DEF BooksTrue, Fits, Will
<1>2. \A i \in Instances : mode_resources'[i].status = mode_resources[i].status => Fits(i, mode_resources[i].status)'
  BY FitsStays DEF BooksTrue, Fits, Will
<1>3. ASSUME NEW j \in Jobs, Mapped(j), job_map'[j] = job_map[j]
      PROVE  Fits(job_map[j].rid, job_map[j].status)'
  <2>1. PICK r \in Instances : r = job_map[j].rid
    BY <1>3, BooksSubmitted
  <2>2. Will(r, job_map'[j].status)
    BY <1>3, <2>1, FitsStays DEF BooksTrue
  <2> QED
    BY <1>3, <2>1, <2>2 DEF Fits, Will, Over, Succeeded, CancelledOn
<1> QED
  BY <1>1, <1>2, <1>3

\* submit() writes nothing into the mode's records but what it launches and sends.
LEMMA GoingTrue ==
  ASSUME TypeOK, TypeOK', Base, Truthful, WarmPoolSize = 0, Advancing, Methodical, NEW t \in Threads, Going(t),
         frame'[t].told = frame[t].told, frame'[t].method = frame[t].method,
         \A i \in Instances : mode_resources'[i] = mode_resources[i] \/
           (i = frame'[t].rid /\ mode_resources'[i].status \in {"PENDING", "RUNNING"}),
         \A i \in Instances : UsesSsmDispatch /\ i = frame'[t].rid /\ Tracked(i)' =>
           \/ pc'[t] \in {"deliver", "track_cold"}
           \/ mode_resources'[i].cmd \in Jobs /\ host'[mode_resources'[i].cmd] = i,
         pc'[t] \in {"deliver", "track_cold", "record"} => mode_resources'[frame'[t].rid].status # Absent,
         pc[t] \in {"deliver", "track_cold"} => frame'[t].rid = frame[t].rid
  PROVE  Truthful'
<1> USE DEF Truthful
<1>1. \A u \in Threads : CallTrue(u)'
  <2>1. CallTrue(t)'
    <3>1. pc'[t] \in SubmitSteps /\ pc[t] \in SubmitSteps /\ frame'[t].rids = frame[t].rids /\ frame'[t].todo = frame[t].todo
      BY DEF Going, PreRecord
    <3>2. frame'[t].method = "submit"
      BY <3>1 DEF Methodical
    <3> QED
      BY <3>1, <3>2, CallOfSubmit
  <2>2. ASSUME NEW u \in Threads, u # t
        PROVE  CallTrue(u)'
    <3>1. pc'[u] = pc[u] /\ frame'[u] = frame[u] /\ \A j \in Jobs : Mapped(j)' => Mapped(j)
      BY <2>2 DEF Going, Others, Mapped
    <3> QED
      BY <3>1, CallStays
  <2> QED
    BY <2>1, <2>2
<1>2. BooksTrue'
  <2>1. \A i \in Instances : Fits(i, mode_resources[i].status)'
    <3>1. \A i \in Instances : mode_resources'[i].status \in {"PENDING", "RUNNING"} => Fits(i, mode_resources[i].status)'
      BY DEF Fits
    <3> QED
      BY <3>1, StatusesStay
  <2> QED
    BY <2>1, StatusesStay DEF BooksTrue, Going, Mapped
<1>3. Commanded'
  <2> SUFFICES ASSUME UsesSsmDispatch, NEW i \in Instances, Tracked(i)'
               PROVE  \/ mode_resources'[i].cmd \in Jobs /\ host'[mode_resources'[i].cmd] = i
                      \/ \E u \in Threads : pc'[u] \in {"deliver", "track_cold"} /\ frame'[u].rid = i
    BY DEF Commanded, UsesSsmDispatch
  <2>1. CASE i = frame'[t].rid
    BY <2>1
  <2>2. CASE i # frame'[t].rid
    <3>1. mode_resources'[i] = mode_resources[i] /\ Tracked(i)
      BY <2>2 DEF Tracked
    <3>2. ASSUME NEW u \in Threads, pc[u] \in {"deliver", "track_cold"}, frame[u].rid = i
          PROVE  pc'[u] \in {"deliver", "track_cold"} /\ frame'[u].rid = i
      BY <2>2, <3>2 DEF Going, Others
    <3>3. ASSUME mode_resources[i].cmd \in Jobs /\ host[mode_resources[i].cmd] = i
          PROVE  host'[mode_resources[i].cmd] = i
      BY <3>3 DEF Advancing
    <3> QED
      BY <3>1, <3>2, <3>3 DEF Commanded
  <2> QED
    BY <2>1, <2>2
<1>4. LaunchTracked'
  <2> SUFFICES ASSUME NEW u \in Threads, pc'[u] \in {"deliver", "track_cold", "record"}
               PROVE  mode_resources'[frame'[u].rid].status # Absent
    BY DEF LaunchTracked, Tracked
  <2>1. CASE u # t
    <3>1. PICK i \in Instances : i = frame[u].rid
      BY <2>1, NewNotSubmitted DEF Going, Others
    <3>2. mode_resources[i].status # Absent
      BY <2>1, <3>1 DEF LaunchTracked, Tracked, Going, Others
    <3>3. mode_resources'[i].status # Absent
      BY <3>2 DEF Absent
    <3> QED
      BY <2>1, <3>1, <3>3 DEF Going, Others
  <2> QED
    BY <2>1
<1> QED
  BY <1>1, <1>2, <1>3, <1>4


\* submit() begins.
LEMMA SubmitTrue ==
  ASSUME TypeOK, TypeOK', Base, Truthful, Advancing, NEW t \in Threads, NEW j \in Jobs, Submit(t, j)
  PROVE  Truthful'
<1> USE DEF Truthful
<1>1. /\ Others(t) /\ pc[t] = "idle" /\ pc'[t] = "take"
      /\ UNCHANGED <<mode_resources, host, resources, job_map, cancelled>>
  BY DEF Submit, Begin, Goto, TypeOK, CallsTypeOK, Others, modeVars, awsVars, provVars
<1>2. \A u \in Threads : CallTrue(u)'
  <2>1. frame'[t].told = NoStatuses /\ frame'[t].rids = {} /\ frame'[t].todo = {} /\ frame'[t].method = "submit"
    BY DEF Submit, TypeOK, CallsTypeOK, NoFrame
  <2>2. CallTrue(t)'
    BY <1>1, <2>1, CallEmpty
  <2>3. ASSUME NEW u \in Threads, u # t
        PROVE  CallTrue(u)'
    BY <1>1, <2>3, CallStays DEF Others, Mapped
  <2> QED
    BY <2>2, <2>3
<1>3. BooksTrue'
  BY <1>1, StatusesStay DEF BooksTrue, Mapped
<1>4. Commanded'
  BY <1>1 DEF Commanded, Tracked, Others, UsesSsmDispatch
<1>5. LaunchTracked'
  BY <1>1 DEF LaunchTracked, Tracked, Others
<1> QED
  BY <1>2, <1>3, <1>4, <1>5

\* A submit() that fails before its instance has a record leaves the books as they are.
LEMMA SubmitFailsTrue ==
  ASSUME TypeOK, TypeOK', Base, Truthful, WarmPoolSize = 0, Advancing, NEW t \in Threads,
         pc[t] \in {"create", "wait"}, Return(t),
         UNCHANGED <<ec2, command, host, cancelled, reported>>, UNCHANGED modeVars, UNCHANGED provVars
  PROVE  Truthful'
<1>1. Fading /\ Dropping /\ Turning(t)
  BY FadingQuiet, DroppingQuiet, TurningReturn DEF modeVars, provVars, Tracked
<1> QED
  BY <1>1, ReturnTrue, MovingTrue DEF Truthful, modeVars, provVars

\* A cold submit() launches, ...
LEMMA LaunchTrue ==
  ASSUME TypeOK, TypeOK', Base, Truthful, WarmPoolSize = 0, Advancing, Methodical, NEW t \in Threads,
         TakeCold(t) \/ Create(t)
  PROVE  Truthful'
<1> USE DEF TypeOK
<1>1. CASE TakeCold(t)
  <2>1. Going(t) /\ frame'[t] = frame[t] /\ pc[t] = "take" /\ pc'[t] = "create" /\ UNCHANGED mode_resources
    BY <1>1 DEF TakeCold, Going, Others, PreRecord, SubmitSteps, Goto, CallsTypeOK, modeVars, awsVars, provVars
  <2>2. frame[t].rid = NoInstance
    BY <2>1 DEF Base, FramesKept
  <2> QED
    BY <2>1, <2>2, GoingTrue, ModeAssumption
<1>2. ASSUME NEW r \in Instances, RunInstance(r, frame[t].job), Goto(t, "wait"), frame' = [frame EXCEPT ![t].rid = r],
             Create(t)
      PROVE  Truthful'
  <2>1. frame[t].job \in Jobs /\ frame[t] \in Frame /\ pc[t] = "create"
    BY <1>2 DEF Create, SubmitOK, SubmitSteps, CallsTypeOK
  <2>2. Going(t) /\ pc'[t] = "wait" /\ frame'[t].rid = r /\ UNCHANGED mode_resources
    BY <1>2, <2>1 DEF Create, RunInstance, StartCommand, Going, Others, PreRecord, SubmitSteps, Goto, CallsTypeOK, Frame,
       modeVars, provVars, ModeTypeOK, AwsTypeOK
  <2>3. frame'[t].told = frame[t].told /\ frame'[t].method = frame[t].method
    BY <1>2, <2>1 DEF CallsTypeOK, Frame
  <2>4. ~Tracked(r)'
    BY <1>2, <2>2 DEF RunInstance, Base, InstancesNew, Handled, Tracked
  <2> QED
    BY <2>1, <2>2, <2>3, <2>4, GoingTrue
<1>3. CASE Create(t) /\ RunInstanceFails /\ Return(t)
  BY <1>3, SubmitFailsTrue DEF Create, RunInstanceFails
<1> QED
  BY <1>1, <1>2, <1>3 DEF Create

\* ... tracks the instance once it is up, ...
LEMMA WaitTrue ==
  ASSUME TypeOK, TypeOK', Base, Truthful, WarmPoolSize = 0, Advancing, Methodical, NEW t \in Threads, WaitRunning(t)
  PROVE  Truthful'
<1> USE DEF TypeOK
<1>0. PICK r \in Instances : r = frame[t].rid
  BY DEF WaitRunning, SubmitOK, SubmitSteps
<1>1. CASE TrackInstance(r) /\ Goto(t, IF UsesSsmDispatch THEN "deliver" ELSE "record") /\ UNCHANGED frame
  <2>1. Going(t) /\ pc[t] = "wait" /\ pc'[t] \in {"deliver", "record"} /\ frame'[t] = frame[t]
        /\ (UsesSsmDispatch => pc'[t] = "deliver")
    BY <1>1 DEF WaitRunning, TrackInstance, Going, Others, PreRecord, SubmitSteps, Goto, CallsTypeOK, awsVars, provVars
  <2>2. /\ \A i \in Instances : i # r => mode_resources'[i] = mode_resources[i]
        /\ mode_resources'[r].status = "PENDING"
    BY <1>1 DEF TrackInstance, ModeTypeOK
  <2> QED
    BY <1>0, <2>1, <2>2, GoingTrue DEF Absent
<1>2. CASE WaitFails(r) /\ Return(t)
  BY <1>2, SubmitFailsTrue DEF WaitRunning, WaitFails
<1> QED
  BY <1>0, <1>1, <1>2 DEF WaitRunning

\* ... gives it up when it does not take its command, ...
LEMMA AbandonTrue ==
  ASSUME TypeOK, TypeOK', Base, Truthful, WarmPoolSize = 0, Advancing, NEW t \in Threads, NEW r \in Instances,
         r = frame[t].rid, Abandon(r), Return(t), pc[t] \in {"deliver", "track_cold"},
         UNCHANGED provVars, UNCHANGED <<reported, cancelled>>
  PROVE  Truthful'
<1>1. Fading /\ Dropping /\ Turning(t)
  BY FadingAbandon, DroppingQuiet, TurningReturn DEF Abandon, provVars, TypeOK
<1>2. CallTrue(t)'
  BY <1>1, ReturnTrue DEF Truthful
<1>3. /\ \A i \in Instances : i # r => mode_resources'[i] = mode_resources[i]
      /\ mode_resources'[r] = NoModeRecord
  BY DEF Abandon, TypeOK, ModeTypeOK
<1>4. \A u \in Threads : u # t => frame[u].rid # r
  BY ModeAssumption DEF Base, HostsApart
<1>5. UNCHANGED <<resources, job_map>>
  BY DEF provVars
<1>6. mode_resources'[frame[t].rid].status = Absent
  BY <1>3 DEF NoModeRecord
<1>7. \A i \in Instances : mode_resources'[i].status \in {Absent, mode_resources[i].status}
  BY <1>3 DEF NoModeRecord
<1>8. \A i \in Instances : Tracked(i)' => mode_resources'[i].cmd = mode_resources[i].cmd
  BY <1>3 DEF NoModeRecord, Tracked
<1>9. \A i \in Instances : Tracked(i) => Tracked(i)' \/ \A u \in Threads : u # t => frame[u].rid # i
  BY <1>3, <1>4 DEF Tracked
<1> QED
  BY <1>1, <1>2, <1>5, <1>6, <1>7, <1>8, <1>9, TurningTrue

\* ... and otherwise sends and tracks it.
LEMMA DeliverTrue ==
  ASSUME TypeOK, TypeOK', Base, Truthful, WarmPoolSize = 0, Advancing, Methodical, NEW t \in Threads,
         Deliver(t) \/ TrackCold(t)
  PROVE  Truthful'
<1> USE DEF TypeOK
<1>0. PICK r \in Instances, j \in Jobs : r = frame[t].rid /\ j = frame[t].job
  BY DEF Deliver, TrackCold, SubmitOK, SubmitSteps
<1>1. CASE Deliver(t) /\ SendCommand(r, j) /\ UNCHANGED modeVars /\ Goto(t, "track_cold") /\ UNCHANGED frame
  <2>1. Going(t) /\ pc[t] = "deliver" /\ pc'[t] = "track_cold" /\ frame'[t] = frame[t] /\ UNCHANGED mode_resources
    BY <1>0, <1>1 DEF Deliver, SendCommand, StartCommand, Going, Others, PreRecord, SubmitSteps, Goto, CallsTypeOK, modeVars,
       provVars, ModeTypeOK, AwsTypeOK
  <2>2. mode_resources[r].status # Absent
    BY <1>0, <2>1 DEF Truthful, LaunchTracked, Tracked
  <2> QED
    BY <1>0, <2>1, <2>2, GoingTrue
<1>2. CASE TrackCold(t) /\ TrackCommand(r, j) /\ Goto(t, "record") /\ UNCHANGED frame
  <2>1. Going(t) /\ pc[t] = "track_cold" /\ pc'[t] = "record" /\ frame'[t] = frame[t] /\ UNCHANGED host
    BY <1>0, <1>2 DEF TrackCold, TrackCommand, Going, Others, PreRecord, SubmitSteps, Goto, CallsTypeOK, awsVars, provVars
  <2>2. host[j] = r
    BY <1>0, <2>1 DEF Sent, Base, HostsKnown
  <2>3. /\ \A i \in Instances : i # r => mode_resources'[i] = mode_resources[i]
        /\ mode_resources'[r] = [status |-> "RUNNING", cmd |-> j]
    BY <1>2 DEF TrackCommand, ModeTypeOK
  <2>4. mode_resources'[r].status = "RUNNING" /\ mode_resources'[r].cmd = j
    BY <2>3
  <2> QED
    BY <1>0, <2>1, <2>2, <2>3, <2>4, GoingTrue DEF Absent
<1>3. CASE Abandon(r) /\ Return(t)
  BY <1>0, <1>3, AbandonTrue DEF Deliver, TrackCold
<1> QED
  BY <1>0, <1>1, <1>2, <1>3 DEF Deliver, TrackCold

\* submit() records its job while no shutdown() is under way.
LEMMA RecordJobTrue ==
  ASSUME TypeOK, TypeOK', Base, Truthful, Advancing, Methodical, Reliable, NEW t \in Threads, RecordJob(t)
  PROVE  Truthful'
<1> USE DEF Truthful
<1>0. PICK r \in Instances, j \in Jobs : r = frame[t].rid /\ j = frame[t].job
  BY DEF RecordJob, TypeOK, SubmitOK, SubmitSteps
<1>1. /\ Others(t) /\ pc[t] = "record" /\ pc'[t] = "save_job"
      /\ UNCHANGED <<mode_resources, host, cancelled>>
  BY DEF RecordJob, Goto, TypeOK, CallsTypeOK, Others, modeVars, awsVars
<1>2. /\ resources' = [resources EXCEPT ![r] = [job |-> j, status |-> "PENDING"]]
      /\ job_map' = [job_map EXCEPT ![j] = [rid |-> r, status |-> "PENDING"]]
  BY <1>0 DEF RecordJob
<1>3. \A u \in Threads : CallTrue(u)'
  <2>1. frame[t] \in Frame /\ \E d : frame'[t] = [frame[t] EXCEPT !.state = d]
    BY DEF RecordJob, TypeOK, CallsTypeOK
  <2>2. /\ frame'[t].told = frame[t].told /\ frame'[t].rids = frame[t].rids /\ frame'[t].todo = frame[t].todo
        /\ frame'[t].method = frame[t].method
    BY <2>1 DEF Frame
  <2>3. frame[t].method = "submit" /\ "submit" \in Calls[t]
    BY <1>1 DEF Methodical, SubmitSteps
  <2>4. CallTrue(t)'
    BY <1>1, <2>2, <2>3, CallOfSubmit DEF SubmitSteps
  <2>5. ASSUME NEW u \in Threads, u # t
        PROVE  CallTrue(u)'
    <3>1. pc[u] # "idle" => frame[u].method # "shutdown"
      BY <2>3, <2>5 DEF Methodical, Reliable
    <3> QED
      BY <1>1, <2>5, <3>1, CallStays DEF Others
  <2> QED
    BY <2>4, <2>5
<1>4. BooksTrue'
  <2>1. ASSUME NEW i \in Instances
        PROVE  Fits(i, resources[i].status)'
    <3>1. CASE i = r
      BY <1>2, <3>1 DEF Fits, TypeOK, BooksTypeOK
    <3>2. CASE i # r
      BY <1>2, <3>2, StatusesStay DEF TypeOK, BooksTypeOK
    <3> QED
      BY <3>1, <3>2
  <2>2. ASSUME NEW k \in Jobs, Mapped(k)'
        PROVE  Fits(job_map[k].rid, job_map[k].status)'
    <3>1. CASE k = j
      BY <1>2, <3>1 DEF Fits, TypeOK, BooksTypeOK
    <3>2. CASE k # j
      BY <1>2, <2>2, <3>2, StatusesStay DEF TypeOK, BooksTypeOK, Mapped
    <3> QED
      BY <3>1, <3>2
  <2> QED
    BY <1>1, <2>1, <2>2, StatusesStay DEF BooksTrue
<1>5. Commanded'
  BY <1>1 DEF Commanded, Tracked, Others, UsesSsmDispatch
<1>6. LaunchTracked'
  BY <1>1 DEF LaunchTracked, Tracked, Others
<1> QED
  BY <1>3, <1>4, <1>5, <1>6

\* submit() returns.
LEMMA SaveJobTrue ==
  ASSUME TypeOK, TypeOK', Base, Truthful, Advancing, NEW t \in Threads, SaveJob(t)
  PROVE  Truthful'
<1> USE DEF Truthful
<1>1. /\ Others(t) /\ pc[t] = "save_job" /\ pc'[t] = "idle" /\ frame'[t] = NoFrame
      /\ UNCHANGED <<mode_resources, host, resources, job_map, cancelled>>
  BY DEF SaveJob, Return, Goto, TypeOK, CallsTypeOK, Others, modeVars, awsVars
<1>2. \A u \in Threads : CallTrue(u)'
  <2>1. CallTrue(t)'
    BY <1>1, CallEmpty DEF NoFrame
  <2>2. ASSUME NEW u \in Threads, u # t
        PROVE  CallTrue(u)'
    BY <1>1, <2>2, CallStays DEF Others, Mapped
  <2> QED
    BY <2>1, <2>2
<1>3. BooksTrue'
  BY <1>1, StatusesStay DEF BooksTrue, Mapped
<1>4. Commanded'
  BY <1>1 DEF Commanded, Tracked, Others, UsesSsmDispatch
<1>5. LaunchTracked'
  BY <1>1 DEF LaunchTracked, Tracked, Others
<1> QED
  BY <1>2, <1>3, <1>4, <1>5

\* Nothing else moves a call; a spot warning is written into the record it is about.
LEMMA EnvironmentTrue ==
  ASSUME TypeOK, TypeOK', Base, Truthful, Advancing, Environment \/ Tick \/ UNCHANGED vars
  PROVE  Truthful'
<1> USE DEF Truthful
<1>1. UNCHANGED <<pc, frame, host, resources, job_map, cancelled>>
  BY DEF Environment, FinishCommand, ShutDownAfter, Reclaim, Terminate, ForgetInstance, HandleInstanceInterruption,
     Tick, vars, awsVars, provVars, callVars
<1>2. \A i \in Instances : /\ mode_resources'[i].cmd = mode_resources[i].cmd /\ (Tracked(i)' <=> Tracked(i))
                           /\ \/ mode_resources'[i].status = mode_resources[i].status
                              \/ mode_resources'[i].status = "INTERRUPTED" /\ i \in warned'
  <2>1. CASE UNCHANGED mode_resources
    BY <2>1 DEF Tracked
  <2>2. ASSUME NEW k \in Instances, HandleInstanceInterruption(k), ~UNCHANGED mode_resources
        PROVE  \A i \in Instances : /\ mode_resources'[i].cmd = mode_resources[i].cmd /\ (Tracked(i)' <=> Tracked(i))
                                    /\ \/ mode_resources'[i].status = mode_resources[i].status
                                       \/ mode_resources'[i].status = "INTERRUPTED" /\ i \in warned'
    <3>1. k \in warned' /\ Tracked(k) /\ mode_resources' = [mode_resources EXCEPT ![k].status = "INTERRUPTED"]
      BY <2>2 DEF HandleInstanceInterruption
    <3>2. \A i \in Instances : mode_resources[i] \in ModeRecord
      BY DEF TypeOK, ModeTypeOK
    <3>3. /\ \A i \in Instances : i # k => mode_resources'[i] = mode_resources[i]
          /\ mode_resources'[k].cmd = mode_resources[k].cmd /\ mode_resources'[k].status = "INTERRUPTED"
      BY <3>1, <3>2 DEF ModeRecord, TypeOK, ModeTypeOK
    <3> QED
      BY <3>1, <3>3 DEF Tracked, Absent
  <2> QED
    BY <2>1, <2>2 DEF Environment, FinishCommand, ShutDownAfter, Reclaim, ForgetInstance, Tick, vars, modeVars
<1>3. \A u \in Threads : CallTrue(u)'
  BY <1>1, CallStays DEF Mapped
<1>4. BooksTrue'
  <2>1. \A i \in Instances : Fits(i, mode_resources[i].status)'
    BY <1>2, StatusesStay DEF Fits
  <2> QED
    BY <1>1, <2>1, StatusesStay DEF BooksTrue, Mapped
<1>5. Commanded'
  BY <1>1, <1>2 DEF Commanded, UsesSsmDispatch
<1>6. LaunchTracked'
  <2>1. \A u \in Threads : pc[u] \in {"deliver", "track_cold", "record"} => frame[u].rid \in Instances
    BY DEF TypeOK, SubmitOK, SubmitSteps
  <2>2. \A i \in Instances : mode_resources[i].status # Absent => mode_resources'[i].status # Absent
    BY <1>2 DEF Tracked
  <2> QED
    BY <1>1, <2>1, <2>2 DEF LaunchTracked, Tracked
<1> QED
  BY <1>3, <1>4, <1>5, <1>6

\* The step lemma of the invariant ...
LEMMA TruthStep ==
  ASSUME CallsAccounted, TypeOK', SentToHost, Truthful, WarmPoolSize = 0, Reliable, [Next]_vars
  PROVE  Truthful'
<1> USE DEF CallsAccounted
<1>1. Advancing
  BY Advance DEF Reliable
<1>2. ASSUME NEW t \in Threads, Continue(t) \/ Call(t)
      PROVE  Truthful'
  <2>1. CASE Turned(t)
    BY <1>1, <2>1, TurnedTrue
  <2>2. ASSUME NEW j \in Jobs, Submit(t, j)
        PROVE  Truthful'
    BY <1>1, <2>2, SubmitTrue
  <2>3. ~TakeWarm(t) /\ ~DispatchWarm(t) /\ ~TrackWarm(t)
    BY DEF TakeWarm, DispatchWarm, TrackWarm, Base, FramesKept
  <2>4. CASE SubmitStep(t) /\ ~Turned(t)
    BY <1>1, <2>3, <2>4, LaunchTrue, WaitTrue, DeliverTrue, RecordJobTrue, SaveJobTrue DEF SubmitStep, Turned
  <2> QED
    BY <1>2, <2>1, <2>2, <2>4 DEF Continue, Call, Turned
<1>3. CASE Environment \/ Tick \/ UNCHANGED vars
  BY <1>1, <1>3, EnvironmentTrue
<1>4. ~Restart
  BY DEF Restart, Fault, Reliable
<1> QED
  BY <1>2, <1>3, <1>4 DEF Next, Rest

\* ... which holds at first.
LEMMA InitTruth == Init => Truthful
BY ModeAssumption DEF Init, ModeInit, Truthful, BooksTrue, Commanded, LaunchTracked, CallTrue, Fits, NoFrame, NoRecord,
   NoModeRecord, NoStatuses, NoEntry, Mapped, Tracked, Absent

\* What the provider believes of an instance is true as long as none is reused.
LEMMA TruthKept ==
  ASSUME Reliable, WarmPoolSize = 0
  PROVE  Spec => [](CallsAccounted /\ SentToHost /\ Truthful)
<1> DEFINE Inv == CallsAccounted /\ SentToHost /\ Truthful
<1>0. FaultsKeepTrack /\ "crash" \notin Faults
  BY DEF Reliable, FaultsKeepTrack
<1>1. Init => Truthful /\ SentToHost
  BY InitTruth, InitHosts
<1>2. Spec => []CallsAccounted
  BY CallsKeepAccounts
<1>3. CallsAccounted /\ CallsAccounted' /\ SentToHost /\ Truthful /\ [Next]_vars => SentToHost' /\ Truthful'
  BY HostStep, TruthStep DEF CallsAccounted
<1> QED
  BY <1>1, <1>2, <1>3, PTL DEF Spec


-----------------------------------------------------------------------------
(* Nobody's work is killed for another's sake.                             *)

\* The commands a step kills are j's with a good reason.
Justified == \A j \in Jobs : command[j] = "inprogress" /\ command'[j] = "killed" => j \in cancelled \/ host[j] \in warned

\* terminate_instances() is called for instances on which nobody's work is lost.
LEMMA SpentJustified ==
  ASSUME TypeOK, Base, SentToHost, WarmPoolSize = 0, NEW S \in SUBSET Instances, Terminate(S),
         \A i \in S : Spent(i)
  PROVE  Justified
<1> SUFFICES ASSUME NEW j \in Jobs, command[j] = "inprogress", command'[j] = "killed"
             PROVE  j \in cancelled \/ host[j] \in warned
  BY DEF Justified
<1>1. host[j] \in S
  BY DEF Terminate, TypeOK, ModeTypeOK, AwsTypeOK
<1>2. \A k \in Jobs : host[k] = host[j] => k = j
  BY <1>1, ModeAssumption DEF Base, HostsApart
<1>3. ~Over(host[j])
  BY <1>2 DEF Over
<1>4. CancelledOn(host[j]) => j \in cancelled
  BY <1>2 DEF CancelledOn, TypeOK
<1> QED
  BY <1>1, <1>3, <1>4 DEF Spent

\* submit() kills no command: the instance it gives up has none.
LEMMA SubmitKillsNone ==
  ASSUME TypeOK, Base, LaunchTracked, WarmPoolSize = 0, NEW t \in Threads, SubmitStep(t)
  PROVE  Justified
<1> USE DEF TypeOK, ModeTypeOK, AwsTypeOK
<1>1. CASE \/ SubmitUninitialized(t) \/ TakeWarm(t) \/ TakeCold(t) \/ TrackWarm(t)
           \/ WaitRunning(t) \/ RecordJob(t) \/ SaveJob(t)
  BY <1>1 DEF SubmitUninitialized, TakeWarm, TakeCold, TrackWarm, TrackCommand, WaitRunning, TrackInstance, WaitFails,
     RecordJob, SaveJob, awsVars, Justified
<1>2. CASE DispatchWarm(t) \/ Create(t)
  BY <1>2 DEF DispatchWarm, SendCommand, Create, RunInstance, RunInstanceFails, StartCommand, Justified
<1>3. CASE Deliver(t)
  <2>1. pc[t] = "deliver" /\ frame[t].rid \in Instances
    BY <1>3 DEF Deliver, SubmitOK, SubmitSteps
  <2>2. \A j \in Jobs : host[j] # frame[t].rid
    BY <2>1 DEF Base, HostsApart
  <2>3. CASE SendCommand(frame[t].rid, frame[t].job)
    BY <2>3 DEF SendCommand, StartCommand, Justified
  <2>4. CASE Abandon(frame[t].rid)
    BY <2>2, <2>4 DEF Abandon, Terminate, Justified
  <2> QED
    BY <1>3, <2>3, <2>4 DEF Deliver
<1>4. CASE TrackCold(t)
  <2>1. TrackCommand(frame[t].rid, frame[t].job)
    BY <1>4 DEF TrackCold, LaunchTracked
  <2> QED
    BY <2>1 DEF TrackCommand, awsVars, Justified
<1> QED
  BY <1>1, <1>2, <1>3, <1>4 DEF SubmitStep

\* cancel() kills commands of cancelled jobs, the cleanup pass those nobody waits
\* for, and shutdown() those it has cancelled itself.
LEMMA TurnedJustified ==
  ASSUME CallsAccounted, SentToHost, Truthful, Reliable, WarmPoolSize = 0, NEW t \in Threads, Turned(t)
  PROVE  Justified
<1> USE DEF CallsAccounted
<1>1. CASE SubmitUninitialized(t) \/ StatusStep(t) \/ StatusBegin(t)
  BY <1>1 DEF SubmitUninitialized, StatusStep, StatusBegin, Group, PollSsm, PollCommands, PollEc2, PollInstances,
     PollRaises, PollCommandsRaises, StatusUpdate, SaveStatus, awsVars, Justified
<1>2. CASE CancelCall(t)
  <2>1. PICK outcome \in CancelOutcomes : CancelJobs(frame[t].rids, outcome)
    BY <1>2 DEF CancelCall
  <2> DEFINE S == {i \in frame[t].rids : Tracked(i)}
  <2>2. S \in SUBSET Instances /\ \A i \in S : Spent(i)
    BY <1>2 DEF CancelCall, Truthful, CallTrue, Spent, TypeOK, CallsTypeOK, Frame
  <2>3. Terminate(S) \/ UNCHANGED command
    BY <2>1 DEF CancelJobs
  <2> HIDE DEF S
  <2> QED
    BY <2>2, <2>3, SpentJustified DEF Justified
<1>3. CASE TerminateDoomed(t)
  <2> DEFINE S == {i \in frame[t].rids : Tracked(i)}
  <2>2. S \in SUBSET Instances /\ \A i \in S : Spent(i)
    BY <1>3 DEF TerminateDoomed, Truthful, CallTrue, TypeOK, CallsTypeOK, Frame
  <2>3. Terminate(S) \/ UNCHANGED command
    BY <1>3 DEF TerminateDoomed, CleanupResources
  <2> HIDE DEF S
  <2> QED
    BY <2>2, <2>3, SpentJustified DEF Justified
<1>4. CASE Infrastructure(t)
  <2>1. \A u \in Threads : pc[u] \notin SubmitSteps
    BY <1>4, NoSubmitInShutdown DEF Infrastructure, ShutdownSteps
  <2>2. \A j \in Jobs : command[j] = "inprogress" => Mapped(j)
    BY <2>1 DEF Accounted, LiveCommand, Sent, SubmitSteps
  <2>3. pc[t] = "infrastructure" /\ frame[t].method = "shutdown"
    BY <1>4 DEF Infrastructure, Methodical, ShutdownSteps
  <2> QED
    BY <2>2, <2>3 DEF Justified, Truthful, CallTrue
<1>5. CASE ScaleInCancels(t) \/ CancelUpdate(t) \/ ScaleIn(t) \/ Shutdown(t) \/ \E J \in SUBSET Jobs : Cancel(t, J)
  BY <1>5 DEF ScaleInCancels, CancelUpdate, ScaleIn, Shutdown, Cancel, awsVars, Justified
<1>6. CASE CleanupStep(t) /\ ~TerminateDoomed(t)
  BY <1>6 DEF CleanupStep, Scan, PoolSnapshot, TransitionSkipped, TransitionToPool,
     TransitionEvicting, Unlist, Forget, SavePass, SavePassMode, Finish, SaveCancel, awsVars, Justified
<1>7. CASE Deinitialize(t) \/ Clear(t) \/ Erase(t)
  BY <1>7 DEF Deinitialize, FinishInfrastructure, Clear, Erase, awsVars, Justified
<1> QED
  BY <1>1, <1>2, <1>3, <1>4, <1>5, <1>6, <1>7 DEF Turned, CancelStep, ShutdownStep

\* AWS kills the commands of the instances it reclaims.
LEMMA EnvironmentJustified ==
  ASSUME TypeOK, Environment \/ Tick \/ UNCHANGED vars
  PROVE  Justified
<1> USE DEF TypeOK, ModeTypeOK, AwsTypeOK
<1>1. ASSUME NEW i \in Instances, Reclaim(i)
      PROVE  Justified
  BY <1>1 DEF Reclaim, Terminate, Justified
<1>2. ASSUME NEW j \in Jobs, FinishCommand(j)
      PROVE  Justified
  BY <1>2 DEF FinishCommand, Justified
<1>3. CASE UNCHANGED command
  BY <1>3 DEF Justified
<1> QED
  BY <1>1, <1>2, <1>3 DEF Environment, ShutDownAfter, ForgetInstance, HandleInstanceInterruption, Tick, vars, awsVars

\* NoCollateralKill without its exception for a late cancel().
KilledForCause == \A j \in Jobs : command[j] = "killed" => j \in cancelled \/ host[j] \in warned

\* With no instance ever reused, a command dies only with its own job's
\* cancellation or with its host's reclaim: no cleanup pass, started by whatever
\* call, and no cancel() of another job, however late, terminates an instance
\* whose command is still wanted.
THEOREM WorkKilledOnlyForCause ==
  ASSUME Reliable, WarmPoolSize = 0
  PROVE  Spec => [](KilledForCause /\ NoCollateralKill)
<1>1. Init => KilledForCause
  BY DEF Init, ModeInit, KilledForCause
<1>2. ASSUME CallsAccounted, TypeOK', SentToHost, Truthful, KilledForCause, [Next]_vars
      PROVE  KilledForCause'
  <2>1. Justified
    <3>1. ASSUME NEW t \in Threads, Continue(t) \/ Call(t)
          PROVE  Justified
      <4>1. CASE \E j \in Jobs : Submit(t, j)
        BY <4>1 DEF Submit, awsVars, Justified
      <4> QED
        BY <1>2, <3>1, <4>1, SubmitKillsNone, TurnedJustified DEF Continue, Call, Turned, CallsAccounted, Truthful
    <3>2. ~Restart
      BY DEF Restart, Fault, Reliable
    <3> QED
      BY <1>2, <3>1, <3>2, EnvironmentJustified DEF Next, Rest, CallsAccounted
  <2>2. Advancing
    BY <1>2, Advance DEF CallsAccounted, Reliable
  <2>3. Ending \/ \E t \in Threads, i \in Instances : Sending(t, i)
    BY <1>2, CommandStep DEF CallsAccounted
  <2> SUFFICES ASSUME NEW j \in Jobs, command'[j] = "killed"
               PROVE  j \in cancelled' \/ host'[j] \in warned'
    BY DEF KilledForCause
  <2>4. command[j] = "killed" \/ command[j] = "inprogress"
    BY <1>2, <2>3 DEF Ending, Sending, StartCommand, CallsAccounted, TypeOK, ModeTypeOK, AwsTypeOK
  <2>5. host[j] \in Instances /\ host'[j] = host[j]
    BY <1>2, <2>2, <2>4 DEF SentToHost, Advancing
  <2> QED
    BY <1>2, <2>1, <2>2, <2>4, <2>5 DEF Justified, KilledForCause, Advancing
<1>3. Spec => [](CallsAccounted /\ SentToHost /\ Truthful)
  BY TruthKept
<1>4. CallsAccounted => TypeOK
  BY DEF CallsAccounted
<1>5. KilledForCause => NoCollateralKill
  BY DEF KilledForCause, NoCollateralKill
<1> QED
  BY <1>1, <1>2, <1>3, <1>4, <1>5, PTL DEF Spec


-----------------------------------------------------------------------------
(* A job reported completed is.                                            *)

\* What COMPLETED claims of j.
Done(j) == IF UsesSsmDispatch THEN command[j] = "success" ELSE command[j] \in {"success", "failed", "killed"}

\* A status() under way holds a true answer for every job it knows over, and asks
\* for the others.
Informed(t) == Answered(t) /\ \A j \in Jobs : frame[t].known[j] = "COMPLETED" => Done(j)

\* The owners have been told so.
OwnersInformed == (\A t \in Threads : Informed(t)) /\ \A j \in Jobs : reported[j] = "COMPLETED" => Done(j)

\* Completed jobs stay completed.
LEMMA DoneStays ==
  ASSUME Advancing, NEW j \in Jobs, Done(j)
  PROVE  Done(j)'
BY DEF Advancing, Done, UsesSsmDispatch

\* COMPLETED of a job's instance is COMPLETED of the job.
LEMMA FitsIsDone ==
  ASSUME TypeOK, Base, WarmPoolSize = 0, NEW j \in Jobs, Mapped(j), Fits(job_map[j].rid, "COMPLETED")
  PROVE  Done(j)
<1>1. host[j] = job_map[j].rid /\ host[j] \in Instances
  BY BooksSubmitted
<1>2. \A k \in Jobs : host[k] = host[j] => k = j
  BY <1>1, ModeAssumption DEF Base, HostsApart
<1> QED
  BY <1>1, <1>2 DEF Fits, Done, Succeeded, Over

\* What a call knows stays true as long as it asks the same, or nothing.
LEMMA KnownStays ==
  ASSUME Advancing, NEW t \in Threads, Informed(t), Answered(t)',
         frame'[t].known = frame[t].known \/ frame'[t].known = NoFrame.known
  PROVE  Informed(t)'
<1>1. \A j \in Jobs : NoFrame.known[j] # "COMPLETED"
  BY DEF NoFrame, Absent
<1>2. \A j \in Jobs : frame'[t].known[j] = "COMPLETED" => Done(j)'
  BY <1>1, DoneStays DEF Informed
<1> QED
  BY <1>2 DEF Informed

\* Most steps leave what is known alone.
KnownSame(t) == pc'[t] \notin Asking /\ (frame'[t].known = frame[t].known \/ frame'[t].known = NoFrame.known)

\* submit() asks nothing.
LEMMA SubmitKnown ==
  ASSUME TypeOK, TypeOK', NEW t \in Threads, SubmitStep(t) \/ \E j \in Jobs : Submit(t, j)
  PROVE  KnownSame(t)
<1> USE DEF TypeOK, CallsTypeOK, Asking
<1>1. frame[t] \in Frame
  OBVIOUS
<1>2. CASE \E j \in Jobs : Submit(t, j)
  BY <1>2 DEF Submit, Goto, KnownSame, NoFrame
<1>3. CASE SubmitUninitialized(t) \/ SaveJob(t)
  BY <1>3 DEF SubmitUninitialized, SaveJob, Return, Goto, KnownSame
<1>4. CASE TakeWarm(t) \/ TakeCold(t) \/ DispatchWarm(t) \/ TrackWarm(t)
  <2>1. frame'[t] \in {frame[t], NoFrame} \/ frame'[t] = [frame[t] EXCEPT !.rid = Head(warm_instances)]
    BY <1>4 DEF TakeWarm, TakeCold, DispatchWarm, TrackWarm, Return
  <2> QED
    BY <1>1, <1>4, <2>1 DEF TakeWarm, TakeCold, DispatchWarm, TrackWarm, Return, Goto, KnownSame, Frame
<1>5. CASE Create(t) \/ WaitRunning(t) \/ Deliver(t) \/ TrackCold(t)
  <2>1. frame'[t] \in {frame[t], NoFrame} \/ \E i \in Instances : frame'[t] = [frame[t] EXCEPT !.rid = i]
    BY <1>5 DEF Create, WaitRunning, Deliver, TrackCold, Return
  <2> QED
    BY <1>1, <1>5, <2>1 DEF Create, WaitRunning, Deliver, TrackCold, Return, Goto, KnownSame, Frame
<1>6. CASE RecordJob(t)
  <2>1. \E d : frame'[t] = [frame[t] EXCEPT !.state = d]
    BY <1>6 DEF RecordJob
  <2> QED
    BY <1>1, <1>6, <2>1 DEF RecordJob, Goto, KnownSame, Frame
<1> QED
  BY <1>2, <1>3, <1>4, <1>5, <1>6 DEF SubmitStep

\* A pass begins with nothing known.
LEMMA ToCleanupKnown ==
  ASSUME TypeOK, NEW t \in Threads, ToCleanup(t)
  PROVE  KnownSame(t)
BY DEF TypeOK, CallsTypeOK, ToCleanup, Return, Goto, KnownSame, NoFrame, Asking

\* Neither does cancel(), nor a pass, nor shutdown() ask anything.
LEMMA TurnedKnown ==
  ASSUME TypeOK, Truthful, NEW t \in Threads, Turned(t),
         ~(StatusBegin(t) \/ Group(t) \/ PollSsm(t) \/ PollEc2(t))
  PROVE  KnownSame(t)
<1> USE DEF TypeOK, CallsTypeOK, Asking
<1>1. frame[t] \in Frame
  OBVIOUS
<1>2. CASE SubmitUninitialized(t) \/ PollRaises(t) \/ SaveStatus(t) \/ CancelUpdate(t)
  BY <1>2, ToCleanupKnown DEF SubmitUninitialized, Return, Goto, KnownSame, PollRaises, SaveStatus, CancelUpdate
<1>3. CASE StatusUpdate(t)
  BY <1>3 DEF StatusUpdate, Goto, KnownSame, NoFrame
<1>4. CASE ScaleInCancels(t) \/ ScaleIn(t) \/ Shutdown(t) \/ \E J \in SUBSET Jobs : Cancel(t, J)
  <2>1. ASSUME NEW m, NEW J, Collect(t, m, J)
        PROVE  KnownSame(t)
    BY <2>1 DEF Collect, Goto, KnownSame, NoFrame
  <2>2. CASE ScaleIn(t)
    BY <2>2 DEF ScaleIn, Goto, KnownSame, NoFrame
  <2>3. CASE Shutdown(t)
    BY <2>1, <2>3 DEF Shutdown, Goto, KnownSame, NoFrame
  <2> QED
    BY <1>4, <2>1, <2>2, <2>3 DEF ScaleInCancels, Cancel
<1>5. CASE CancelCall(t)
  <2>1. \E m : frame'[t] = [frame[t] EXCEPT !.told = m]
    BY <1>5 DEF CancelCall
  <2> QED
    BY <1>1, <1>5, <2>1 DEF CancelCall, Goto, KnownSame, Frame
<1>6. CASE Scan(t)
  <2>1. pc'[t] \in {"terminate", "unlist", "pool", "forget", "idle", "finish"}
    BY <1>6 DEF Scan, AfterPool, Goto
  <2>2. frame'[t] = NoFrame \/ \E a, b : frame'[t] = [frame[t] EXCEPT !.rids = a, !.todo = b]
    BY <1>6 DEF Scan
  <2> QED
    BY <1>1, <2>1, <2>2 DEF KnownSame, Frame
<1>7. CASE TerminateDoomed(t) \/ SavePass(t) \/ Infrastructure(t) \/ Deinitialize(t)
  BY <1>7 DEF TerminateDoomed, SavePass, Infrastructure, Deinitialize, Goto, KnownSame
<1>8. CASE Forget(t)
  <2>1. \E d : frame'[t] = [frame[t] EXCEPT !.state = d]
    BY <1>8 DEF Forget
  <2> QED
    BY <1>1, <1>8, <2>1 DEF Forget, Goto, KnownSame, Frame
<1>9. CASE SavePassMode(t) \/ Finish(t) \/ SaveCancel(t) \/ Clear(t) \/ Erase(t)
  BY <1>9 DEF SavePassMode, Finish, SaveCancel, Clear, Erase, Return, Goto, KnownSame, NoFrame
<1> QED
  BY <1>2, <1>3, <1>4, <1>5, <1>6, <1>7, <1>8, <1>9, NoPoolSteps DEF Turned, StatusStep, CancelStep, CleanupStep, ShutdownStep


\* status() begins with what job_map says of the jobs that are over.
LEMMA BeginInformed ==
  ASSUME TypeOK, Base, Truthful, WarmPoolSize = 0, Advancing, NEW t \in Threads, StatusBegin(t), Answered(t)'
  PROVE  Informed(t)'
<1> DEFINE R == {job_map[j].rid : j \in {j \in AcceptedJobs : Mapped(j)} \ Settled}
           K == [j \in Jobs |-> IF j \in Settled THEN job_map[j].status ELSE Absent]
<1>1. frame'[t] = [NoFrame EXCEPT !.method = "status", !.jobs = AcceptedJobs, !.rids = R, !.known = K]
  BY DEF StatusBegin, TypeOK, CallsTypeOK
<1>2. \A j \in Jobs : K[j] = "COMPLETED" => Done(j)'
  <2>1. ASSUME NEW j \in Jobs, job_map[j].status = "COMPLETED"
        PROVE  Done(j)'
    <3>1. Mapped(j) /\ Fits(job_map[j].rid, "COMPLETED")
      BY <2>1 DEF Mapped, Absent, Truthful, BooksTrue
    <3> QED
      BY <3>1, FitsIsDone, DoneStays
  <2> QED
    BY <2>1 DEF Absent
<1> HIDE DEF R, K
<1>3. frame'[t].known = K
  BY <1>1 DEF NoFrame
<1> QED
  BY <1>2, <1>3 DEF Informed

\* Grouping and polling add to what it knows nothing that it does not hear.
LEMMA AskingKnown ==
  ASSUME TypeOK, NEW t \in Threads, Group(t) \/ PollSsm(t) \/ PollEc2(t)
  PROVE  frame'[t].known = frame[t].known
<1>1. frame[t] \in Frame
  BY DEF TypeOK, CallsTypeOK
<1>2. CASE Group(t)
  BY <1>1, <1>2 DEF Group, TypeOK, CallsTypeOK, Frame
<1>3. ASSUME NEW m, Heard(t, m)
      PROVE  frame'[t].known = frame[t].known
  BY <1>1, <1>3 DEF Heard, TypeOK, CallsTypeOK, Frame
<1> QED
  BY <1>2, <1>3 DEF PollSsm, PollEc2

\* The verdict COMPLETED is given to jobs that are.
LEMMA VerdictTrue ==
  ASSUME TypeOK, Base, Truthful, WarmPoolSize = 0, NEW t \in Threads, Informed(t), pc[t] = "update",
         NEW j \in frame[t].jobs, Verdict(t, j) = "COMPLETED"
  PROVE  Done(j)
<1>1. j \in Jobs
  BY DEF TypeOK, CallsTypeOK, Frame
<1>2. CASE frame[t].known[j] # Absent
  BY <1>1, <1>2 DEF Verdict, Informed
<1>3. CASE frame[t].known[j] = Absent /\ Mapped(j)
  <2>1. job_map[j].rid \in frame[t].rids /\ job_map[j].rid \in Instances
    BY <1>1, <1>3, BooksSubmitted DEF Informed, Answered, Asking
  <2>2. frame[t].told[job_map[j].rid] # Absent
    BY <2>1 DEF Informed, Answered
  <2>3. frame[t].told[job_map[j].rid] = "COMPLETED"
    BY <1>3, <2>2 DEF Verdict
  <2> QED
    BY <1>1, <1>3, <2>1, <2>3, FitsIsDone DEF Truthful, CallTrue
<1>4. CASE frame[t].known[j] = Absent /\ ~Mapped(j)
  BY <1>4 DEF Verdict
<1> QED
  BY <1>2, <1>3, <1>4

\* Owners are told statuses by submit() and status() only.
LEMMA QuietReports ==
  ASSUME NEW t \in Threads, Continue(t) \/ Call(t), ~(SaveJob(t) \/ StatusUpdate(t) \/ PollRaises(t))
  PROVE  UNCHANGED reported
<1>1. CASE SubmitStep(t) \/ \E k \in Jobs : Submit(t, k)
  BY <1>1 DEF SubmitStep, Submit, SubmitUninitialized, TakeWarm, TakeCold, DispatchWarm, TrackWarm,
     Create, WaitRunning, Deliver, TrackCold, RecordJob
<1>2. CASE StatusStep(t) \/ StatusBegin(t)
  BY <1>2 DEF StatusStep, StatusBegin, Group, PollSsm, PollEc2, SaveStatus, Heard
<1>3. CASE CancelStep(t) \/ ScaleIn(t) \/ Shutdown(t) \/ \E J \in SUBSET Jobs : Cancel(t, J)
  BY <1>3 DEF CancelStep, ScaleInCancels, CancelCall, CancelUpdate, ScaleIn, Shutdown, Cancel
<1>4. CASE CleanupStep(t) \/ ShutdownStep(t)
  BY <1>4 DEF CleanupStep, Scan, PoolSnapshot, TransitionSkipped, TransitionToPool,
     TransitionEvicting, Unlist, TerminateDoomed, Forget, SavePass, SavePassMode, Finish, SaveCancel,
     ShutdownStep, Infrastructure, Deinitialize, Clear, Erase
<1> QED
  BY <1>1, <1>2, <1>3, <1>4 DEF Continue, Call

\* Owners are told what the call knows.
LEMMA ReportedTrue ==
  ASSUME TypeOK, Base, Truthful, WarmPoolSize = 0, "crash" \notin Faults, OwnersInformed, [Next]_vars,
         NEW j \in Jobs, reported'[j] = "COMPLETED"
  PROVE  Done(j)
<1>1. CASE UNCHANGED reported
  BY <1>1 DEF OwnersInformed
<1>2. ASSUME NEW t \in Threads, SaveJob(t)
      PROVE  Done(j)
  BY <1>2 DEF SaveJob, OwnersInformed, TypeOK
<1>3. ASSUME NEW t \in Threads, StatusUpdate(t)
      PROVE  Done(j)
  BY <1>3, VerdictTrue DEF StatusUpdate, OwnersInformed
<1>4. ASSUME NEW t \in Threads, PollRaises(t)
      PROVE  Done(j)
  BY <1>4 DEF PollRaises, OwnersInformed, Informed
<1>5. ASSUME NEW t \in Threads, Continue(t) \/ Call(t), ~(SaveJob(t) \/ StatusUpdate(t) \/ PollRaises(t))
      PROVE  UNCHANGED reported
  BY <1>5, QuietReports
<1>6. CASE Environment \/ Tick \/ UNCHANGED vars
  BY <1>1, <1>6 DEF Environment, Tick, vars
<1>7. ~Restart
  BY DEF Restart, Fault
<1> QED
  BY <1>1, <1>2, <1>3, <1>4, <1>5, <1>6, <1>7 DEF Next, Rest

\* Every step leaves every call informed.
LEMMA InformedStep ==
  ASSUME CallsAccounted, TypeOK', SentToHost, Truthful, WarmPoolSize = 0, Reliable, PollsAnswer, OwnersInformed, [Next]_vars
  PROVE  OwnersInformed'
<1> USE DEF CallsAccounted
<1>1. Advancing /\ MappedSame
  BY Advance, MappedStays DEF Reliable
<1>2. \A j \in Jobs : reported'[j] = "COMPLETED" => Done(j)'
  BY <1>1, ReportedTrue, DoneStays DEF Reliable
<1>3. \A u \in Threads : Answered(u)'
  BY AnsweredStep DEF Reliable, OwnersInformed, Informed
<1>4. ASSUME NEW t \in Threads, Continue(t) \/ Call(t)
      PROVE  \A u \in Threads : Informed(u)'
  <2>1. Informed(t)'
    <3>1. CASE StatusBegin(t)
      BY <1>1, <1>3, <3>1, BeginInformed
    <3>2. CASE Group(t) \/ PollSsm(t) \/ PollEc2(t)
      BY <1>1, <1>3, <3>2, AskingKnown, KnownStays DEF OwnersInformed
    <3>3. CASE ~(StatusBegin(t) \/ Group(t) \/ PollSsm(t) \/ PollEc2(t))
      <4>1. KnownSame(t)
        BY <1>4, <3>3, SubmitKnown, TurnedKnown DEF Continue, Call, Turned
      <4> QED
        BY <1>1, <1>3, <4>1, KnownStays DEF KnownSame, OwnersInformed
    <3> QED
      BY <3>1, <3>2, <3>3
  <2>2. Others(t)
    BY <1>4, StepsAlone
  <2> QED
    BY <1>1, <1>3, <2>1, <2>2, KnownStays DEF Others, OwnersInformed
<1>5. CASE Environment \/ Tick \/ UNCHANGED vars
  <2>1. UNCHANGED <<pc, frame>>
    BY <1>5 DEF Environment, Tick, vars, callVars
  <2> QED
    BY <1>1, <1>2, <1>3, <2>1, KnownStays DEF OwnersInformed
<1>6. ~Restart
  BY DEF Restart, Fault, Reliable
<1> QED
  BY <1>2, <1>4, <1>5, <1>6 DEF Next, Rest, OwnersInformed

\* A job reported COMPLETED by status() has succeeded or, in UserData mode, where
\* only the instance can be asked, is over.
THEOREM CompletedIsOver ==
  ASSUME Reliable, WarmPoolSize = 0, PollsAnswer
  PROVE  Spec => []NoFalseCompletion
<1>1. Init => OwnersInformed
  BY DEF Init, OwnersInformed, Informed, Answered, NoFrame, Absent, Asking
<1>2. CallsAccounted /\ CallsAccounted' /\ SentToHost /\ Truthful /\ OwnersInformed /\ [Next]_vars => OwnersInformed'
  BY InformedStep DEF CallsAccounted
<1>3. OwnersInformed => NoFalseCompletion
  BY DEF OwnersInformed, NoFalseCompletion, Done
<1>4. Spec => [](CallsAccounted /\ SentToHost /\ Truthful)
  BY TruthKept
<1> QED
  BY <1>1, <1>2, <1>3, <1>4, PTL DEF Spec


-----------------------------------------------------------------------------
(* The provider's book and the mode's.                                     *)

\* Between its tracking by the mode and its recording by the provider, or between
\* its removal from one book and from the other, an instance is in the hands of
\* a call.
Launched == {"deliver", "track_cold", "record"}
BooksKept ==
  \A i \in Instances :
    /\ Tracked(i) /\ ~Recorded(i) => \E t \in Threads : pc[t] \in Launched /\ frame[t].rid = i
    /\ Recorded(i) /\ ~Tracked(i) =>
         \E t \in Threads : (pc[t] = "forget" /\ i \in frame[t].rids) \/ pc[t] \in {"deinitialize", "clear"}

\* A step of t keeps this if what its own call answers for is answered for.
LEMMA RecordsStay ==
  ASSUME BooksKept, NEW t \in Threads, Others(t),
         \A i \in Instances : Tracked(i)' /\ ~Recorded(i)' =>
           \/ Tracked(i) /\ ~Recorded(i) /\ ~(pc[t] \in Launched /\ frame[t].rid = i)
           \/ pc'[t] \in Launched /\ frame'[t].rid = i,
         \A i \in Instances : Recorded(i)' /\ ~Tracked(i)' =>
           \/ /\ Recorded(i) /\ ~Tracked(i) /\ ~(pc[t] = "forget" /\ i \in frame[t].rids)
              /\ pc[t] \notin {"deinitialize", "clear"}
           \/ pc'[t] = "forget" /\ i \in frame'[t].rids
           \/ pc'[t] \in {"deinitialize", "clear"}
  PROVE  BooksKept'
BY DEF BooksKept, Others

\* A step after which both books have records of the same instances as before.
BothSame == \A i \in Instances : (Tracked(i)' <=> Tracked(i)) /\ (Recorded(i)' <=> Recorded(i))

\* What a poll or a cancellation writes into a record is a status.
LEMMA PollsKeepRecords ==
  ASSUME TypeOK, NEW t \in Threads, PollSsm(t) \/ PollEc2(t) \/ PollRaises(t) \/ CancelCall(t)
  PROVE  \A i \in Instances : Tracked(i) => Tracked(i)'
<1> USE DEF TypeOK
<1>1. frame[t].todo \in SUBSET Instances
  BY DEF CallsTypeOK, Frame
<1>2. \A i \in Instances : mode_resources[i] \in ModeRecord
  BY DEF ModeTypeOK
<1>3. \A r \in ModeRecord : \A s : [r EXCEPT !.status = s].status = s
  BY DEF ModeRecord
<1>4. CASE PollSsm(t)
  <2>1. PICK answer \in [frame[t].todo -> Answers] : PollCommands(frame[t].todo, answer)
    BY <1>4 DEF PollSsm
  <2>2. \A i \in frame[t].todo : answer[i] # Absent
    BY DEF Answers, Absent
  <2> QED
    BY <1>1, <2>1, <2>2, AnswersWritten DEF PollCommands, Tracked
<1>5. CASE PollRaises(t)
  <2>1. PICK done \in SUBSET frame[t].todo : \E answer \in [done -> Answers] :
          PollCommandsRaises(frame[t].todo, done, answer)
    BY <1>5 DEF PollRaises
  <2>2. PICK answer \in [done -> Answers] : PollCommandsRaises(frame[t].todo, done, answer)
    BY <2>1
  <2>3. done \in SUBSET Instances /\ \A i \in done : answer[i] # Absent
    BY <1>1 DEF Answers, Absent
  <2> QED
    BY <2>2, <2>3, AnswersWritten DEF PollCommandsRaises, Tracked
<1>6. CASE PollEc2(t)
  <2>1. PICK outcome \in PollOutcomes : PollInstances(frame[t].todo, outcome)
    BY <1>6 DEF PollEc2
  <2> DEFINE m == InstanceStatuses(frame[t].todo, outcome)
  <2>2. \A i \in Instances : \/ mode_resources'[i] = mode_resources[i]
                             \/ m[i] # Absent /\ mode_resources'[i] = [mode_resources[i] EXCEPT !.status = m[i]]
    BY <2>1 DEF PollInstances
  <2> HIDE DEF m
  <2>3. ASSUME NEW i \in Instances, Tracked(i) PROVE Tracked(i)'
    <3>1. CASE mode_resources'[i] = [mode_resources[i] EXCEPT !.status = m[i]] /\ m[i] # Absent
      BY <1>2, <1>3, <3>1 DEF Tracked
    <3> QED
      BY <2>2, <2>3, <3>1 DEF Tracked
  <2> QED
    BY <2>3
<1>7. CASE CancelCall(t)
  <2>1. PICK outcome \in CancelOutcomes : CancelJobs(frame[t].rids, outcome)
    BY <1>7 DEF CancelCall
  <2>2. \A i \in Instances : \/ mode_resources'[i] = mode_resources[i]
                             \/ mode_resources'[i] = [mode_resources[i] EXCEPT !.status = outcome]
    BY <2>1 DEF CancelJobs
  <2>3. ASSUME NEW i \in Instances, Tracked(i) PROVE Tracked(i)'
    <3>1. CASE mode_resources'[i] = [mode_resources[i] EXCEPT !.status = outcome]
      BY <1>2, <1>3, <3>1 DEF Tracked, CancelOutcomes, Absent
    <3> QED
      BY <2>2, <2>3, <3>1 DEF Tracked
  <2> QED
    BY <2>3
<1> QED
  BY <1>4, <1>5, <1>6, <1>7

\* Most steps leave the two books with the records they have.
LEMMA TurnedSame ==
  ASSUME TypeOK, TypeOK', Base, Truthful, NEW t \in Threads, Turned(t),
         ~(TerminateDoomed(t) \/ Forget(t) \/ Infrastructure(t) \/ Clear(t) \/ Erase(t))
  PROVE  BothSame
<1>1. Fading /\ Dropping
  BY TurnedTurns
<1>2. \A i \in Instances : Recorded(i) => Recorded(i)'
  <2>1. CASE StatusStep(t) \/ StatusBegin(t) \/ SubmitUninitialized(t)
    BY <2>1, PlainStatus DEF Plain
  <2>2. CASE ScaleIn(t) \/ CancelUpdate(t) \/ CleanupStep(t)
    BY <2>2, PlainCleanup DEF Plain
  <2>3. CASE ScaleInCancels(t) \/ CancelCall(t) \/ Shutdown(t) \/ (\E J \in SUBSET Jobs : Cancel(t, J)) \/ Deinitialize(t)
    BY <2>3 DEF ScaleInCancels, CancelCall, Shutdown, Cancel, Deinitialize, provVars, Recorded
  <2> QED
    BY <2>1, <2>2, <2>3 DEF Turned, CancelStep, ShutdownStep
<1>3. \A i \in Instances : Tracked(i) => Tracked(i)'
  <2>1. CASE PollSsm(t) \/ PollEc2(t) \/ PollRaises(t) \/ CancelCall(t)
    BY <2>1, PollsKeepRecords
  <2>2. CASE UNCHANGED mode_resources
    BY <2>2 DEF Tracked
  <2>3. CASE SubmitUninitialized(t) \/ StatusBegin(t) \/ Group(t) \/ StatusUpdate(t) \/ SaveStatus(t)
    BY <2>2, <2>3 DEF SubmitUninitialized, StatusBegin, Group, StatusUpdate, SaveStatus, modeVars
  <2>4. CASE ScaleInCancels(t) \/ CancelUpdate(t) \/ ScaleIn(t) \/ Shutdown(t) \/ \E J \in SUBSET Jobs : Cancel(t, J)
    BY <2>2, <2>4 DEF ScaleInCancels, CancelUpdate, ScaleIn, Shutdown, Cancel, modeVars
  <2>5. CASE CleanupStep(t) \/ Deinitialize(t)
    BY <2>2, <2>5 DEF CleanupStep, Scan, PoolSnapshot, TransitionSkipped, TransitionToPool,
       TransitionEvicting, Unlist, SavePass, SavePassMode, Finish, SaveCancel, Deinitialize, FinishInfrastructure, modeVars
  <2> QED
    BY <2>1, <2>3, <2>4, <2>5 DEF Turned, StatusStep, CancelStep, ShutdownStep
<1> QED
  BY <1>1, <1>2, <1>3 DEF Fading, Dropping, BothSame

\* The mode's record goes first, then the provider's.
LEMMA DropsBooked ==
  ASSUME CallsAccounted, TypeOK', Truthful, BooksKept, NEW t \in Threads, Turned(t),
         TerminateDoomed(t) \/ Forget(t) \/ Infrastructure(t) \/ Deinitialize(t) \/ Clear(t) \/ Erase(t)
  PROVE  BooksKept'
<1> USE DEF CallsAccounted
<1>0. Others(t)
  BY TurnedTurns DEF Turning
<1>1. CASE TerminateDoomed(t)
  <2>1. pc[t] = "terminate" /\ pc'[t] = "forget" /\ frame'[t] = frame[t] /\ UNCHANGED resources
    BY <1>1 DEF TerminateDoomed, Goto, TypeOK, CallsTypeOK, provVars
  <2>2. \A i \in Instances : mode_resources'[i] = mode_resources[i] \/ (i \in frame[t].rids /\ mode_resources'[i] = NoModeRecord)
    BY <1>1 DEF TerminateDoomed, CleanupResources, TypeOK, ModeTypeOK
  <2>3. \A i \in Instances : (Tracked(i)' => Tracked(i)) /\ (~Tracked(i)' => ~Tracked(i) \/ i \in frame[t].rids)
    BY <2>2 DEF Tracked, NoModeRecord
  <2> QED
    BY <1>0, <2>1, <2>3, RecordsStay DEF Recorded, Launched
<1>2. CASE Forget(t)
  <2>1. pc[t] = "forget" /\ \A i \in Instances : Tracked(i)' <=> Tracked(i)
    BY <1>2 DEF Forget, modeVars, Tracked
  <2>2. \A i \in Instances : IF i \in frame[t].rids THEN ~Recorded(i)' ELSE Recorded(i)' <=> Recorded(i)
    BY <1>2 DEF Forget, Recorded, NoRecord
  <2>3. \A i \in Instances : i \in frame[t].rids => ~Tracked(i)
    BY <2>1 DEF Accounted, ForgetsDead
  <2> QED
    BY <1>0, <2>1, <2>2, <2>3, RecordsStay DEF Launched
<1>3. CASE Infrastructure(t)
  <2>1. pc[t] = "infrastructure" /\ pc'[t] = "deinitialize" /\ UNCHANGED resources
    BY <1>3 DEF Infrastructure, Goto, TypeOK, CallsTypeOK, provVars
  <2>2. \A i \in Instances : Tracked(i)' => Tracked(i)
    BY TurnedTurns DEF Fading
  <2> QED
    BY <1>0, <2>1, <2>2, RecordsStay DEF Recorded, Launched
<1>4. CASE Deinitialize(t)
  <2>1. pc[t] = "deinitialize" /\ pc'[t] = "clear" /\ UNCHANGED <<resources, mode_resources>>
    BY <1>4 DEF Deinitialize, FinishInfrastructure, Goto, TypeOK, CallsTypeOK, provVars
  <2> QED
    BY <1>0, <2>1, RecordsStay DEF Recorded, Tracked, Launched
<1>5. CASE Clear(t)
  <2>1. /\ pc[t] = "clear" /\ UNCHANGED mode_resources
        /\ \A i \in Instances : ~Recorded(i)'
    BY <1>5 DEF Clear, modeVars, Recorded, NoRecord
  <2>2. \A i \in Instances : ~Tracked(i)
    BY <2>1 DEF Accounted, ShutdownOver
  <2> QED
    BY <1>0, <2>1, <2>2, RecordsStay DEF Tracked
<1>6. CASE Erase(t)
  <2>1. pc[t] = "erase" /\ UNCHANGED <<mode_resources, resources>>
    BY <1>6 DEF Erase, provVars
  <2> QED
    BY <1>0, <2>1, RecordsStay DEF Recorded, Tracked, Launched
<1> QED
  BY <1>1, <1>2, <1>3, <1>4, <1>5, <1>6

\* A new instance is tracked before it is recorded, and dropped only while it is
\* not recorded.
LEMMA SubmitBooked ==
  ASSUME CallsAccounted, TypeOK', Truthful, WarmPoolSize = 0, BooksKept, NEW t \in Threads, Others(t),
         \/ Create(t) \/ WaitRunning(t) \/ Deliver(t) \/ TrackCold(t) \/ RecordJob(t)
         \/ SaveJob(t) \/ TakeCold(t) \/ \E j \in Jobs : Submit(t, j)
  PROVE  BooksKept'
<1> USE DEF CallsAccounted, TypeOK
<1>1. CASE SaveJob(t) \/ TakeCold(t) \/ Create(t) \/ \E j \in Jobs : Submit(t, j)
  <2>1. pc[t] \in {"save_job", "take", "create", "idle"} /\ BothSame
    BY <1>1 DEF SaveJob, TakeCold, Create, RunInstance, RunInstanceFails, Submit, Begin, modeVars, provVars, BothSame,
       Tracked, Recorded
  <2> QED
    BY <2>1, RecordsStay DEF BothSame, Launched
<1>2. CASE WaitRunning(t)
  <2>0. PICK r \in Instances : r = frame[t].rid
    BY <1>2 DEF WaitRunning, SubmitOK, SubmitSteps
  <2>1. pc[t] = "wait" /\ \A i \in Instances : Recorded(i)' <=> Recorded(i)
    BY <1>2 DEF WaitRunning, provVars, Recorded
  <2>2. CASE WaitFails(r)
    BY <2>1, <2>2, RecordsStay DEF WaitFails, modeVars, Tracked, Launched
  <2>3. CASE TrackInstance(r) /\ Goto(t, IF UsesSsmDispatch THEN "deliver" ELSE "record") /\ UNCHANGED frame
    <3>1. pc'[t] \in Launched /\ frame'[t].rid = r
      BY <2>0, <2>3 DEF Goto, CallsTypeOK, Launched
    <3>2. /\ \A i \in Instances : i # r => mode_resources'[i] = mode_resources[i]
          /\ mode_resources'[r].status = "PENDING"
      BY <2>3 DEF TrackInstance, ModeTypeOK
    <3>3. (\A i \in Instances : i # r => (Tracked(i)' <=> Tracked(i))) /\ Tracked(r)'
      BY <3>2 DEF Tracked, Absent
    <3> QED
      BY <2>1, <3>1, <3>3, RecordsStay DEF Launched
  <2> QED
    BY <1>2, <2>0, <2>2, <2>3 DEF WaitRunning
<1>3. CASE Deliver(t) \/ TrackCold(t)
  <2>0. PICK r \in Instances : r = frame[t].rid
    BY <1>3 DEF Deliver, TrackCold, SubmitOK, SubmitSteps
  <2>1. pc[t] \in {"deliver", "track_cold"} /\ \A i \in Instances : Recorded(i)' <=> Recorded(i)
    BY <1>3 DEF Deliver, TrackCold, provVars, Recorded
  <2>2. ~Recorded(r)
    BY <2>0, <2>1, NewNotSubmitted, BooksSubmitted
  <2>3. CASE pc'[t] \in Launched /\ frame'[t].rid = r /\ \A i \in Instances : Tracked(i)' <=> Tracked(i)
    BY <2>0, <2>1, <2>3, RecordsStay DEF Launched
  <2>4. CASE Abandon(r)
    <3>1. \A i \in Instances : IF i = r THEN ~Tracked(i)' ELSE Tracked(i)' <=> Tracked(i)
      BY <2>4 DEF Abandon, Tracked, NoModeRecord, ModeTypeOK
    <3> QED
      BY <2>0, <2>1, <2>2, <3>1, RecordsStay
  <2>5. CASE SendCommand(r, frame[t].job) /\ UNCHANGED modeVars /\ Goto(t, "track_cold") /\ UNCHANGED frame
    BY <2>0, <2>3, <2>5 DEF Goto, CallsTypeOK, Launched, modeVars, Tracked
  <2>6. CASE TrackCommand(r, frame[t].job) /\ Goto(t, "record") /\ UNCHANGED frame
    <3>1. \A i \in Instances : Tracked(i)' <=> Tracked(i)
      BY <2>6 DEF TrackCommand, Tracked, Absent, ModeTypeOK
    <3> QED
      BY <2>0, <2>3, <2>6, <3>1 DEF Goto, CallsTypeOK, Launched
  <2> QED
    BY <1>3, <2>0, <2>4, <2>5, <2>6 DEF Deliver, TrackCold
<1>4. CASE RecordJob(t)
  <2>0. PICK r \in Instances : r = frame[t].rid
    BY <1>4 DEF RecordJob, SubmitOK, SubmitSteps
  <2>1. pc[t] = "record" /\ UNCHANGED mode_resources
        /\ resources' = [resources EXCEPT ![r] = [job |-> frame[t].job, status |-> "PENDING"]]
    BY <1>4, <2>0 DEF RecordJob, modeVars
  <2>2. (\A i \in Instances : i # r => (Recorded(i)' <=> Recorded(i))) /\ Recorded(r)'
    BY <2>1 DEF Recorded, Absent, BooksTypeOK
  <2>3. Tracked(r) /\ \A i \in Instances : Tracked(i)' <=> Tracked(i)
    BY <2>0, <2>1 DEF Truthful, LaunchTracked, Tracked
  <2> QED
    BY <2>0, <2>1, <2>2, <2>3, RecordsStay
<1> QED
  BY <1>1, <1>2, <1>3, <1>4

\* Every step keeps the books together.
LEMMA BooksStep ==
  ASSUME CallsAccounted, TypeOK', SentToHost, Truthful, WarmPoolSize = 0, Reliable, BooksKept, [Next]_vars
  PROVE  BooksKept'
<1> USE DEF CallsAccounted
<1>1. ASSUME NEW t \in Threads, Continue(t) \/ Call(t)
      PROVE  BooksKept'
  <2>1. Others(t)
    BY <1>1, StepsAlone
  <2>2. CASE Turned(t) /\ (TerminateDoomed(t) \/ Forget(t) \/ Infrastructure(t) \/ Deinitialize(t) \/ Clear(t) \/ Erase(t))
    BY <2>2, DropsBooked
  <2>3. CASE Turned(t) /\ ~(TerminateDoomed(t) \/ Forget(t) \/ Infrastructure(t) \/ Deinitialize(t) \/ Clear(t) \/ Erase(t))
    <3>1. BothSame
      BY <2>3, TurnedSame
    <3>2. pc[t] \notin Launched \cup {"forget", "deinitialize", "clear", "erase"}
      <4>1. CASE StatusStep(t) \/ StatusBegin(t) \/ SubmitUninitialized(t) \/ CancelStep(t)
        BY <4>1 DEF StatusStep, StatusBegin, SubmitUninitialized, CancelStep, Begin, Group, PollSsm, PollEc2, PollRaises,
           StatusUpdate, SaveStatus, ScaleInCancels, CancelCall, CancelUpdate, Launched
      <4>2. CASE ScaleIn(t) \/ Shutdown(t) \/ \E J \in SUBSET Jobs : Cancel(t, J)
        BY <4>2 DEF ScaleIn, Shutdown, Cancel, Begin, Launched
      <4>3. CASE CleanupStep(t)
        BY <2>3, <4>3 DEF CleanupStep, Scan, PoolSnapshot, TransitionSkipped, TransitionToPool,
           TransitionEvicting, Unlist, SavePass, SavePassMode, Finish, SaveCancel, Launched
      <4> QED
        BY <2>3, <4>1, <4>2, <4>3 DEF Turned, ShutdownStep
    <3> QED
      BY <2>1, <3>1, <3>2, RecordsStay DEF BothSame
  <2>4. ~TakeWarm(t) /\ ~DispatchWarm(t) /\ ~TrackWarm(t)
    BY DEF TakeWarm, DispatchWarm, TrackWarm, Base, FramesKept
  <2> QED
    BY <1>1, <2>1, <2>2, <2>3, <2>4, SubmitBooked DEF Continue, Call, Turned, SubmitStep
<1>2. CASE Environment \/ Tick \/ UNCHANGED vars
  <2>1. UNCHANGED <<pc, frame, resources>>
    BY <1>2 DEF Environment, Tick, vars, provVars, callVars
  <2>2. \A i \in Instances : Tracked(i)' <=> Tracked(i)
    <3>1. ASSUME NEW k \in Instances, HandleInstanceInterruption(k)
          PROVE  \A i \in Instances : Tracked(i)' <=> Tracked(i)
      BY <3>1 DEF HandleInstanceInterruption, Tracked, Absent, TypeOK, ModeTypeOK, ModeRecord
    <3> QED
      BY <1>2, <3>1 DEF Environment, FinishCommand, ShutDownAfter, Reclaim, ForgetInstance, Tick, vars, modeVars, Tracked
  <2> QED
    BY <2>1, <2>2 DEF BooksKept, Recorded
<1>3. ~Restart
  BY DEF Restart, Fault, Reliable
<1> QED
  BY <1>1, <1>2, <1>3 DEF Next, Rest

\* Whenever no call is under way, the mode's book and the provider's have records
\* of the same instances, although no step writes both.
THEOREM BooksMatch ==
  ASSUME Reliable, WarmPoolSize = 0
  PROVE  Spec => []BooksAgree
<1>1. Init => BooksKept
  BY DEF Init, ModeInit, BooksKept, Tracked, Recorded, NoModeRecord, NoRecord
<1>2. CallsAccounted /\ CallsAccounted' /\ SentToHost /\ Truthful /\ BooksKept /\ [Next]_vars => BooksKept'
  BY BooksStep DEF CallsAccounted
<1>3. BooksKept => BooksAgree
  BY DEF BooksKept, BooksAgree, Quiet, Launched
<1>4. Spec => [](CallsAccounted /\ SentToHost /\ Truthful)
  BY TruthKept
<1> QED
  BY <1>1, <1>2, <1>3, <1>4, PTL DEF Spec

-----------------------------------------------------------------------------
(* One caller: what the two maps and the reuse list tell each other.       *)

\* One thread calls, cancels no job it was told is over (cancel() does not check, and
\* would take the instance from the job that has it by then) and never shuts down; the
\* process lives, and a finished instance that may be reused is not forgotten by EC2.
OneCaller ==
  /\ OneThread /\ ~CancelFinished
  /\ \A t \in Threads : "shutdown" \notin Calls[t]
  /\ "crash" \notin Faults /\ (WarmPoolSize > 0 => "forget" \notin Faults)

Ended(j) == job_map[j].status \in TerminalStates
Listed(i) == \E n \in 1 .. Len(warm_instances) : warm_instances[n] = i

\* What dooms an instance at the next pass.
Dooming == {"FAILED", "CANCELED", "INTERRUPTED"} \cup (IF WarmPoolSize > 0 THEN {} ELSE {"COMPLETED"})

\* What the job's entry says when its instance's record says s.
Shown(s) == IF s = "WARM" THEN "COMPLETED" ELSE s

\* A block at work, as far as its record says.
Ongoing(i) == Recorded(i) /\ resources[i].status \notin TerminalStates \cup {"WARM"}

\* The provider's two maps tell the same, except of the jobs a reused instance has
\* completed before.
BooksAlike ==
  /\ \A i \in Instances : Recorded(i) =>
       /\ resources[i].job \in Jobs /\ Mapped(resources[i].job)
       /\ job_map[resources[i].job].rid = i
       /\ job_map[resources[i].job].status = Shown(resources[i].status)
  /\ \A j \in Jobs : Mapped(j) => resources[job_map[j].rid].job = j \/ job_map[j].status = "COMPLETED"

\* An instance is on the reuse list once at most, and reads WARM.
ListedWarm ==
  /\ \A n \in 1 .. Len(warm_instances) : resources[warm_instances[n]].status = "WARM"
  /\ \A m, n \in 1 .. Len(warm_instances) : warm_instances[m] = warm_instances[n] => m = n

Passing == {"scan", "pool", "transition", "unlist", "terminate", "forget"}

\* The pass under way will drop j's entry.
Collecting(j) ==
  /\ resources[job_map[j].rid].job = j
  /\ \E t \in Threads :
       \/ pc[t] = "scan" /\ resources[job_map[j].rid].status \in Dooming
       \/ pc[t] \in Passing \ {"scan"} /\ job_map[j].rid \in frame[t].rids

\* A job's owner knows what its entry says of its end, or the entry is going.
EndsTold == \A j \in Jobs : Ended(j) => reported[j] \in TerminalStates \/ Collecting(j)

\* What a call has in hand fits the books.
CallFits(t) ==
  /\ pc[t] \in {"dispatch_warm", "track_warm", "deliver", "track_cold", "record"} =>
       resources[frame[t].rid].status \in {Absent, "WARM"} /\ ~Listed(frame[t].rid)
  /\ pc[t] = "save_job" => job_map[frame[t].job].status = "PENDING"
  /\ pc[t] \in Asking => \A j \in frame[t].jobs :
       frame[t].known[j] = IF Ended(j) THEN job_map[j].status ELSE Absent
  /\ pc[t] \in CancelSteps => frame[t].method # "status" /\ \A j \in frame[t].jobs : ~Ended(j)
  /\ \A i \in Instances : frame[t].told[i] # "WARM"
  /\ pc[t] = "cancel_update" => \A i \in Instances : frame[t].told[i] \in {Absent, "UNKNOWN"} \cup Dooming
  /\ pc[t] \in {"pool", "transition"} =>
       WarmPoolSize > 0 /\ \A i \in frame[t].todo : resources[i].status = "COMPLETED"
  /\ pc[t] = "unlist" => \A i \in frame[t].rids : Listed(i) => i \in frame[t].todo
  /\ pc[t] \in {"terminate", "forget"} => \A i \in frame[t].rids : ~Listed(i)

\* One caller's books are in order.
Orderly == BooksAlike /\ ListedWarm /\ EndsTold /\ \A t \in Threads : CallFits(t)

\* list.remove() of an element that is there once, or not.
LEMMA UnlistedLeaves ==
  ASSUME NEW S, NEW s \in Seq(S), NEW e, \A m, n \in 1 .. Len(s) : s[m] = s[n] => m = n
  PROVE  LET r == Unlisted(s, e) IN
         /\ \A n \in 1 .. Len(r) : r[n] # e /\ \E m \in 1 .. Len(s) : r[n] = s[m]
         /\ \A m, n \in 1 .. Len(r) : r[m] = r[n] => m = n
<1> DEFINE r == Unlisted(s, e)
<1>1. CASE \E n \in 1 .. Len(s) : FirstAt(s, e, n)
  <2>1. PICK n \in 1 .. Len(s) : r = RemoveAt(s, n) /\ FirstAt(s, e, n)
    BY <1>1 DEF Unlisted
  <2>2. /\ Len(r) = Len(s) - 1
        /\ \A k \in 1 .. Len(r) : r[k] = IF k < n THEN s[k] ELSE s[k + 1]
    <3> DEFINE a == SubSeq(s, 1, n - 1)
               b == SubSeq(s, n + 1, Len(s))
    <3>1. Len(s) \in Nat /\ n \in Nat /\ n >= 1 /\ n <= Len(s)
      OBVIOUS
    <3>2. a \in Seq(S) /\ Len(a) = n - 1 /\ \A k \in 1 .. n - 1 : a[k] = s[k]
      BY <3>1
    <3>3. b \in Seq(S) /\ Len(b) = Len(s) - n /\ \A k \in 1 .. Len(s) - n : b[k] = s[n + k]
      BY <3>1
    <3>4. r = a \o b
      BY <2>1 DEF RemoveAt
    <3> HIDE DEF a, b, r
    <3>a. a \in Seq(S) /\ b \in Seq(S)
      BY <3>2, <3>3
    <3>b. /\ Len(a \o b) = Len(a) + Len(b)
          /\ \A k \in 1 .. Len(a) + Len(b) : (a \o b)[k] = IF k <= Len(a) THEN a[k] ELSE b[k - Len(a)]
      BY <3>a, ConcatProperties
    <3>5. /\ Len(r) = Len(a) + Len(b)
          /\ \A k \in 1 .. Len(a) + Len(b) : r[k] = IF k <= Len(a) THEN a[k] ELSE b[k - Len(a)]
      BY <3>4, <3>b
    <3>6. Len(r) = Len(s) - 1 /\ \A k \in 1 .. Len(r) : r[k] = IF k < n THEN a[k] ELSE b[k - (n - 1)]
      BY <3>1, <3>2, <3>3, <3>5
    <3> QED
      BY <3>1, <3>2, <3>3, <3>6
  <2>3. s[n] = e /\ Len(s) \in Nat
    BY <2>1 DEF FirstAt
  <2> HIDE DEF r
  <2> DEFINE up(k) == IF k < n THEN k ELSE k + 1
  <2>4. \A k \in 1 .. Len(r) : /\ up(k) \in 1 .. Len(s) /\ up(k) # n /\ r[k] = s[up(k)]
                              /\ \A l \in 1 .. Len(r) : up(k) = up(l) => k = l
    BY <2>2, <2>3
  <2> HIDE DEF up
  <2>5. \A k \in 1 .. Len(r) : r[k] # e
    BY <2>3, <2>4
  <2>6. \A k, l \in 1 .. Len(r) : r[k] = r[l] => k = l
    BY <2>4
  <2> QED
    BY <2>4, <2>5, <2>6 DEF r
<1>2. CASE ~\E n \in 1 .. Len(s) : FirstAt(s, e, n)
  <2>1. r = s
    BY <1>2 DEF Unlisted
  <2>2. \A n \in 1 .. Len(s) : s[n] # e
    BY <1>2 DEF FirstAt
  <2> HIDE DEF r
  <2> QED
    BY <2>1, <2>2 DEF r
<1> QED
  BY <1>1, <1>2

\* Records and entries, and what the typing of the books says of them.
LEMMA BookEntries ==
  ASSUME TypeOK
  PROVE  /\ \A i \in Instances : /\ resources[i] \in Record
                                 /\ Recorded(i) => resources[i].job \in Jobs
                                 /\ ~Recorded(i) => resources[i].job = NoJob
         /\ \A j \in Jobs : /\ job_map[j] \in JobEntry
                            /\ Mapped(j) => job_map[j].rid \in Instances
                            /\ ~Mapped(j) => job_map[j].rid = NoInstance
                            /\ Ended(j) => Mapped(j)
<1>1. \A i \in Instances : resources[i] \in Record
  BY DEF TypeOK, BooksTypeOK
<1>2. \A j \in Jobs : job_map[j] \in JobEntry
  BY DEF TypeOK, BooksTypeOK
<1>3. \A r \in Record : (r.status # Absent => r.job \in Jobs) /\ (r.status = Absent => r.job = NoJob)
  BY DEF Record, NoRecord, Status, Absent
<1>4. \A e \in JobEntry : (e.status # Absent => e.rid \in Instances) /\ (e.status = Absent => e.rid = NoInstance)
  BY DEF JobEntry, NoEntry, Status, Absent
<1>5. Absent \notin TerminalStates
  BY DEF TerminalStates, Absent
<1> QED
  BY <1>1, <1>2, <1>3, <1>4, <1>5 DEF Recorded, Mapped, Ended

\* Writing back what was heard of jobs not over keeps the maps alike and touches no
\* listed instance.
LEMMA WriteBackFits ==
  ASSUME TypeOK, BooksAlike, ListedWarm, UNCHANGED warm_instances, NEW J \in SUBSET Jobs,
         NEW m, \A i \in Instances : m[i] # "WARM", WriteBack(J, m), \A j \in J : ~Ended(j)
  PROVE  /\ BooksAlike' /\ ListedWarm'
         /\ \A j \in Jobs :
              \/ job_map'[j] = job_map[j]
              \/ LET i == job_map[j].rid IN
                 /\ j \in J /\ i \in Instances /\ job_map'[j].rid = i /\ m[i] # Absent
                 /\ job_map'[j].status = m[i] /\ resources'[i].status = m[i] /\ resources'[i].job = j
         /\ \A i \in Instances :
              \/ resources'[i] = resources[i]
              \/ Ongoing(i) /\ resources'[i].job = resources[i].job /\ resources'[i].status = m[i]
<1> DEFINE heard == {j \in J : Mapped(j) /\ m[job_map[j].rid] # Absent}
           On(i) == \E j \in heard : job_map[j].rid = i
<1>1. \A h \in heard : /\ h \in Jobs /\ job_map[h].rid \in Instances
                       /\ resources[job_map[h].rid].job = h /\ Recorded(job_map[h].rid)
                       /\ Ongoing(job_map[h].rid)
  <2> TAKE h \in heard
  <2>1. h \in Jobs /\ job_map[h].rid \in Instances /\ job_map[h].status # "COMPLETED"
    BY BookEntries DEF Ended, TerminalStates
  <2>2. resources[job_map[h].rid].job = h
    BY <2>1 DEF BooksAlike
  <2>3. Recorded(job_map[h].rid)
    BY <2>1, <2>2, BookEntries, ModeAssumption
  <2>4. Ongoing(job_map[h].rid)
    BY <2>1, <2>2, <2>3 DEF BooksAlike, Shown, Ended, TerminalStates, Ongoing
  <2> QED
    BY <2>1, <2>2, <2>3, <2>4
<1>2. ASSUME NEW j \in Jobs
      PROVE  /\ j \in heard => /\ job_map'[j].rid = job_map[j].rid
                               /\ job_map'[j].status = m[job_map[j].rid]
             /\ j \notin heard => job_map'[j] = job_map[j]
  <2>1. job_map'[j] = IF j \in heard THEN [job_map[j] EXCEPT !.status = m[job_map[j].rid]] ELSE job_map[j]
    BY DEF WriteBack
  <2> QED
    BY <2>1, BookEntries DEF JobEntry, NoEntry
<1>3. ASSUME NEW i \in Instances
      PROVE  /\ On(i) => resources'[i].job = resources[i].job /\ resources'[i].status = m[i]
             /\ ~On(i) => resources'[i] = resources[i]
  <2>1. resources'[i] = IF Recorded(i) /\ On(i) THEN [resources[i] EXCEPT !.status = m[i]] ELSE resources[i]
    BY DEF WriteBack
  <2>2. On(i) => Recorded(i)
    BY <1>1
  <2> QED
    BY <2>1, <2>2, BookEntries DEF Record, NoRecord
<1> HIDE DEF heard, On
<1>4. \A i \in Instances : On(i) => resources[i].job \in heard /\ m[i] # Absent /\ Ongoing(i)
  BY <1>1 DEF On, heard
<1>5. \A j \in heard : On(job_map[j].rid)
  BY DEF On
<1>6. ASSUME NEW i \in Instances, Recorded(i)'
      PROVE  /\ resources'[i].job \in Jobs /\ job_map'[resources'[i].job].status # Absent
             /\ job_map'[resources'[i].job].rid = i
             /\ job_map'[resources'[i].job].status = Shown(resources'[i].status)
  <2> DEFINE j == resources[i].job
  <2>1. Recorded(i) /\ resources'[i].job = j
    BY <1>3, <1>4, <1>6 DEF Recorded, Ongoing
  <2>2. j \in Jobs /\ Mapped(j) /\ job_map[j].rid = i /\ job_map[j].status = Shown(resources[i].status)
    BY <2>1 DEF BooksAlike
  <2> HIDE DEF j
  <2>3. CASE On(i)
    <3>1. job_map'[j].rid = i /\ job_map'[j].status = m[i] /\ m[i] # Absent /\ resources'[i].status = m[i]
      BY <1>2, <1>3, <1>4, <2>2, <2>3 DEF j
    <3>2. m[i] # "WARM"
      OBVIOUS
    <3> QED
      BY <2>1, <2>2, <3>1, <3>2 DEF Mapped, Shown
  <2>4. CASE ~On(i)
    BY <1>2, <1>3, <1>5, <2>1, <2>2, <2>4 DEF Mapped
  <2> QED
    BY <2>3, <2>4
<1>7. ASSUME NEW j \in Jobs, Mapped(j)'
      PROVE  resources'[job_map'[j].rid].job = j \/ job_map'[j].status = "COMPLETED"
  <2>1. Mapped(j) /\ job_map'[j].rid = job_map[j].rid /\ job_map[j].rid \in Instances
    BY <1>1, <1>2, <1>7, BookEntries DEF Mapped, heard
  <2>2. resources'[job_map[j].rid].job = resources[job_map[j].rid].job
    BY <1>3, <2>1
  <2> QED
    BY <1>1, <1>2, <2>1, <2>2 DEF BooksAlike
<1>8. BooksAlike'
  BY <1>6, <1>7 DEF BooksAlike, Mapped, Shown
<1>9. ListedWarm'
  <2>1. \A n \in 1 .. Len(warm_instances) : warm_instances[n] \in Instances
    BY DEF TypeOK, ModeTypeOK
  <2> QED
    BY <1>3, <1>4, <2>1 DEF ListedWarm, Ongoing
<1> QED
  BY <1>1, <1>2, <1>3, <1>4, <1>5, <1>8, <1>9 DEF heard


\* The steps of submit() that hold an instance its record gives away.
Held == {"dispatch_warm", "track_warm", "deliver", "track_cold", "record"}

\* A step of the only caller that changes neither books nor list, outside a pass.
LEMMA QuietOrderly ==
  ASSUME Orderly, OneThread, NEW t \in Threads, UNCHANGED <<resources, job_map, warm_instances, reported>>,
         pc[t] \notin Passing, CallFits(t)'
  PROVE  Orderly'
<1>1. \A j \in Jobs : ~Collecting(j)
  BY DEF Collecting, OneThread, Passing
<1>2. BooksAlike' /\ ListedWarm'
  BY DEF Orderly, BooksAlike, ListedWarm, Recorded, Mapped
<1>3. EndsTold'
  BY <1>1 DEF Orderly, EndsTold, Ended
<1> QED
  BY <1>2, <1>3 DEF Orderly, OneThread

\* A call that has returned holds nothing.
LEMMA ReturnFits ==
  ASSUME TypeOK, NEW t \in Threads, Return(t)
  PROVE  CallFits(t)'
<1>1. pc'[t] = "idle" /\ frame'[t].told = NoStatuses
  BY DEF Return, Goto, TypeOK, CallsTypeOK, NoFrame
<1> QED
  BY <1>1 DEF CallFits, NoStatuses, Asking, CancelSteps, Absent

\* What a step of submit() has to keep in order before it records its job.
LEMMA SubmitFits ==
  ASSUME TypeOK, Orderly, NEW t \in Threads, pc'[t] \in PreRecord,
         frame'[t].told = frame[t].told \/ frame'[t].told = NoStatuses,
         pc'[t] \in Held => /\ resources'[frame'[t].rid].status \in {Absent, "WARM"}
                            /\ \A n \in 1 .. Len(warm_instances') : warm_instances'[n] # frame'[t].rid
  PROVE  CallFits(t)'
<1>1. \A i \in Instances : frame'[t].told[i] # "WARM"
  BY DEF Orderly, CallFits, NoStatuses, Absent
<1> QED
  BY <1>1 DEF CallFits, PreRecord, SubmitSteps, Asking, CancelSteps, Held, Listed


\* submit() before it records: the instance it takes leaves the list.
LEMMA SubmitOrderly ==
  ASSUME TypeOK, TypeOK', Base, Orderly, OneThread, NEW t \in Threads, SubmitStep(t), ~RecordJob(t), ~SaveJob(t)
  PROVE  Orderly'
<1> USE DEF TypeOK
<1>1. /\ frame[t] \in Frame /\ pc[t] \in PreRecord /\ pc[t] \notin Passing
      /\ UNCHANGED <<resources, job_map, reported>>
  BY DEF SubmitStep, SubmitUninitialized, TakeWarm, TakeCold, DispatchWarm, TrackWarm, Create, WaitRunning,
     Deliver, TrackCold, PreRecord, SubmitSteps, Passing, provVars, CallsTypeOK
<1>2. CallFits(t)
  BY DEF Orderly
<1>3. CASE Return(t)
  <2>1. UNCHANGED warm_instances
    BY <1>3, <1>1 DEF SubmitStep, SubmitUninitialized, TakeWarm, TakeCold, DispatchWarm, TrackWarm, Create, WaitRunning,
       Deliver, TrackCold, RunInstanceFails, WaitFails, Abandon, TrackCommand, TrackInstance, RunInstance, modeVars,
       Return, Goto, CallsTypeOK
  <2> QED
    BY <1>1, <1>3, <2>1, ReturnFits, QuietOrderly
<1>4. CASE TakeWarm(t)
  <2> DEFINE i == Head(warm_instances)
             s == warm_instances
  <2>1. /\ s \in Seq(Instances) /\ s # << >> /\ warm_instances' = Tail(s)
        /\ pc'[t] = "dispatch_warm" /\ frame' = [frame EXCEPT ![t].rid = i]
    BY <1>4 DEF TakeWarm, GetWarmInstance, Goto, CallsTypeOK, ModeTypeOK
  <2>2. frame'[t].rid = i /\ frame'[t].told = frame[t].told
    BY <1>1, <2>1 DEF CallsTypeOK, Frame
  <2>3. /\ Len(s) \in Nat /\ Len(s) >= 1 /\ Len(Tail(s)) = Len(s) - 1 /\ i = s[1]
        /\ \A n \in 1 .. Len(s) - 1 : Tail(s)[n] = s[n + 1]
    BY <2>1
  <2>4. \A m, n \in 1 .. Len(s) : s[m] = s[n] => m = n
    BY DEF Orderly, ListedWarm
  <2>5. \A n \in 1 .. Len(Tail(s)) : Tail(s)[n] # i /\ resources[Tail(s)[n]].status = "WARM"
    BY <2>3, <2>4 DEF Orderly, ListedWarm
  <2>6. \A m, n \in 1 .. Len(Tail(s)) : Tail(s)[m] = Tail(s)[n] => m = n
    BY <2>3, <2>4
  <2>7. resources[i].status = "WARM"
    BY <2>3 DEF Orderly, ListedWarm
  <2> HIDE DEF i
  <2>8. CallFits(t)'
    BY <1>1, <2>1, <2>2, <2>5, <2>7, SubmitFits DEF PreRecord, SubmitSteps, Held, Listed
  <2>9. BooksAlike' /\ ListedWarm'
    BY <1>1, <2>1, <2>5, <2>6 DEF Orderly, BooksAlike, ListedWarm, Recorded, Mapped
  <2>10. EndsTold'
    BY <1>1 DEF Orderly, EndsTold, Ended, Collecting, OneThread, Passing
  <2> QED
    BY <2>8, <2>9, <2>10 DEF Orderly, OneThread
<1>5. CASE TakeCold(t) \/ DispatchWarm(t) \/ TrackWarm(t) \/ Deliver(t) \/ TrackCold(t)
  <2>1. /\ Return(t) \/ (UNCHANGED frame /\ pc'[t] \in PreRecord /\ (pc[t] \in Held \/ pc'[t] \notin Held))
        /\ UNCHANGED warm_instances
    BY <1>5, <1>1 DEF TakeCold, DispatchWarm, TrackWarm, Deliver, TrackCold, TrackCommand, Abandon, modeVars, Goto, CallsTypeOK,
       PreRecord, SubmitSteps, Held
  <2>2. CASE ~Return(t)
    <3>1. CallFits(t)'
      BY <1>1, <1>2, <2>1, <2>2, SubmitFits DEF CallFits, Held, Listed
    <3> QED
      BY <1>1, <2>1, <3>1, QuietOrderly
  <2> QED
    BY <1>3, <2>2
<1>6. CASE Create(t) /\ ~Return(t)
  <2>1. PICK i \in Instances : RunInstance(i, frame[t].job) /\ Goto(t, "wait") /\ frame' = [frame EXCEPT ![t].rid = i]
    BY <1>6 DEF Create
  <2>2. pc'[t] = "wait" /\ frame'[t].told = frame[t].told /\ UNCHANGED warm_instances
    BY <1>1, <2>1 DEF RunInstance, Goto, CallsTypeOK, Frame, modeVars
  <2>3. CallFits(t)'
    BY <1>1, <2>2, SubmitFits DEF PreRecord, SubmitSteps, Held
  <2> QED
    BY <1>1, <2>2, <2>3, QuietOrderly
<1>7. CASE WaitRunning(t) /\ ~Return(t)
  <2>1. pc[t] = "wait" /\ pc'[t] \in {"deliver", "record"} /\ UNCHANGED <<frame, warm_instances>> /\ frame[t].rid \in Instances
    BY <1>7 DEF WaitRunning, TrackInstance, Goto, CallsTypeOK, SubmitOK, SubmitSteps
  <2>2. ~Handled(frame[t].rid)
    BY <2>1 DEF Base, InstancesNew
  <2>3. /\ resources'[frame'[t].rid].status = Absent
        /\ \A n \in 1 .. Len(warm_instances') : warm_instances'[n] # frame'[t].rid
    BY <1>1, <2>1, <2>2 DEF Handled, Recorded, Listed
  <2>4. CallFits(t)'
    BY <1>1, <2>1, <2>3, SubmitFits DEF PreRecord, SubmitSteps
  <2> QED
    BY <1>1, <2>1, <2>4, QuietOrderly
<1>8. CASE SubmitUninitialized(t)
  BY <1>3, <1>8 DEF SubmitUninitialized
<1> QED
  BY <1>3, <1>4, <1>5, <1>6, <1>7, <1>8 DEF SubmitStep

\* submit() records: the instance's record gives the job before it away for completed.
LEMMA RecordJobOrderly ==
  ASSUME TypeOK, TypeOK', Base, Orderly, OneThread, NEW t \in Threads, RecordJob(t)
  PROVE  Orderly'
<1> USE DEF TypeOK
<1> DEFINE i == frame[t].rid
           j == frame[t].job
<1>1. /\ pc[t] = "record" /\ pc'[t] = "save_job" /\ frame[t] \in Frame /\ i \in Instances /\ j \in Jobs
      /\ resources' = [resources EXCEPT ![i] = [job |-> j, status |-> "PENDING"]]
      /\ job_map' = [job_map EXCEPT ![j] = [rid |-> i, status |-> "PENDING"]]
      /\ UNCHANGED <<warm_instances, reported>>
  BY DEF RecordJob, Goto, CallsTypeOK, SubmitOK, SubmitSteps, modeVars
<1>2. frame'[t].job = j /\ frame'[t].told = frame[t].told
  BY <1>1 DEF RecordJob, CallsTypeOK, Frame
<1>3. ~Submitted(j) /\ ~Mapped(j) /\ \A k \in Instances : resources[k].job # j
  BY <1>1 DEF Base, JobsNew, PreRecord, SubmitSteps
<1>4. resources[i].status \in {Absent, "WARM"} /\ ~Listed(i)
  BY <1>1 DEF Orderly, CallFits
<1> HIDE DEF i, j
<1>5. ASSUME NEW k \in Jobs, k # j, Mapped(k), job_map[k].rid = i
      PROVE  job_map[k].status = "COMPLETED"
  <2>1. CASE resources[i].job = k
    BY <1>1, <1>4, <1>5, <2>1, BookEntries, ModeAssumption DEF Orderly, BooksAlike, Recorded, Shown
  <2>2. CASE resources[i].job # k
    BY <1>5, <2>2 DEF Orderly, BooksAlike
  <2> QED
    BY <2>1, <2>2
<1>6. /\ resources'[i] = [job |-> j, status |-> "PENDING"] /\ \A k \in Instances : k # i => resources'[k] = resources[k]
      /\ job_map'[j] = [rid |-> i, status |-> "PENDING"] /\ \A k \in Jobs : k # j => job_map'[k] = job_map[k]
  BY <1>1 DEF BooksTypeOK
<1>7. BooksAlike'
  <2>1. ASSUME NEW k \in Instances, Recorded(k)'
        PROVE  /\ resources'[k].job \in Jobs /\ job_map'[resources'[k].job].status # Absent
               /\ job_map'[resources'[k].job].rid = k
               /\ job_map'[resources'[k].job].status = Shown(resources'[k].status)
    BY <1>1, <1>3, <1>6, <2>1 DEF Orderly, BooksAlike, Recorded, Mapped, Shown, Absent
  <2>2. ASSUME NEW k \in Jobs, Mapped(k)'
        PROVE  resources'[job_map'[k].rid].job = k \/ job_map'[k].status = "COMPLETED"
    <3>1. CASE k = j
      BY <1>6, <3>1
    <3>2. CASE k # j
      <4>1. Mapped(k) /\ job_map'[k] = job_map[k] /\ job_map[k].rid \in Instances
        BY <1>6, <2>2, <3>2, BookEntries DEF Mapped
      <4> QED
        BY <1>5, <1>6, <3>2, <4>1 DEF Orderly, BooksAlike
    <3> QED
      BY <3>1, <3>2
  <2> QED
    BY <2>1, <2>2 DEF BooksAlike, Mapped, Shown
<1>8. ListedWarm'
  BY <1>1, <1>4, <1>6 DEF Orderly, ListedWarm, Listed, ModeTypeOK
<1>9. EndsTold'
  <2>1. \A k \in Jobs : ~Collecting(k)
    BY <1>1 DEF Collecting, OneThread, Passing
  <2>2. job_map'[j].status \notin TerminalStates
    BY <1>6 DEF TerminalStates
  <2> QED
    BY <1>1, <1>6, <2>1, <2>2 DEF Orderly, EndsTold, Ended
<1>10. CallFits(t)'
  BY <1>1, <1>2, <1>6 DEF Orderly, CallFits, Asking, CancelSteps
<1> QED
  BY <1>7, <1>8, <1>9, <1>10 DEF Orderly, OneThread

\* submit() returns: its job is pending.
LEMMA SaveJobOrderly ==
  ASSUME TypeOK, Base, Orderly, OneThread, NEW t \in Threads, SaveJob(t)
  PROVE  Orderly'
<1> USE DEF TypeOK
<1>1. /\ pc[t] = "save_job" /\ Return(t) /\ UNCHANGED <<resources, job_map, warm_instances>>
      /\ reported' = [reported EXCEPT ![frame[t].job] = "PENDING"]
  BY DEF SaveJob, modeVars
<1>2. ~Ended(frame[t].job)
  BY <1>1 DEF Orderly, CallFits, Ended, TerminalStates
<1>3. BooksAlike' /\ ListedWarm'
  BY <1>1 DEF Orderly, BooksAlike, ListedWarm, Recorded, Mapped
<1>4. EndsTold'
  BY <1>1, <1>2 DEF Orderly, EndsTold, Ended, Collecting, OneThread, Passing
<1> QED
  BY <1>1, <1>3, <1>4, ReturnFits DEF Orderly, OneThread


\* status() begins: what it takes from job_map are the jobs that are over.
LEMMA StatusBeginOrderly ==
  ASSUME TypeOK, Orderly, OneThread, NEW t \in Threads, StatusBegin(t)
  PROVE  Orderly'
<1> USE DEF TypeOK
<1> DEFINE R == {job_map[j].rid : j \in {j \in AcceptedJobs : Mapped(j)} \ Settled}
           K == [j \in Jobs |-> IF j \in Settled THEN job_map[j].status ELSE Absent]
<1>1. /\ frame'[t] = [NoFrame EXCEPT !.method = "status", !.jobs = AcceptedJobs, !.rids = R, !.known = K]
      /\ pc[t] = "idle" /\ pc'[t] \in {"update", "group"}
      /\ UNCHANGED <<resources, job_map, reported, warm_instances>>
  BY DEF StatusBegin, Begin, Goto, CallsTypeOK, provVars, modeVars
<1>2. \A j \in AcceptedJobs : K[j] = IF Ended(j) THEN job_map[j].status ELSE Absent
  BY DEF Settled, Ended, AcceptedJobs
<1> HIDE DEF R, K
<1>3. frame'[t].jobs = AcceptedJobs /\ frame'[t].known = K /\ frame'[t].told = NoStatuses
  BY <1>1 DEF NoFrame
<1>4. CallFits(t)'
  BY <1>1, <1>2, <1>3 DEF CallFits, NoStatuses, Asking, CancelSteps, Ended, Absent
<1> QED
  BY <1>1, <1>4, QuietOrderly DEF Passing

\* status() groups and polls: no answer is WARM.
LEMMA AskingOrderly ==
  ASSUME TypeOK, Orderly, OneThread, NEW t \in Threads, Group(t) \/ PollSsm(t) \/ PollEc2(t)
  PROVE  Orderly'
<1> USE DEF TypeOK
<1>1. /\ frame[t] \in Frame /\ pc[t] \in {"group", "poll"} /\ pc'[t] \in {"poll", "update"}
      /\ UNCHANGED <<resources, job_map, reported>>
  BY DEF Group, PollSsm, PollEc2, Heard, Goto, CallsTypeOK, provVars
<1>2. UNCHANGED warm_instances
  BY DEF Group, PollSsm, PollEc2, PollCommands, PollInstances, modeVars
<1>3. CallFits(t)
  BY DEF Orderly
<1>4. \E m, S : /\ frame'[t] = [frame[t] EXCEPT !.told = m, !.todo = S]
                /\ \A i \in Instances : m[i] # "WARM"
  <2>1. CASE Group(t)
    <3> DEFINE m == LocalStatuses(frame[t].rids)
               S == MustAskAws(frame[t].rids)
    <3>1. frame'[t] = [frame[t] EXCEPT !.told = m, !.todo = S]
      BY <2>1 DEF Group, CallsTypeOK
    <3>2. \A i \in Instances : m[i] # "WARM"
      BY DEF LocalStatuses, Absent
    <3> HIDE DEF m, S
    <3> QED
      BY <3>1, <3>2
  <2>2. ASSUME NEW a, Heard(t, a), \A i \in frame[t].todo : a[i] # "WARM"
        PROVE  \E m, S : /\ frame'[t] = [frame[t] EXCEPT !.told = m, !.todo = S]
                         /\ \A i \in Instances : m[i] # "WARM"
    <3> DEFINE m == [i \in Instances |-> IF i \in frame[t].todo THEN a[i] ELSE frame[t].told[i]]
    <3>1. frame'[t] = [frame[t] EXCEPT !.told = m, !.todo = {}]
      BY <2>2 DEF Heard, CallsTypeOK
    <3>2. \A i \in Instances : m[i] # "WARM"
      BY <1>3, <2>2 DEF CallFits
    <3> HIDE DEF m
    <3> QED
      BY <3>1, <3>2
  <2>3. CASE PollSsm(t)
    <3>1. PICK a \in [frame[t].todo -> Answers] : Heard(t, a)
      BY <2>3 DEF PollSsm
    <3>2. \A i \in frame[t].todo : a[i] # "WARM"
      BY DEF Answers
    <3> QED
      BY <2>2, <3>1, <3>2
  <2>4. CASE PollEc2(t)
    <3>1. PICK outcome \in PollOutcomes : Heard(t, InstanceStatuses(frame[t].todo, outcome))
      BY <2>4 DEF PollEc2
    <3> DEFINE a == InstanceStatuses(frame[t].todo, outcome)
    <3>2. \A i \in frame[t].todo : a[i] # "WARM"
      BY <1>1 DEF InstanceStatuses, InstanceStatus, Absent, Frame
    <3> HIDE DEF a
    <3> QED
      BY <2>2, <3>1, <3>2 DEF a
  <2> QED
    BY <2>1, <2>3, <2>4
<1>5. /\ frame'[t].known = frame[t].known /\ frame'[t].jobs = frame[t].jobs
      /\ \A i \in Instances : frame'[t].told[i] # "WARM"
  BY <1>1, <1>4 DEF Frame
<1>6. CallFits(t)'
  BY <1>1, <1>3, <1>5 DEF CallFits, Asking, CancelSteps, Ended
<1> QED
  BY <1>1, <1>2, <1>6, QuietOrderly DEF Passing

\* A call on its way to the pass, or past it, holds nothing yet.
LEMMA ToCleanupFits ==
  ASSUME TypeOK, NEW t \in Threads, ToCleanup(t)
  PROVE  CallFits(t)'
<1> USE DEF TypeOK
<1>1. CASE Return(t)
  BY <1>1, ReturnFits
<1>2. CASE pc'[t] = "scan" /\ frame'[t].told = NoStatuses
  BY <1>2 DEF CallFits, NoStatuses, Asking, CancelSteps, Absent
<1> QED
  BY <1>1, <1>2 DEF ToCleanup, Goto, CallsTypeOK, NoFrame

\* The poll raises: owners are told of the ends job_map knows.
LEMMA PollRaisesOrderly ==
  ASSUME TypeOK, Orderly, OneThread, NEW t \in Threads, PollRaises(t)
  PROVE  Orderly'
<1> USE DEF TypeOK
<1>1. /\ pc[t] = "poll" /\ UNCHANGED <<resources, job_map, warm_instances>> /\ ToCleanup(t)
      /\ reported' = [j \in Jobs |-> IF j \notin frame[t].jobs THEN reported[j]
                                     ELSE IF frame[t].known[j] # Absent THEN frame[t].known[j]
                                     ELSE "UNKNOWN"]
  BY DEF PollRaises, PollCommandsRaises, provVars
<1>2. BooksAlike' /\ ListedWarm'
  BY <1>1 DEF Orderly, BooksAlike, ListedWarm, Recorded, Mapped
<1>3. \A j \in Jobs : ~Collecting(j)
  BY <1>1 DEF Collecting, OneThread, Passing
<1>4. \A j \in frame[t].jobs : frame[t].known[j] = IF Ended(j) THEN job_map[j].status ELSE Absent
  BY <1>1 DEF Orderly, CallFits, Asking
<1>5. EndsTold'
  BY <1>1, <1>3, <1>4 DEF Orderly, EndsTold, Ended, TerminalStates, Absent
<1> QED
  BY <1>1, <1>2, <1>5, ToCleanupFits DEF Orderly, OneThread

\* Owners and books are told the same.
LEMMA StatusUpdateOrderly ==
  ASSUME TypeOK, Orderly, OneThread, NEW t \in Threads, StatusUpdate(t)
  PROVE  Orderly'
<1> USE DEF TypeOK
<1> DEFINE J == {j \in frame[t].jobs : frame[t].known[j] = Absent}
           m == frame[t].told
<1>1. /\ pc[t] = "update" /\ pc'[t] = "save_status" /\ frame'[t].told = NoStatuses
      /\ UNCHANGED warm_instances /\ WriteBack(J, m)
      /\ \A j \in frame[t].jobs \cap Jobs : reported'[j] = Verdict(t, j)
      /\ \A j \in Jobs \ frame[t].jobs : reported'[j] = reported[j]
  BY DEF StatusUpdate, Goto, CallsTypeOK, NoFrame, modeVars
<1>2. J \in SUBSET Jobs
  BY DEF CallsTypeOK, Frame
<1>3. /\ \A i \in Instances : m[i] # "WARM"
      /\ \A j \in frame[t].jobs : frame[t].known[j] = IF Ended(j) THEN job_map[j].status ELSE Absent
  BY <1>1 DEF Orderly, CallFits, Asking
<1>4. \A j \in J : ~Ended(j)
  BY <1>3 DEF Ended, TerminalStates, Absent
<1> HIDE DEF J, m
<1>5. /\ BooksAlike' /\ ListedWarm'
      /\ \A j \in Jobs :
           \/ job_map'[j] = job_map[j]
           \/ LET i == job_map[j].rid IN
              j \in J /\ m[i] # Absent /\ job_map'[j].status = m[i]
  BY <1>1, <1>2, <1>3, <1>4, WriteBackFits DEF Orderly
<1>6. ASSUME NEW j \in Jobs, job_map'[j].status \in TerminalStates
      PROVE  reported'[j] \in TerminalStates
  <2>1. CASE job_map'[j] = job_map[j]
    <3>1. Ended(j) /\ ~Collecting(j)
      BY <1>1, <1>6, <2>1 DEF Ended, Collecting, OneThread, Passing
    <3>2. CASE j \in frame[t].jobs
      BY <1>1, <1>3, <3>1, <3>2 DEF Verdict, Ended, TerminalStates, Absent
    <3>3. CASE j \notin frame[t].jobs
      BY <1>1, <3>1, <3>3 DEF Orderly, EndsTold
    <3> QED
      BY <3>2, <3>3
  <2>2. CASE job_map'[j] # job_map[j]
    <3>1. j \in J /\ m[job_map[j].rid] # Absent /\ job_map'[j].status = m[job_map[j].rid]
      BY <1>5, <2>2
    <3>2. Mapped(j)
      BY <1>1, <2>2 DEF WriteBack
    <3> QED
      BY <1>1, <1>6, <3>1, <3>2 DEF Verdict, J, m
  <2> QED
    BY <2>1, <2>2
<1>7. EndsTold'
  BY <1>6 DEF EndsTold, Ended
<1>8. CallFits(t)'
  BY <1>1 DEF CallFits, NoStatuses, Asking, CancelSteps, Absent
<1> QED
  BY <1>5, <1>7, <1>8 DEF Orderly, OneThread

\* The document is written.
LEMMA SaveStatusOrderly ==
  ASSUME TypeOK, Orderly, OneThread, NEW t \in Threads, SaveStatus(t)
  PROVE  Orderly'
BY ToCleanupFits, QuietOrderly DEF SaveStatus, modeVars, Passing


\* Where finished instances are reused, EC2 forgets none.
NoneGone == WarmPoolSize > 0 => \A i \in Instances : ec2[i] # "gone"

\* A cancel takes on no job that job_map says is over.
LEMMA CollectOrderly ==
  ASSUME TypeOK, Orderly, OneThread, NEW t \in Threads, pc[t] \notin Passing,
         UNCHANGED <<resources, job_map, reported, warm_instances>>,
         NEW method, method # "status", NEW J \in SUBSET Jobs, \A j \in J : ~Ended(j), Collect(t, method, J)
  PROVE  Orderly'
<1> USE DEF TypeOK
<1> DEFINE R == {job_map[j].rid : j \in {j \in J : Mapped(j)}}
<1>1. /\ frame'[t] = [NoFrame EXCEPT !.method = method, !.jobs = J, !.rids = R]
      /\ pc'[t] = "cancel_call"
  BY DEF Collect, Goto, CallsTypeOK
<1> HIDE DEF R
<1>2. frame'[t].jobs = J /\ frame'[t].told = NoStatuses /\ frame'[t].method = method
  BY <1>1 DEF NoFrame
<1>3. CallFits(t)'
  BY <1>1, <1>2 DEF CallFits, NoStatuses, Asking, CancelSteps, Ended, Absent
<1> QED
  BY <1>3, QuietOrderly

\* Nor does the choice of what to cancel: a job its owner does not know over, or one
\* whose instance is RUNNING.
LEMMA CancelsOrderly ==
  ASSUME TypeOK, Orderly, OneCaller, NEW t \in Threads,
         ScaleIn(t) \/ ScaleInCancels(t) \/ \E J \in SUBSET Jobs : Cancel(t, J)
  PROVE  Orderly'
<1> USE DEF TypeOK
<1>1. OneThread /\ ~CancelFinished
  BY DEF OneCaller
<1>2. ASSUME NEW J \in SUBSET Jobs, Cancel(t, J)
      PROVE  Orderly'
  <2>1. pc[t] = "idle" /\ Collect(t, "cancel", J) /\ UNCHANGED <<resources, job_map, reported, warm_instances>>
        /\ \A j \in J : reported[j] \notin TerminalStates
    BY <1>1, <1>2 DEF Cancel, Begin, provVars, modeVars
  <2>2. \A j \in Jobs : ~Collecting(j)
    BY <1>1, <2>1 DEF Collecting, OneThread, Passing
  <2>3. \A j \in J : ~Ended(j)
    BY <2>1, <2>2 DEF Orderly, EndsTold
  <2> QED
    BY <1>1, <2>1, <2>3, CollectOrderly DEF Passing
<1>3. CASE ScaleInCancels(t)
  <2>1. pc[t] = "cancel" /\ Collect(t, "scale_in", frame[t].jobs)
        /\ UNCHANGED <<resources, job_map, reported, warm_instances>>
    BY <1>3 DEF ScaleInCancels, provVars, modeVars
  <2>2. frame[t].jobs \in SUBSET Jobs /\ \A j \in frame[t].jobs : ~Ended(j)
    BY <2>1 DEF CallsTypeOK, Frame, Orderly, CallFits, CancelSteps
  <2> QED
    BY <1>1, <2>1, <2>2, CollectOrderly DEF Passing
<1>4. CASE ScaleIn(t)
  <2>1. PICK S \in SUBSET InStatus({"RUNNING"}) :
          frame' = [frame EXCEPT ![t] = [NoFrame EXCEPT
                      !.method = "scale_in", !.jobs = {resources[i].job : i \in S} \ {NoJob}]]
    BY <1>4 DEF ScaleIn
  <2>2. pc[t] = "idle" /\ pc'[t] = "cancel" /\ UNCHANGED <<resources, job_map, reported, warm_instances>>
    BY <1>4 DEF ScaleIn, Begin, Goto, CallsTypeOK, provVars, modeVars
  <2> DEFINE J == {resources[i].job : i \in S} \ {NoJob}
  <2>3. \A j \in J : ~Ended(j)
    <3> SUFFICES ASSUME NEW i \in S
                 PROVE  job_map[resources[i].job].status = "RUNNING"
      BY DEF Ended, TerminalStates
    <3>1. i \in Instances /\ resources[i].status = "RUNNING"
      BY DEF InStatus
    <3> QED
      BY <3>1 DEF Orderly, BooksAlike, Recorded, Shown, Absent
  <2>4. frame'[t] = [NoFrame EXCEPT !.method = "scale_in", !.jobs = J]
    BY <2>1 DEF CallsTypeOK
  <2> HIDE DEF J
  <2>5. frame'[t].jobs = J /\ frame'[t].told = NoStatuses /\ frame'[t].method = "scale_in"
    BY <2>4 DEF NoFrame
  <2>6. CallFits(t)'
    BY <2>2, <2>3, <2>5 DEF CallFits, NoStatuses, Asking, CancelSteps, Ended, Absent
  <2> QED
    BY <1>1, <2>2, <2>6, QuietOrderly DEF Passing
<1> QED
  BY <1>2, <1>3, <1>4

\* cancel_jobs() answers with what dooms an instance, or does not know it.
LEMMA CancelCallOrderly ==
  ASSUME TypeOK, Orderly, OneThread, NoneGone, NEW t \in Threads, CancelCall(t)
  PROVE  Orderly'
<1> USE DEF TypeOK
<1>1. /\ frame[t] \in Frame /\ pc[t] = "cancel_call" /\ pc'[t] = "cancel_update"
      /\ UNCHANGED <<resources, job_map, reported, warm_instances>>
  BY DEF CancelCall, CancelJobs, Goto, CallsTypeOK, provVars
<1>2. PICK outcome \in CancelOutcomes :
        /\ CancelJobs(frame[t].rids, outcome)
        /\ frame' = [frame EXCEPT ![t].told = CancelStatuses(frame[t].rids, outcome)]
  BY DEF CancelCall
<1>3. outcome \in Dooming
  <2>1. CASE WarmPoolSize > 0
    <3>1. frame[t].rids \subseteq Instances
      BY <1>1 DEF Frame
    <3>2. outcome # "COMPLETED"
      BY <1>2, <2>1, <3>1 DEF CancelJobs, Known, NoneGone
    <3> QED
      BY <3>2 DEF CancelOutcomes, Dooming
  <2>2. CASE ~(WarmPoolSize > 0)
    BY <2>2 DEF CancelOutcomes, Dooming
  <2> QED
    BY <2>1, <2>2
<1> DEFINE m == CancelStatuses(frame[t].rids, outcome)
<1>4. \A i \in Instances : m[i] \in {Absent, "UNKNOWN"} \cup Dooming
  BY <1>3 DEF CancelStatuses
<1> HIDE DEF m
<1>5. frame'[t].told = m /\ frame'[t].jobs = frame[t].jobs /\ frame'[t].method = frame[t].method
  BY <1>1, <1>2 DEF CallsTypeOK, Frame, m
<1>6. "WARM" \notin {Absent, "UNKNOWN"} \cup Dooming
  BY DEF Dooming, Absent
<1>7. CallFits(t)'
  BY <1>1, <1>4, <1>5, <1>6 DEF Orderly, CallFits, Asking, CancelSteps, Ended
<1> QED
  BY <1>1, <1>7, QuietOrderly DEF Passing

\* cancel() marks jobs over that the pass it goes on to will collect.
LEMMA CancelUpdateOrderly ==
  ASSUME TypeOK, Orderly, OneThread, NEW t \in Threads, CancelUpdate(t)
  PROVE  Orderly'
<1> USE DEF TypeOK
<1> DEFINE J == frame[t].jobs
           m == frame[t].told
<1>1. /\ pc[t] = "cancel_update" /\ UNCHANGED <<warm_instances, reported>> /\ WriteBack(J, m) /\ ToCleanup(t)
      /\ J \in SUBSET Jobs
  BY DEF CancelUpdate, modeVars, CallsTypeOK, Frame
<1>2. /\ \A j \in J : ~Ended(j)
      /\ \A i \in Instances : m[i] # "WARM" /\ m[i] \in {Absent, "UNKNOWN"} \cup Dooming
      /\ frame[t].method # "status"
  BY <1>1 DEF Orderly, CallFits, CancelSteps
<1>3. pc'[t] = "scan"
  BY <1>1, <1>2 DEF ToCleanup, Goto, CallsTypeOK
<1> HIDE DEF J, m
<1>4. /\ BooksAlike' /\ ListedWarm'
      /\ \A j \in Jobs :
           \/ job_map'[j] = job_map[j]
           \/ LET i == job_map[j].rid IN
              /\ i \in Instances /\ job_map'[j].rid = i /\ job_map'[j].status = m[i]
              /\ resources'[i].status = m[i] /\ resources'[i].job = j
  <2>1. \A i \in Instances : m[i] # "WARM"
    BY <1>2
  <2> QED
    BY <1>1, <1>2, <2>1, WriteBackFits DEF Orderly
<1>5. ASSUME NEW j \in Jobs, job_map'[j].status \in TerminalStates
      PROVE  \/ reported'[j] \in TerminalStates
             \/ /\ resources'[job_map'[j].rid].job = j
                /\ resources'[job_map'[j].rid].status \in Dooming
  <2>1. CASE job_map'[j] = job_map[j]
    <3>1. Ended(j) /\ ~Collecting(j)
      BY <1>1, <1>5, <2>1 DEF Ended, Collecting, OneThread, Passing
    <3> QED
      BY <1>1, <3>1 DEF Orderly, EndsTold
  <2>2. CASE job_map'[j] # job_map[j]
    BY <1>2, <1>4, <1>5, <2>2 DEF TerminalStates, Absent
  <2> QED
    BY <2>1, <2>2
<1>6. EndsTold'
  BY <1>3, <1>5 DEF EndsTold, Ended, Collecting
<1> QED
  BY <1>1, <1>4, <1>6, ToCleanupFits DEF Orderly, OneThread


\* A step of a pass that changes neither books nor list and keeps what it will drop.
LEMMA PassOrderly ==
  ASSUME Orderly, OneThread, NEW t \in Threads, UNCHANGED <<resources, job_map, warm_instances, reported>>,
         \A j \in Jobs : Ended(j) /\ Collecting(j) => Collecting(j)', CallFits(t)'
  PROVE  Orderly'
<1>1. BooksAlike' /\ ListedWarm'
  BY DEF Orderly, BooksAlike, ListedWarm, Recorded, Mapped
<1>2. EndsTold'
  BY DEF Orderly, EndsTold, Ended
<1> QED
  BY <1>1, <1>2 DEF Orderly, OneThread

\* The scan dooms every instance whose job is over and not to be reused.
LEMMA ScanOrderly ==
  ASSUME TypeOK, Orderly, OneThread, NEW t \in Threads, Scan(t)
  PROVE  Orderly'
<1> USE DEF TypeOK
<1> DEFINE next == IF Reusable # {} THEN "pool" ELSE AfterPool(t, Doomed, FALSE)
           rest == IF next = "unlist" THEN Doomed ELSE Reusable
<1>1. /\ frame[t] \in Frame /\ pc[t] = "scan" /\ pc'[t] = next
      /\ frame'[t] = IF next = "idle" THEN NoFrame ELSE [frame[t] EXCEPT !.rids = Doomed, !.todo = rest]
      /\ UNCHANGED <<resources, job_map, warm_instances, reported>>
  BY DEF Scan, Goto, CallsTypeOK, provVars, modeVars
<1>2. /\ Doomed # {} => next \in {"pool", "unlist", "terminate"}
      /\ next \in {"pool", "unlist", "terminate", "idle", "finish"}
      /\ next = "terminate" => WarmPoolSize = 0
      /\ next = "pool" => Reusable # {} /\ WarmPoolSize > 0
  BY ModeAssumption DEF AfterPool, Reusable
<1>3. \A i \in Instances : resources[i].status \in Dooming => i \in Doomed
  BY DEF Dooming, Doomed, InStatus
<1>4. \A i \in Reusable : resources[i].status = "COMPLETED"
  BY DEF Reusable, InStatus
<1>5. WarmPoolSize = 0 => \A i \in Doomed : resources[i].status # "WARM"
  BY DEF Doomed, InStatus
<1>6. next # "idle" => frame'[t].rids = Doomed /\ frame'[t].todo = rest /\ frame'[t].told = frame[t].told
  BY <1>1 DEF Frame
<1>7. next = "idle" => frame'[t].told = NoStatuses
  BY <1>1 DEF NoFrame
<1> HIDE DEF next
<1>8. \A i \in Instances : frame'[t].told[i] # "WARM"
  BY <1>6, <1>7 DEF Orderly, CallFits, NoStatuses, Absent
<1>9. next = "pool" => rest = Reusable
  BY DEF rest
<1>10. next = "unlist" => rest = Doomed
  BY DEF rest
<1> HIDE DEF rest
<1>11. CallFits(t)'
  BY <1>1, <1>2, <1>4, <1>5, <1>6, <1>8, <1>9, <1>10 DEF Orderly, ListedWarm, CallFits, Listed, Asking, CancelSteps
<1>12. ASSUME NEW j \in Jobs, Ended(j), Collecting(j)
       PROVE  Collecting(j)'
  <2>1. resources[job_map[j].rid].job = j /\ resources[job_map[j].rid].status \in Dooming
    BY <1>1, <1>12 DEF Collecting, OneThread
  <2>2. job_map[j].rid \in Instances
    BY <1>12, BookEntries
  <2>3. job_map[j].rid \in Doomed
    BY <1>3, <2>1, <2>2
  <2> QED
    BY <1>1, <1>2, <1>6, <2>1, <2>3 DEF Collecting, Passing
<1> QED
  BY <1>1, <1>11, <1>12, PassOrderly

\* The lock is taken for the warm pool's share of the pass.
LEMMA SnapshotOrderly ==
  ASSUME TypeOK, Orderly, OneThread, NEW t \in Threads, PoolSnapshot(t)
  PROVE  Orderly'
<1> USE DEF TypeOK
<1>1. /\ frame[t] \in Frame /\ pc[t] = "pool" /\ pc'[t] = "transition"
      /\ UNCHANGED <<resources, job_map, warm_instances, reported>>
      /\ frame'[t] = [frame[t] EXCEPT !.pool = InStatus({"WARM"})]
  BY DEF PoolSnapshot, Goto, CallsTypeOK, provVars, modeVars
<1>2. frame'[t].rids = frame[t].rids /\ frame'[t].todo = frame[t].todo /\ frame'[t].told = frame[t].told
  BY <1>1 DEF Frame
<1>3. \A j \in Jobs : Collecting(j) => Collecting(j)'
  BY <1>1, <1>2 DEF Collecting, Passing, OneThread
<1>4. CallFits(t)'
  BY <1>1, <1>2 DEF Orderly, CallFits, Asking, CancelSteps
<1> QED
  BY <1>1, <1>3, <1>4, PassOrderly

\* What a round of the warm pool's loop leaves in the call's hands, where the pass goes
\* on to all it means to drop.
LEMMA RoundFits ==
  ASSUME TypeOK, Orderly, OneThread, NEW t \in Threads, pc[t] = "transition", NEW i \in Instances, i \in frame[t].todo,
         NEW R \in SUBSET Instances, NEW P, NEW d, TransitionRound(t, i, R, P, d), frame[t].rids \subseteq R,
         \A k \in Instances : k # i => resources'[k] = resources[k]
  PROVE  /\ CallFits(t)'
         /\ \A k \in R : pc'[t] \in Passing \ {"scan"} /\ k \in frame'[t].rids
<1> USE DEF TypeOK
<1> DEFINE rest == frame[t].todo \ {i}
           next == IF rest # {} THEN "transition" ELSE AfterPool(t, R, d)
           todo == IF next = "unlist" THEN R ELSE rest
<1>1. /\ frame[t] \in Frame /\ pc'[t] = next
      /\ frame'[t] = IF next = "idle" THEN NoFrame
                     ELSE [frame[t] EXCEPT !.rids = R, !.dirty = d, !.pool = P, !.todo = todo]
  BY DEF TransitionRound, Goto, CallsTypeOK
<1>2. /\ next \in {"transition", "unlist", "forget", "finish", "idle"}
      /\ R # {} => next \in {"transition", "unlist"}
      /\ next = "transition" => todo = rest
      /\ next = "unlist" => todo = R
      /\ WarmPoolSize > 0
  BY DEF AfterPool, Orderly, CallFits
<1>3. \A k \in rest : resources'[k].status = "COMPLETED"
  <2>1. rest \subseteq Instances
    BY <1>1 DEF Frame
  <2> QED
    BY <2>1 DEF Orderly, CallFits
<1> HIDE DEF next, todo
<1>4. next # "idle" => frame'[t].rids = R /\ frame'[t].todo = todo /\ frame'[t].told = frame[t].told
  BY <1>1 DEF Frame
<1>5. next = "idle" => frame'[t].told = NoStatuses
  BY <1>1 DEF NoFrame
<1>6. \A k \in Instances : frame'[t].told[k] # "WARM"
  BY <1>4, <1>5 DEF Orderly, CallFits, NoStatuses, Absent
<1> HIDE DEF rest
<1>7. CallFits(t)'
  BY <1>1, <1>2, <1>3, <1>4, <1>6 DEF CallFits, Asking, CancelSteps, Listed
<1> QED
  BY <1>1, <1>2, <1>4, <1>7 DEF Passing

\* A record that is gone is passed over.
LEMMA SkippedOrderly ==
  ASSUME TypeOK, Orderly, OneThread, NEW t \in Threads, TransitionSkipped(t)
  PROVE  Orderly'
<1> USE DEF TypeOK
<1>1. PICK i \in frame[t].todo : TransitionRound(t, i, frame[t].rids, frame[t].pool, frame[t].dirty)
  BY DEF TransitionSkipped
<1>2. /\ frame[t] \in Frame /\ pc[t] = "transition"
      /\ UNCHANGED <<resources, job_map, warm_instances, reported>>
  BY DEF TransitionSkipped, CallsTypeOK, provVars, modeVars
<1>3. i \in Instances /\ frame[t].rids \in SUBSET Instances
  BY <1>2 DEF Frame
<1>4. /\ CallFits(t)'
      /\ \A k \in frame[t].rids : pc'[t] \in Passing \ {"scan"} /\ k \in frame'[t].rids
  <2> DEFINE R == frame[t].rids
             P == frame[t].pool
             d == frame[t].dirty
  <2>1. TransitionRound(t, i, R, P, d) /\ frame[t].rids \subseteq R /\ R \in SUBSET Instances
    BY <1>1, <1>3
  <2>2. \A k \in Instances : k # i => resources'[k] = resources[k]
    BY <1>2
  <2> HIDE DEF R, P, d
  <2>3. CallFits(t)' /\ \A k \in R : pc'[t] \in Passing \ {"scan"} /\ k \in frame'[t].rids
    BY <1>2, <1>3, <2>1, <2>2, RoundFits
  <2> QED
    BY <2>3 DEF R
<1>5. \A j \in Jobs : Collecting(j) => Collecting(j)'
  BY <1>2, <1>4 DEF Collecting, OneThread
<1> QED
  BY <1>2, <1>4, <1>5, PassOrderly

\* A finished instance joins the list, which an older one may leave: it was on it under
\* no other name, and its job has long been told.
LEMMA MarkedOrderly ==
  ASSUME TypeOK, TypeOK', Orderly, OneThread, NEW t \in Threads, pc[t] = "transition", NEW i \in Instances,
         i \in frame[t].todo, NEW R \in SUBSET Instances, NEW P, NEW d, TransitionRound(t, i, R, P, d),
         frame[t].rids \subseteq R, MarkWarm(i), UNCHANGED reported,
         NEW w \in Seq(Instances), warm_instances' = Append(w, i),
         \A n \in 1 .. Len(w) : \E m \in 1 .. Len(warm_instances) : w[n] = warm_instances[m],
         \A m, n \in 1 .. Len(w) : w[m] = w[n] => m = n
  PROVE  Orderly'
<1> USE DEF TypeOK
<1>1. /\ resources[i].status = "COMPLETED" /\ resources[i] \in Record /\ UNCHANGED job_map
      /\ resources' = [resources EXCEPT ![i].status = "WARM"]
  BY DEF Orderly, CallFits, MarkWarm, BooksTypeOK
<1>2. /\ resources'[i].status = "WARM" /\ resources'[i].job = resources[i].job
      /\ \A k \in Instances : k # i => resources'[k] = resources[k]
  BY <1>1 DEF BooksTypeOK, Record, NoRecord
<1>3. /\ CallFits(t)'
      /\ \A k \in R : pc'[t] \in Passing \ {"scan"} /\ k \in frame'[t].rids
  BY <1>2, RoundFits
<1>4. BooksAlike'
  <2>1. \A k \in Instances : resources'[k].job = resources[k].job
                             /\ (Recorded(k)' => Recorded(k))
                             /\ Shown(resources'[k].status) = Shown(resources[k].status)
    BY <1>1, <1>2 DEF Recorded, Shown, Absent
  <2>2. \A j \in Jobs : Mapped(j) => job_map[j].rid \in Instances
    BY BookEntries
  <2> QED
    BY <1>1, <2>1, <2>2 DEF Orderly, BooksAlike, Mapped
<1>5. ListedWarm'
  <2>1. /\ Len(warm_instances') = Len(w) + 1 /\ Len(w) \in Nat
        /\ warm_instances'[Len(w) + 1] = i /\ \A n \in 1 .. Len(w) : warm_instances'[n] = w[n]
    BY AppendProperties
  <2>2. \A n \in 1 .. Len(w) : w[n] \in Instances /\ resources[w[n]].status = "WARM"
    BY DEF Orderly, ListedWarm
  <2>3. \A n \in 1 .. Len(w) : w[n] # i /\ resources'[w[n]].status = "WARM"
    BY <1>1, <1>2, <2>2
  <2> QED
    BY <1>2, <2>1, <2>3 DEF ListedWarm
<1>6. EndsTold'
  <2> SUFFICES ASSUME NEW j \in Jobs, Ended(j), Collecting(j)
               PROVE  Collecting(j)'
    BY <1>1 DEF Orderly, EndsTold, Ended
  <2>1. resources[job_map[j].rid].job = j /\ job_map[j].rid \in frame[t].rids /\ job_map[j].rid \in Instances
    BY BookEntries DEF Collecting, OneThread
  <2>2. resources'[job_map'[j].rid].job = j
    BY <1>1, <1>2, <2>1
  <2> QED
    BY <1>1, <1>3, <2>1, <2>2 DEF Collecting
<1> QED
  BY <1>3, <1>4, <1>5, <1>6 DEF Orderly, OneThread

\* Both ways into the pool.
LEMMA WarmedOrderly ==
  ASSUME TypeOK, TypeOK', Orderly, OneThread, NEW t \in Threads, TransitionToPool(t) \/ TransitionEvicting(t)
  PROVE  Orderly'
<1> USE DEF TypeOK
<1>1. frame[t] \in Frame /\ pc[t] = "transition" /\ UNCHANGED reported /\ warm_instances \in Seq(Instances)
  BY DEF TransitionToPool, TransitionEvicting, CallsTypeOK, ModeTypeOK
<1>2. \A m, n \in 1 .. Len(warm_instances) : warm_instances[m] = warm_instances[n] => m = n
  BY DEF Orderly, ListedWarm
<1>3. frame[t].rids \in SUBSET Instances /\ frame[t].todo \in SUBSET Instances /\ frame[t].pool \in SUBSET Instances
  BY <1>1 DEF Frame
<1>4. CASE TransitionToPool(t)
  <2>1. PICK i \in frame[t].todo :
          /\ MarkWarm(i) /\ warm_instances' = Append(warm_instances, i)
          /\ TransitionRound(t, i, frame[t].rids, frame[t].pool \cup {i}, TRUE)
    BY <1>4 DEF TransitionToPool
  <2> DEFINE R == frame[t].rids
             P == frame[t].pool \cup {i}
  <2>2. TransitionRound(t, i, R, P, TRUE) /\ R \in SUBSET Instances /\ frame[t].rids \subseteq R /\ i \in Instances
    BY <1>3, <2>1
  <2> HIDE DEF R, P
  <2>3. \A n \in 1 .. Len(warm_instances) :
          \E m \in 1 .. Len(warm_instances) : warm_instances[n] = warm_instances[m]
    OBVIOUS
  <2> QED
    BY <1>1, <1>2, <2>1, <2>2, <2>3, MarkedOrderly
<1>5. CASE TransitionEvicting(t)
  <2>1. PICK i \in frame[t].todo, oldest \in frame[t].pool :
          /\ MarkWarm(i) /\ warm_instances' = Append(Unlisted(warm_instances, oldest), i)
          /\ TransitionRound(t, i, frame[t].rids \cup {oldest}, (frame[t].pool \ {oldest}) \cup {i}, TRUE)
    BY <1>5 DEF TransitionEvicting
  <2> DEFINE R == frame[t].rids \cup {oldest}
             P == (frame[t].pool \ {oldest}) \cup {i}
             w == Unlisted(warm_instances, oldest)
  <2>2. TransitionRound(t, i, R, P, TRUE) /\ R \in SUBSET Instances /\ frame[t].rids \subseteq R /\ i \in Instances
        /\ warm_instances' = Append(w, i)
    BY <1>3, <2>1
  <2>3. /\ \A n \in 1 .. Len(w) : \E m \in 1 .. Len(warm_instances) : w[n] = warm_instances[m]
        /\ \A m, n \in 1 .. Len(w) : w[m] = w[n] => m = n
    BY <1>1, <1>2, UnlistedLeaves
  <2>4. w \in Seq(Instances)
    BY <1>1, UnlistedType
  <2> HIDE DEF R, P, w
  <2> QED
    BY <1>1, <2>1, <2>2, <2>3, <2>4, MarkedOrderly
<1> QED
  BY <1>4, <1>5

\* What the pass will drop leaves the list first.
LEMMA UnlistOrderly ==
  ASSUME TypeOK, Orderly, OneThread, NEW t \in Threads, Unlist(t)
  PROVE  Orderly'
<1> USE DEF TypeOK
<1>1. PICK i \in frame[t].todo :
        /\ warm_instances' = IF resources[i].status = "WARM"
                               THEN Unlisted(warm_instances, i) ELSE warm_instances
        /\ frame' = [frame EXCEPT ![t].todo = frame[t].todo \ {i}]
        /\ Goto(t, IF frame[t].todo \ {i} = {} THEN "terminate" ELSE "unlist")
  BY DEF Unlist
<1>2. /\ frame[t] \in Frame /\ pc[t] = "unlist" /\ UNCHANGED <<resources, job_map, reported>>
      /\ warm_instances \in Seq(Instances)
  BY DEF Unlist, CallsTypeOK, ModeTypeOK, provVars
<1>3. /\ pc'[t] = IF frame[t].todo \ {i} = {} THEN "terminate" ELSE "unlist"
      /\ frame'[t] = [frame[t] EXCEPT !.todo = frame[t].todo \ {i}]
  BY <1>1 DEF Goto, CallsTypeOK
<1>4. frame'[t].todo = frame[t].todo \ {i} /\ frame'[t].rids = frame[t].rids /\ frame'[t].told = frame[t].told
  BY <1>2, <1>3 DEF Frame
<1>5. \A m, n \in 1 .. Len(warm_instances) : warm_instances[m] = warm_instances[n] => m = n
  BY DEF Orderly, ListedWarm
<1>6. /\ \A n \in 1 .. Len(warm_instances') : warm_instances'[n] # i
      /\ \A n \in 1 .. Len(warm_instances') : \E m \in 1 .. Len(warm_instances) : warm_instances'[n] = warm_instances[m]
      /\ \A m, n \in 1 .. Len(warm_instances') : warm_instances'[m] = warm_instances'[n] => m = n
  <2>1. CASE resources[i].status = "WARM"
    <3>1. warm_instances' = Unlisted(warm_instances, i)
      BY <1>1, <2>1
    <3>2. LET r == Unlisted(warm_instances, i) IN
            /\ \A n \in 1 .. Len(r) : r[n] # i /\ \E m \in 1 .. Len(warm_instances) : r[n] = warm_instances[m]
            /\ \A m, n \in 1 .. Len(r) : r[m] = r[n] => m = n
      BY <1>2, <1>5, UnlistedLeaves
    <3> QED
      BY <3>1, <3>2
  <2>2. CASE resources[i].status # "WARM"
    BY <1>1, <1>5, <2>2 DEF Orderly, ListedWarm
  <2> QED
    BY <2>1, <2>2
<1>7. BooksAlike' /\ ListedWarm'
  BY <1>2, <1>6 DEF Orderly, BooksAlike, ListedWarm, Recorded, Mapped
<1>8. EndsTold'
  <2>1. \A j \in Jobs : Collecting(j) => resources[job_map[j].rid].job = j /\ job_map[j].rid \in frame[t].rids
    BY <1>2 DEF Collecting, OneThread
  <2>2. pc'[t] \in Passing \ {"scan"}
    BY <1>3 DEF Passing
  <2>3. \A j \in Jobs : Collecting(j) => Collecting(j)'
    BY <1>2, <1>4, <2>1, <2>2 DEF Collecting
  <2> QED
    BY <1>2, <2>3 DEF Orderly, EndsTold, Ended
<1>9. \A k \in frame[t].rids : Listed(k) => k \in frame[t].todo
  BY <1>2 DEF Orderly, CallFits
<1>10. \A k \in frame[t].rids : (\E n \in 1 .. Len(warm_instances') : warm_instances'[n] = k) => k \in frame[t].todo \ {i}
  BY <1>6, <1>9 DEF Listed
<1>11. \A k \in Instances : frame'[t].told[k] # "WARM"
  BY <1>4 DEF Orderly, CallFits
<1>12. CallFits(t)'
  BY <1>3, <1>4, <1>10, <1>11 DEF CallFits, Listed, Asking, CancelSteps
<1> QED
  BY <1>7, <1>8, <1>12 DEF Orderly, OneThread

\* The mode is called; what the pass has in hand stays.
LEMMA TerminateOrderly ==
  ASSUME TypeOK, Orderly, OneThread, NEW t \in Threads, TerminateDoomed(t)
  PROVE  Orderly'
<1> USE DEF TypeOK
<1>1. /\ pc[t] = "terminate" /\ pc'[t] = "forget" /\ UNCHANGED frame
      /\ UNCHANGED <<resources, job_map, warm_instances, reported>>
  BY DEF TerminateDoomed, CleanupResources, Goto, CallsTypeOK, provVars
<1>2. \A j \in Jobs : Collecting(j) => Collecting(j)'
  BY <1>1 DEF Collecting, Passing, OneThread
<1>3. CallFits(t)'
  BY <1>1 DEF Orderly, CallFits, Asking, CancelSteps, Listed
<1> QED
  BY <1>1, <1>2, <1>3, PassOrderly

\* Records and entries go together.
LEMMA ForgetOrderly ==
  ASSUME TypeOK, Orderly, OneThread, NEW t \in Threads, Forget(t)
  PROVE  /\ Orderly'
         /\ \A j \in Jobs : job_map'[j] = job_map[j] \/ job_map'[j].status = Absent
<1> USE DEF TypeOK
<1> DEFINE gone == {i \in frame[t].rids : Recorded(i)}
<1>1. /\ frame[t] \in Frame /\ pc[t] = "forget" /\ pc'[t] = "save_pass"
      /\ frame' = [frame EXCEPT ![t].state = Snapshot]
      /\ UNCHANGED <<warm_instances, reported>>
      /\ \A i \in Instances : resources'[i] = IF i \in gone THEN NoRecord ELSE resources[i]
      /\ \A j \in Jobs : job_map'[j] = IF \E i \in gone : resources[i].job = j THEN NoEntry ELSE job_map[j]
  BY DEF Forget, Goto, CallsTypeOK, modeVars
<1>2. frame'[t].told = frame[t].told /\ gone \subseteq Instances
  BY <1>1 DEF CallsTypeOK, Frame
<1>3. \A i \in gone : i \in frame[t].rids /\ Recorded(i)
  OBVIOUS
<1>4. \A i \in frame[t].rids : ~Listed(i) /\ (Recorded(i) => i \in gone)
  BY <1>1 DEF Orderly, CallFits
<1> HIDE DEF gone
<1>5. \A i \in Instances : /\ i \in gone => ~Recorded(i)'
                           /\ i \notin gone => resources'[i] = resources[i]
  BY <1>1 DEF Recorded, NoRecord
<1>6. \A j \in Jobs : /\ (\E i \in gone : resources[i].job = j) => job_map'[j].status = Absent
                      /\ ~(\E i \in gone : resources[i].job = j) => job_map'[j] = job_map[j]
  BY <1>1 DEF NoEntry
<1>7. ASSUME NEW i \in Instances, Recorded(i)'
      PROVE  /\ resources'[i].job \in Jobs /\ job_map'[resources'[i].job].status # Absent
             /\ job_map'[resources'[i].job].rid = i
             /\ job_map'[resources'[i].job].status = Shown(resources'[i].status)
  <2>1. i \notin gone /\ resources'[i] = resources[i] /\ Recorded(i)
    BY <1>5, <1>7 DEF Recorded
  <2>2. /\ resources[i].job \in Jobs /\ Mapped(resources[i].job) /\ job_map[resources[i].job].rid = i
        /\ job_map[resources[i].job].status = Shown(resources[i].status)
    BY <2>1 DEF Orderly, BooksAlike
  <2>3. \A k \in gone : resources[k].job # resources[i].job
    BY <1>2, <1>3, <2>1, <2>2 DEF Orderly, BooksAlike
  <2> QED
    BY <1>6, <2>1, <2>2, <2>3 DEF Mapped
<1>8. ASSUME NEW j \in Jobs, Mapped(j)'
      PROVE  resources'[job_map'[j].rid].job = j \/ job_map'[j].status = "COMPLETED"
  <2>1. job_map'[j] = job_map[j] /\ Mapped(j) /\ \A i \in gone : resources[i].job # j
    BY <1>6, <1>8 DEF Mapped
  <2>2. job_map[j].rid \in Instances
    BY <2>1, BookEntries
  <2> QED
    BY <1>5, <2>1, <2>2 DEF Orderly, BooksAlike
<1>9. BooksAlike'
  BY <1>7, <1>8 DEF BooksAlike, Mapped, Shown
<1>10. ListedWarm'
  <2>1. \A n \in 1 .. Len(warm_instances) : warm_instances[n] \in Instances /\ warm_instances[n] \notin gone
    BY <1>3, <1>4 DEF ModeTypeOK, Listed
  <2> QED
    BY <1>1, <1>5, <2>1 DEF Orderly, ListedWarm
<1>11. EndsTold'
  <2> SUFFICES ASSUME NEW j \in Jobs, job_map'[j].status \in TerminalStates
               PROVE  reported'[j] \in TerminalStates
    BY DEF EndsTold, Ended
  <2>1. job_map'[j] = job_map[j] /\ (\A i \in gone : resources[i].job # j) /\ Ended(j)
    BY <1>6 DEF Ended, TerminalStates, Absent
  <2>2. job_map[j].rid \in Instances
    BY <2>1, BookEntries
  <2>3. ~Collecting(j)
    <3> SUFFICES ASSUME Collecting(j)
                 PROVE  FALSE
      OBVIOUS
    <3>1. resources[job_map[j].rid].job = j /\ job_map[j].rid \in frame[t].rids
      BY <1>1 DEF Collecting, OneThread
    <3>2. Recorded(job_map[j].rid)
      BY <2>2, <3>1, BookEntries, ModeAssumption
    <3> QED
      BY <1>4, <2>1, <3>1, <3>2
  <2> QED
    BY <1>1, <2>1, <2>3 DEF Orderly, EndsTold
<1>12. \A i \in Instances : frame'[t].told[i] # "WARM"
  BY <1>2 DEF Orderly, CallFits
<1>13. CallFits(t)'
  BY <1>1, <1>12 DEF CallFits, Asking, CancelSteps
<1> QED
  BY <1>6, <1>9, <1>10, <1>11, <1>13 DEF Orderly, OneThread

\* Documents are written and the call goes on.
LEMMA SavedOrderly ==
  ASSUME TypeOK, Orderly, OneThread, NEW t \in Threads,
         SavePass(t) \/ SavePassMode(t) \/ Finish(t) \/ SaveCancel(t)
  PROVE  Orderly'
<1> USE DEF TypeOK
<1>1. /\ pc[t] \in {"save_pass", "save_mode", "finish", "save_cancel"}
      /\ UNCHANGED <<resources, job_map, warm_instances, reported>>
  BY DEF SavePass, SavePassMode, Finish, SaveCancel, modeVars, provVars
<1>2. CASE Return(t)
  BY <1>1, <1>2, ReturnFits, QuietOrderly DEF Passing
<1>3. CASE ~Return(t)
  <2>1. pc'[t] \in {"save_mode", "finish", "save_cancel", "infrastructure"}
    BY <1>3 DEF SavePass, SavePassMode, Finish, SaveCancel, Goto, CallsTypeOK
  <2>2. frame'[t].told = frame[t].told \/ frame'[t].told = NoStatuses
    BY <1>3 DEF SavePass, SavePassMode, Finish, SaveCancel, CallsTypeOK, NoFrame
  <2>3. \A i \in Instances : frame'[t].told[i] # "WARM"
    BY <2>2 DEF Orderly, CallFits, NoStatuses, Absent
  <2>4. CallFits(t)'
    BY <2>1, <2>3 DEF CallFits, Asking, CancelSteps
  <2> QED
    BY <1>1, <2>4, QuietOrderly DEF Passing
<1> QED
  BY <1>2, <1>3

\* submit() begins with nothing in hand.
LEMMA SubmitBeginsOrderly ==
  ASSUME TypeOK, Orderly, OneThread, NEW t \in Threads, NEW j \in Jobs, Submit(t, j)
  PROVE  Orderly' /\ UNCHANGED job_map
<1> USE DEF TypeOK
<1>1. /\ pc[t] = "idle" /\ pc'[t] = "take" /\ frame'[t].told = NoStatuses
      /\ UNCHANGED <<resources, job_map, warm_instances, reported>>
  BY DEF Submit, Begin, Goto, CallsTypeOK, NoFrame, provVars, modeVars
<1>2. CallFits(t)'
  BY <1>1, SubmitFits DEF PreRecord, SubmitSteps, Held
<1> QED
  BY <1>1, <1>2, QuietOrderly DEF Passing

\* A step that is no call's touches neither books nor list nor calls.
LEMMA OutsideOrderly ==
  ASSUME Orderly, Tick \/ Environment \/ Rest \/ UNCHANGED vars
  PROVE  Orderly' /\ UNCHANGED job_map
<1>1. UNCHANGED <<resources, job_map, warm_instances, reported, pc, frame>>
  BY DEF Tick, Environment, FinishCommand, ShutDownAfter, Reclaim, ForgetInstance, HandleInstanceInterruption,
     Rest, vars, modeVars, provVars, callVars
<1>2. BooksAlike' /\ ListedWarm'
  BY <1>1 DEF Orderly, BooksAlike, ListedWarm, Recorded, Mapped
<1>3. EndsTold'
  BY <1>1 DEF Orderly, EndsTold, Ended, Collecting
<1>4. \A t \in Threads : CallFits(t)'
  BY <1>1 DEF Orderly, CallFits, Ended, Listed
<1> QED
  BY <1>1, <1>2, <1>3, <1>4 DEF Orderly

\* A pass keeps the order; it takes jobs out of job_map and changes the status of none.
LEMMA CleanupOrderly ==
  ASSUME TypeOK, TypeOK', Orderly, OneThread, NEW t \in Threads, CleanupStep(t)
  PROVE  /\ Orderly'
         /\ \A j \in Jobs : job_map'[j] = job_map[j] \/ job_map'[j].status = Absent
<1>1. CASE Forget(t)
  BY <1>1, ForgetOrderly
<1>2. CASE ~Forget(t)
  <2>1. Orderly'
    BY <1>2, ScanOrderly, SnapshotOrderly, SkippedOrderly, WarmedOrderly, UnlistOrderly, TerminateOrderly, SavedOrderly
       DEF CleanupStep
  <2>2. UNCHANGED job_map
    BY <1>2 DEF CleanupStep, Scan, PoolSnapshot, TransitionSkipped, TransitionToPool, TransitionEvicting, MarkWarm,
       Unlist, TerminateDoomed, SavePass, SavePassMode, Finish, SaveCancel, provVars
  <2> QED
    BY <2>1, <2>2
<1> QED
  BY <1>1, <1>2

\* The ends the owner's polls and cancels write are those of jobs not over before.
LEMMA WrittenOnce ==
  ASSUME TypeOK, Orderly, NEW t \in Threads, StatusUpdate(t) \/ CancelUpdate(t)
  PROVE  \A j \in Jobs : Ended(j) => job_map'[j] = job_map[j]
<1> USE DEF TypeOK
<1>1. CASE StatusUpdate(t)
  <2> DEFINE J == {j \in frame[t].jobs : frame[t].known[j] = Absent}
             m == frame[t].told
  <2>1. WriteBack(J, m) /\ UNCHANGED warm_instances /\ J \in SUBSET Jobs
    BY <1>1 DEF StatusUpdate, modeVars, CallsTypeOK, Frame
  <2>2. (\A j \in J : ~Ended(j)) /\ \A i \in Instances : m[i] # "WARM"
    BY <1>1 DEF StatusUpdate, Orderly, CallFits, Asking, Ended, TerminalStates, Absent
  <2> HIDE DEF J, m
  <2> QED
    BY <2>1, <2>2, WriteBackFits DEF Orderly
<1>2. CASE CancelUpdate(t)
  <2> DEFINE J == frame[t].jobs
             m == frame[t].told
  <2>1. WriteBack(J, m) /\ UNCHANGED warm_instances /\ J \in SUBSET Jobs
    BY <1>2 DEF CancelUpdate, modeVars, CallsTypeOK, Frame
  <2>2. (\A j \in J : ~Ended(j)) /\ \A i \in Instances : m[i] # "WARM"
    BY <1>2 DEF CancelUpdate, Orderly, CallFits, CancelSteps
  <2> HIDE DEF J, m
  <2> QED
    BY <2>1, <2>2, WriteBackFits DEF Orderly
<1> QED
  BY <1>1, <1>2

\* Nor does the one thread make any other step that changes an end.
LEMMA CallerOrderly ==
  ASSUME TypeOK, TypeOK', Base, Methodical, NoneGone, Orderly, OneCaller, NEW t \in Threads, Call(t) \/ Continue(t)
  PROVE  /\ Orderly'
         /\ \A j \in Jobs : Ended(j) => job_map'[j] = job_map[j] \/ job_map'[j].status = Absent
<1>1. OneThread /\ "shutdown" \notin Calls[t]
  BY DEF OneCaller
<1>2. ~ShutdownStep(t) /\ ~Shutdown(t)
  BY <1>1 DEF Methodical, ShutdownStep, Infrastructure, Deinitialize, Clear, Erase, ShutdownSteps, Shutdown, Begin
<1>3. CASE CleanupStep(t)
  BY <1>1, <1>3, CleanupOrderly
<1>4. CASE StatusUpdate(t) \/ CancelUpdate(t)
  BY <1>1, <1>4, WrittenOnce, StatusUpdateOrderly, CancelUpdateOrderly
<1>5. CASE RecordJob(t)
  <2>1. Orderly'
    BY <1>1, <1>5, RecordJobOrderly
  <2>2. \A j \in Jobs : j # frame[t].job => job_map'[j] = job_map[j]
    BY <1>5 DEF RecordJob, TypeOK, BooksTypeOK
  <2>3. ~Mapped(frame[t].job)
    <3>1. pc[t] \in PreRecord /\ frame[t].job \in Jobs
      BY <1>5 DEF RecordJob, PreRecord, SubmitSteps, TypeOK, SubmitOK
    <3> QED
      BY <3>1 DEF Base, JobsNew
  <2>4. ~Ended(frame[t].job)
    BY <2>3 DEF Mapped, Ended, TerminalStates, Absent
  <2> QED
    BY <2>1, <2>2, <2>4
<1>6. CASE ~(CleanupStep(t) \/ StatusUpdate(t) \/ CancelUpdate(t) \/ RecordJob(t))
  <2>1. CASE \E j \in Jobs : Submit(t, j)
    BY <1>1, <2>1, SubmitBeginsOrderly
  <2>2. CASE StatusBegin(t) \/ ScaleIn(t) \/ ScaleInCancels(t) \/ \E J \in SUBSET Jobs : Cancel(t, J)
    <3>1. UNCHANGED job_map
      BY <2>2 DEF StatusBegin, ScaleIn, ScaleInCancels, Cancel, provVars
    <3> QED
      BY <1>1, <2>2, <3>1, StatusBeginOrderly, CancelsOrderly
  <2>3. CASE SubmitStep(t)
    <3>1. UNCHANGED job_map
      BY <1>6, <2>3 DEF SubmitStep, SubmitUninitialized, TakeWarm, TakeCold, DispatchWarm, TrackWarm, Create, WaitRunning,
         Deliver, TrackCold, SaveJob, provVars
    <3> QED
      BY <1>1, <1>6, <2>3, <3>1, SubmitOrderly, SaveJobOrderly
  <2>4. CASE Group(t) \/ PollSsm(t) \/ PollEc2(t) \/ PollRaises(t) \/ SaveStatus(t) \/ CancelCall(t)
    <3>1. UNCHANGED job_map
      BY <2>4 DEF Group, PollSsm, PollEc2, PollRaises, SaveStatus, CancelCall, Heard, provVars
    <3> QED
      BY <1>1, <2>4, <3>1, AskingOrderly, PollRaisesOrderly, SaveStatusOrderly, CancelCallOrderly
  <2> QED
    BY <1>2, <1>6, <2>1, <2>2, <2>3, <2>4 DEF Call, Continue, StatusStep, CancelStep
<1> QED
  BY <1>3, <1>4, <1>5, <1>6

\* Only EC2 makes an instance be gone.
LEMMA NoneGoneStep ==
  ASSUME TypeOK, NoneGone, OneCaller, [Next]_vars
  PROVE  NoneGone'
<1>1. ASSUME NEW S, Terminate(S)
      PROVE  \A i \in Instances : ec2'[i] = "gone" => ec2[i] = "gone"
  BY <1>1 DEF Terminate
<1>2. ASSUME NEW t \in Threads, Call(t) \/ Continue(t)
      PROVE  \A i \in Instances : ec2'[i] = "gone" => ec2[i] = "gone"
  <2>1. CASE SubmitStep(t)
    BY <1>1, <2>1 DEF SubmitStep, SubmitUninitialized, TakeWarm, TakeCold, DispatchWarm, TrackWarm, Create, WaitRunning,
       Deliver, TrackCold, RecordJob, SaveJob, SendCommand, TrackCommand, RunInstance, RunInstanceFails, TrackInstance,
       WaitFails, Abandon, awsVars, TypeOK, ModeTypeOK, AwsTypeOK
  <2>2. CASE StatusStep(t)
    BY <2>2 DEF StatusStep, Group, PollSsm, PollEc2, PollRaises, StatusUpdate, SaveStatus, PollCommands, PollInstances,
       PollCommandsRaises, awsVars
  <2>3. CASE CancelStep(t)
    BY <1>1, <2>3 DEF CancelStep, ScaleInCancels, CancelCall, CancelUpdate, CancelJobs, awsVars
  <2>4. CASE CleanupStep(t)
    BY <1>1, <2>4 DEF CleanupStep, Scan, PoolSnapshot, TransitionSkipped, TransitionToPool, TransitionEvicting, Unlist,
       TerminateDoomed, CleanupResources, Forget, SavePass, SavePassMode, Finish, SaveCancel, awsVars
  <2>5. CASE ShutdownStep(t)
    BY <1>1, <2>5 DEF ShutdownStep, Infrastructure, CleanupAll, CleanupResources, Deinitialize, FinishInfrastructure,
       Clear, Erase, awsVars
  <2>6. CASE Call(t)
    BY <2>6 DEF Call, Submit, StatusBegin, Cancel, ScaleIn, Shutdown, awsVars
  <2> QED
    BY <1>2, <2>1, <2>2, <2>3, <2>4, <2>5, <2>6 DEF Continue
<1>3. CASE Tick \/ Rest \/ UNCHANGED vars
  BY <1>3 DEF Tick, Rest, vars, awsVars, NoneGone
<1>4. CASE Environment
  <2>1. CASE WarmPoolSize > 0
    <3>1. \A i \in Instances : ~ForgetInstance(i)
      BY <2>1 DEF ForgetInstance, Fault, OneCaller
    <3>2. \A i \in Instances : ec2'[i] = "gone" => ec2[i] = "gone"
      BY <1>1, <1>4, <3>1 DEF Environment, FinishCommand, ShutDownAfter, Reclaim, HandleInstanceInterruption,
         TypeOK, ModeTypeOK, AwsTypeOK
    <3> QED
      BY <3>2 DEF NoneGone
  <2> QED
    BY <2>1 DEF NoneGone
<1>5. ~Restart
  BY DEF Restart, Fault, OneCaller
<1> QED
  BY <1>2, <1>3, <1>4, <1>5 DEF Next, NoneGone

\* One caller's books start in order.
LEMMA InitOrderly ==
  ASSUME Init
  PROVE  NoneGone /\ Orderly
<1>1. /\ \A i \in Instances : ec2[i] = "unused" /\ resources[i].status = Absent
      /\ \A j \in Jobs : job_map[j].status = Absent
      /\ \A t \in Threads : pc[t] = "idle" /\ frame[t].told = NoStatuses
      /\ Len(warm_instances) = 0
  BY DEF Init, ModeInit, NoRecord, NoEntry, NoFrame
<1> QED
  BY <1>1 DEF NoneGone, Orderly, BooksAlike, ListedWarm, EndsTold, CallFits, Recorded, Mapped, Ended, TerminalStates,
     Asking, CancelSteps, NoStatuses, Absent

\* Every step of one caller's provider keeps its books in order, and leaves in job_map
\* the end of every job it does not drop.
LEMMA OrderlyStep ==
  ASSUME TypeOK, TypeOK', Base, Methodical, NoneGone, Orderly, OneCaller, [Next]_vars
  PROVE  /\ Orderly'
         /\ \A j \in Jobs : Ended(j) => job_map'[j] = job_map[j] \/ job_map'[j].status = Absent
<1>1. ~Restart
  BY DEF Restart, Fault, OneCaller
<1>2. CASE \E t \in Threads : Call(t) \/ Continue(t)
  BY <1>2, CallerOrderly
<1>3. CASE Tick \/ Environment \/ Rest \/ UNCHANGED vars
  BY <1>3, OutsideOrderly
<1> QED
  BY <1>1, <1>2, <1>3 DEF Next

\* What is kept of one caller's provider.
OneCallerKept == TypeOK /\ Base /\ Methodical /\ NoneGone /\ Orderly

\* It is kept.
LEMMA OneCallerOrderly ==
  ASSUME OneCaller
  PROVE  /\ Init => OneCallerKept
         /\ OneCallerKept /\ [Next]_vars => OneCallerKept'
<1>1. Init => OneCallerKept
  BY InitType, InitBase, InitMethod, InitOrderly DEF OneCallerKept
<1>2. ASSUME OneCallerKept, [Next]_vars
      PROVE  OneCallerKept'
  <2>1. "crash" \notin Faults
    BY DEF OneCaller
  <2>2. TypeOK'
    BY <1>2, TypeStep DEF OneCallerKept
  <2>3. Base' /\ Methodical' /\ NoneGone'
    BY <1>2, <2>1, <2>2, BaseStep, MethodStep, NoneGoneStep DEF OneCallerKept
  <2>4. Orderly'
    BY <1>2, <2>2, OrderlyStep DEF OneCallerKept
  <2> QED
    BY <2>2, <2>3, <2>4 DEF OneCallerKept
<1> QED
  BY <1>1, <1>2

\* The end that job_map has for a job stays what it is until the job is dropped, so
\* status() may answer from the map: for one thread that cancels no job it has seen end.
THEOREM EndsAreFinal ==
  ASSUME OneCaller
  PROVE  Spec => TerminalIsFinal
<1> DEFINE Left == \A j \in Jobs : job_map[j].status \in TerminalStates
                                     => job_map'[j].status \in {job_map[j].status, Absent}
<1>1. OneCallerKept /\ OneCallerKept' /\ [Next]_vars => [Left]_vars
  BY OrderlyStep DEF OneCallerKept, Ended
<1> HIDE DEF Left
<1>2. (Init => OneCallerKept) /\ (OneCallerKept /\ [Next]_vars => OneCallerKept')
  BY OneCallerOrderly
<1>3. Spec => [][Left]_vars
  BY <1>1, <1>2, PTL DEF Spec
<1> QED
  BY <1>3 DEF TerminalIsFinal, Left

-----------------------------------------------------------------------------
(* One caller with a warm pool: what the statuses say of reused instances. *)

\* i takes a command, unless AWS is reclaiming it.
Up(i) == Tracked(i) /\ (ec2[i] = "running" \/ i \in warned)
Fallen == {"FAILED", "CANCELED", "INTERRUPTED"}

\* A job that job_map calls completed has succeeded; one whose instance is to go is
\* over, or was cancelled, or is being interrupted.
EndsTrue ==
  /\ \A j \in Jobs : job_map[j].status = "COMPLETED" => command[j] = "success"
  /\ \A i \in Instances : resources[i].status \in Fallen =>
       command[resources[i].job] # "inprogress" \/ resources[i].job \in cancelled \/ i \in warned

\* The mode's records name the jobs the provider's do, and what is recorded is up.
RecordsTrue ==
  /\ \A i \in Instances : mode_resources[i].status = "INTERRUPTED" => i \in warned
  /\ \A i \in Instances : Recorded(i) /\ Tracked(i) =>
       mode_resources[i].cmd = resources[i].job \/ \E t \in Threads : pc[t] = "record" /\ frame[t].rid = i
  /\ \A i \in Instances : Recorded(i) /\ resources[i].status \notin Fallen =>
       Up(i) \/ \E t \in Threads : pc[t] \in {"cancel_update", "forget"} /\ i \in frame[t].rids

\* What a poll has been told of the instances it asks for.
ToldTrue(t, i) ==
  /\ frame[t].told[i] # Absent => i \in frame[t].rids
  /\ frame[t].told[i] # "CANCELED"
  /\ frame[t].told[i] = "COMPLETED" => command[resources[i].job] = "success"
  /\ frame[t].told[i] = "FAILED" => command[resources[i].job] # "inprogress"
  /\ frame[t].told[i] = "INTERRUPTED" => i \in warned

\* What a call has in hand is as it believes.
CallKnows(t) ==
  /\ pc[t] \in Held => Up(frame[t].rid)
  /\ pc[t] \in {"deliver", "track_cold"} => ~Recorded(frame[t].rid)
  /\ pc[t] = "record" => mode_resources[frame[t].rid].cmd = frame[t].job
  /\ pc[t] \in Asking => /\ \A i \in frame[t].rids : Ongoing(i)
                         /\ frame[t].todo \subseteq frame[t].rids
                         /\ \A i \in Instances : ToldTrue(t, i)
  /\ pc[t] \in {"cancel_call", "cancel_update"} => \A i \in frame[t].rids :
       Ongoing(i) /\ resources[i].job \in frame[t].jobs \cap cancelled
  /\ pc[t] = "cancel_update" => \A i \in Instances :
       frame[t].told[i] = IF i \in frame[t].rids THEN "CANCELED" ELSE Absent
  /\ pc[t] = "transition" => \A i \in frame[t].pool : resources[i].status = "WARM"
  /\ pc[t] \in Passing \ {"scan"} => \A i \in frame[t].rids : resources[i].status \in Fallen \cup {"WARM"}

PoolTrue == EndsTrue /\ RecordsTrue /\ \A t \in Threads : CallKnows(t)

\* Commands end for good and start only for jobs that no record names yet; marks stay.
Grown ==
  /\ \A j \in Jobs : command[j] = "success" => command'[j] = "success"
  /\ \A i \in Instances : Recorded(i) /\ command'[resources[i].job] = "inprogress" =>
       command[resources[i].job] = "inprogress"
  /\ warned \subseteq warned' /\ cancelled \subseteq cancelled'

\* So it is in every step.
LEMMA Grows ==
  ASSUME TypeOK, TypeOK', Base, SentToHost, "crash" \notin Faults, [Next]_vars
  PROVE  Grown
<1>1. Advancing
  BY Advance
<1>2. ASSUME NEW i \in Instances, Recorded(i), command'[resources[i].job] = "inprogress"
      PROVE  command[resources[i].job] = "inprogress"
  <2>1. resources[i].job \in Jobs
    BY <1>2, BookEntries
  <2>2. CASE Ending
    BY <1>2, <2>1, <2>2 DEF Ending
  <2>3. ASSUME NEW t \in Threads, NEW k \in Instances, Sending(t, k)
        PROVE  command[resources[i].job] = "inprogress"
    <3>1. pc[t] \in PreRecord /\ frame[t].job \in Jobs
      BY <2>3 DEF Sending, PreRecord, SubmitSteps, TypeOK, SubmitOK
    <3>2. ~Submitted(frame[t].job)
      BY <3>1 DEF Base, JobsNew
    <3>3. resources[i].job # frame[t].job
      BY <3>1, <3>2 DEF Base, JobsNew
    <3>4. command' = [command EXCEPT ![frame[t].job] = "inprogress"]
      BY <2>3 DEF Sending, StartCommand
    <3> QED
      BY <1>2, <2>1, <3>3, <3>4 DEF TypeOK, ModeTypeOK, AwsTypeOK
  <2> QED
    BY <2>2, <2>3, CommandStep
<1> QED
  BY <1>1, <1>2 DEF Grown, Advancing

\* A step of the only caller that leaves the provider's books alone.
LEMMA StandsTrue ==
  ASSUME PoolTrue, OneThread, NEW t \in Threads, Grown, UNCHANGED <<resources, job_map>>, TypeOK,
         \A i \in Instances : mode_resources'[i].status = "INTERRUPTED" => i \in warned',
         \A i \in Instances : Recorded(i) /\ Tracked(i)' =>
           mode_resources'[i].cmd = resources[i].job \/ (pc'[t] = "record" /\ frame'[t].rid = i),
         \A i \in Instances : Recorded(i) /\ resources[i].status \notin Fallen =>
           Up(i)' \/ (pc'[t] \in {"cancel_update", "forget"} /\ i \in frame'[t].rids),
         CallKnows(t)'
  PROVE  PoolTrue'
<1>1. \A i \in Instances : resources[i].status \in Fallen => Recorded(i)
  BY DEF Fallen, Recorded, Absent
<1>2. EndsTrue'
  BY <1>1 DEF PoolTrue, EndsTrue, Grown
<1>3. RecordsTrue'
  BY DEF RecordsTrue, Recorded
<1> QED
  BY <1>2, <1>3 DEF PoolTrue, OneThread

\* ... and the mode's records and EC2 too.
LEMMA StandsQuiet ==
  ASSUME TypeOK, PoolTrue, OneThread, NEW t \in Threads, Grown, UNCHANGED <<resources, job_map, mode_resources, ec2>>,
         pc[t] \notin {"record", "cancel_update", "forget"}, CallKnows(t)'
  PROVE  PoolTrue'
<1>1. \A i \in Instances : mode_resources'[i].status = "INTERRUPTED" => i \in warned'
  BY DEF PoolTrue, RecordsTrue, Grown
<1>2. \A i \in Instances : Recorded(i) /\ Tracked(i)' => mode_resources'[i].cmd = resources[i].job
  BY DEF PoolTrue, RecordsTrue, OneThread, Tracked
<1>3. \A i \in Instances : Recorded(i) /\ resources[i].status \notin Fallen => Up(i)'
  BY DEF PoolTrue, RecordsTrue, OneThread, Up, Tracked, Grown
<1> QED
  BY <1>1, <1>2, <1>3, StandsTrue

\* A call with nothing in hand.
LEMMA KnowsNothing ==
  ASSUME NEW t \in Threads, pc'[t] \notin Held \cup Asking \cup {"cancel_call", "cancel_update", "transition"},
         pc'[t] \in Passing \ {"scan"} => frame'[t].rids = {}
  PROVE  CallKnows(t)'
BY DEF CallKnows, Held, Asking

\* A step that is no call's: marks and commands change, and up is up.
LEMMA OutsideTrue ==
  ASSUME TypeOK, PoolTrue, Grown, Reliable, WarmPoolSize > 0, Tick \/ Environment \/ Rest \/ UNCHANGED vars
  PROVE  PoolTrue'
<1>1. UNCHANGED <<resources, job_map, pc, frame, cancelled>>
  BY DEF Tick, Environment, Rest, vars, provVars, callVars
<1>2. /\ \A i \in Instances : /\ mode_resources'[i].cmd = mode_resources[i].cmd /\ (Tracked(i)' <=> Tracked(i))
                              /\ mode_resources'[i].status = "INTERRUPTED" => i \in warned'
                              /\ Up(i) => Up(i)'
  <2>1. CASE Environment
    <3>1. CASE \E j \in Jobs : FinishCommand(j) \/ ShutDownAfter(j)
      <4>1. UNCHANGED <<mode_resources, ec2, warned>>
        BY <3>1, ModeAssumption DEF FinishCommand, ShutDownAfter, UsesSsmDispatch, modeVars
      <4> QED
        BY <4>1 DEF PoolTrue, RecordsTrue, Tracked, Up
    <3>2. ASSUME NEW k \in Instances, Reclaim(k)
          PROVE  UNCHANGED <<mode_resources, warned>> /\ \A i \in Instances : i # k => ec2'[i] = ec2[i]
      BY <3>2 DEF Reclaim, Terminate, modeVars
    <3>3. CASE \E k \in Instances : Reclaim(k)
      <4>1. PICK k \in Instances : Reclaim(k)
        BY <3>3
      <4>2. k \in warned /\ UNCHANGED <<mode_resources, warned>> /\ \A i \in Instances : i # k => ec2'[i] = ec2[i]
        BY <3>2, <4>1 DEF Reclaim
      <4> QED
        BY <4>2 DEF PoolTrue, RecordsTrue, Tracked, Up
    <3>4. \A k \in Instances : ~ForgetInstance(k)
      BY DEF ForgetInstance, Fault, Reliable
    <3>5. ASSUME NEW k \in Instances, HandleInstanceInterruption(k)
          PROVE  /\ UNCHANGED ec2 /\ warned' = warned \cup {k}
                 /\ \A i \in Instances : /\ mode_resources'[i].cmd = mode_resources[i].cmd
                                         /\ Tracked(i)' <=> Tracked(i)
                                         /\ i # k => mode_resources'[i] = mode_resources[i]
      <4>1. \A i \in Instances : mode_resources[i] \in ModeRecord
        BY DEF TypeOK, ModeTypeOK
      <4> QED
        BY <3>5, <4>1 DEF HandleInstanceInterruption, TypeOK, ModeTypeOK, ModeRecord, Tracked, Absent
    <3>6. CASE \E k \in Instances : HandleInstanceInterruption(k)
      BY <3>5, <3>6 DEF PoolTrue, RecordsTrue, Up
    <3> QED
      BY <2>1, <3>1, <3>3, <3>4, <3>6 DEF Environment
  <2>2. CASE Tick \/ Rest \/ UNCHANGED vars
    BY <2>2 DEF Tick, Rest, vars, modeVars, awsVars, PoolTrue, RecordsTrue, Tracked, Up
  <2> QED
    BY <2>1, <2>2
<1>3. \A i \in Instances : resources[i].status \in Fallen => Recorded(i)
  BY DEF Fallen, Recorded, Absent
<1>4. EndsTrue'
  BY <1>1, <1>3 DEF PoolTrue, EndsTrue, Grown
<1>5. RecordsTrue'
  BY <1>1, <1>2 DEF PoolTrue, RecordsTrue, Recorded
<1>6. ASSUME NEW t \in Threads
      PROVE  CallKnows(t)'
  <2> USE <1>1, <1>2
  <2>1. CallKnows(t) /\ frame[t] \in Frame
    BY DEF PoolTrue, TypeOK, CallsTypeOK
  <2>2. pc[t] \in Held => frame[t].rid \in Instances
    BY DEF TypeOK, SubmitOK, Held, SubmitSteps
  <2>3. ASSUME pc[t] \in Asking, NEW i \in Instances
        PROVE  ToldTrue(t, i)'
    <3>1. ToldTrue(t, i) /\ (i \in frame[t].rids => Recorded(i))
      BY <2>1, <2>3 DEF CallKnows, Ongoing
    <3>2. Recorded(i) => resources[i].job \in Jobs
      BY BookEntries
    <3> QED
      BY <3>1, <3>2 DEF ToldTrue, Grown, Absent
  <2> QED
    BY <2>1, <2>2, <2>3 DEF CallKnows, Recorded, Ongoing, Held
<1> QED
  BY <1>4, <1>5, <1>6 DEF PoolTrue

\* What runs on an instance whose record the pool holds or nobody has: nothing.
LEMMA IdleHost ==
  ASSUME TypeOK, Base, LiveCommand, Orderly, PoolTrue, NEW j \in Jobs, command[j] = "inprogress",
         resources[host[j]].status \in {Absent, "WARM"}
  PROVE  \E t \in Threads : Sent(t) /\ pc[t] # "save_job" /\ frame[t].job = j /\ frame[t].rid = host[j]
<1>1. host[j] \in Instances
  BY DEF LiveCommand
<1>2. ~Mapped(j)
  <2> SUFFICES ASSUME Mapped(j) PROVE FALSE
    OBVIOUS
  <2>1. job_map[j].rid = host[j] /\ job_map[j].status # "COMPLETED"
    BY DEF Base, HostsKnown, PoolTrue, EndsTrue
  <2>2. resources[host[j]].job = j
    BY <2>1 DEF Orderly, BooksAlike
  <2>3. Recorded(host[j])
    BY <1>1, <2>2, BookEntries, ModeAssumption
  <2> QED
    BY <1>1, <2>1, <2>2, <2>3 DEF Orderly, BooksAlike, Recorded, Shown
<1> QED
  BY <1>2 DEF LiveCommand, Base, HostsKnown

\* A job at work whose submit() is over is the one its host's record names.
LEMMA WorkingHost ==
  ASSUME TypeOK, Base, Orderly, PoolTrue, NEW j \in Jobs, command[j] = "inprogress", Mapped(j)
  PROVE  resources[host[j]].job = j /\ Recorded(host[j]) /\ resources[host[j]].status # "WARM"
<1>1. job_map[j].rid = host[j] /\ job_map[j].status # "COMPLETED"
  BY DEF Base, HostsKnown, PoolTrue, EndsTrue
<1>2. resources[host[j]].job = j /\ host[j] \in Instances
  BY <1>1, BookEntries DEF Orderly, BooksAlike
<1>3. Recorded(host[j])
  BY <1>2, BookEntries, ModeAssumption
<1> QED
  BY <1>1, <1>2, <1>3 DEF Orderly, BooksAlike, Shown

\* What is listed for reuse is up.
LEMMA ListedUp ==
  ASSUME TypeOK, Orderly, PoolTrue, NEW n \in 1 .. Len(warm_instances)
  PROVE  warm_instances[n] \in Instances /\ Up(warm_instances[n])
<1> DEFINE i == warm_instances[n]
<1>1. i \in Instances /\ resources[i].status = "WARM" /\ Listed(i)
  BY DEF TypeOK, ModeTypeOK, Orderly, ListedWarm, Listed
<1> HIDE DEF i
<1>2. \A t \in Threads : pc[t] = "forget" => i \notin frame[t].rids
  BY <1>1 DEF Orderly, CallFits
<1>3. \A t \in Threads : pc[t] = "cancel_update" => i \notin frame[t].rids
  BY <1>1 DEF PoolTrue, CallKnows, Ongoing
<1>4. Recorded(i) /\ resources[i].status \notin Fallen
  BY <1>1 DEF Recorded, Absent, Fallen
<1> QED
  BY <1>1, <1>2, <1>3, <1>4 DEF PoolTrue, RecordsTrue, i

\* submit() takes the oldest listed instance, or a new one.
LEMMA PoolTakes ==
  ASSUME TypeOK, Orderly, PoolTrue, OneThread, Grown, NEW t \in Threads,
         TakeWarm(t) \/ TakeCold(t) \/ SubmitUninitialized(t) \/ \E j \in Jobs : Submit(t, j)
  PROVE  PoolTrue'
<1> USE DEF TypeOK
<1>1. /\ UNCHANGED <<resources, job_map, ec2>> /\ pc[t] \in {"take", "idle"}
  BY DEF TakeWarm, TakeCold, SubmitUninitialized, Submit, Begin, provVars, awsVars
<1>2. CASE TakeWarm(t)
  <2> DEFINE i == Head(warm_instances)
  <2>1. /\ warm_instances # << >> /\ pc'[t] = "dispatch_warm" /\ frame'[t].rid = i /\ UNCHANGED ec2
        /\ mode_resources' = IF Tracked(i) THEN [mode_resources EXCEPT ![i].status = "RUNNING"] ELSE mode_resources
    BY <1>2 DEF TakeWarm, GetWarmInstance, Goto, CallsTypeOK, Frame, awsVars
  <2>2. Len(warm_instances) \in Nat /\ Len(warm_instances) # 0 /\ i = warm_instances[1]
    BY <2>1 DEF ModeTypeOK
  <2>3. i \in Instances /\ Up(i)
    BY <2>2, ListedUp
  <2> HIDE DEF i
  <2>4. \A k \in Instances : /\ mode_resources'[k].cmd = mode_resources[k].cmd /\ (Tracked(k)' <=> Tracked(k))
                             /\ mode_resources'[k].status \in {mode_resources[k].status, "RUNNING"}
    BY <2>1, <2>3 DEF ModeTypeOK, ModeRecord, Tracked, Absent
  <2>5. \A k \in Instances : Up(k) => Up(k)'
    BY <2>1, <2>4 DEF Up, Grown
  <2>6. CallKnows(t)'
    BY <2>1, <2>3, <2>5 DEF CallKnows, Held, Asking, Passing
  <2>7. \A k \in Instances : mode_resources'[k].status = "INTERRUPTED" => k \in warned'
    BY <2>4 DEF PoolTrue, RecordsTrue, Grown
  <2>8. \A k \in Instances : Recorded(k) /\ Tracked(k)' => mode_resources'[k].cmd = resources[k].job
    BY <1>1, <2>4 DEF PoolTrue, RecordsTrue, OneThread
  <2>9. \A k \in Instances : Recorded(k) /\ resources[k].status \notin Fallen => Up(k)'
    BY <1>1, <2>5 DEF PoolTrue, RecordsTrue, OneThread
  <2> QED
    BY <1>1, <2>6, <2>7, <2>8, <2>9, StandsTrue
<1>3. CASE ~TakeWarm(t)
  <2>1. UNCHANGED mode_resources
    BY <1>3 DEF TakeCold, SubmitUninitialized, Submit, modeVars
  <2>2. pc'[t] \in {"take", "create", "idle"}
    BY <1>3 DEF TakeCold, SubmitUninitialized, Submit, Return, Goto, CallsTypeOK
  <2>3. CallKnows(t)'
    BY <2>2, KnowsNothing DEF Held, Asking, Passing
  <2> QED
    BY <1>1, <2>1, <2>3, StandsQuiet
<1> QED
  BY <1>2, <1>3

\* The command goes out.
LEMMA PoolSends ==
  ASSUME TypeOK, PoolTrue, OneThread, Grown, NEW t \in Threads, pc[t] \in {"dispatch_warm", "deliver"},
         SendCommand(frame[t].rid, frame[t].job), Goto(t, IF pc[t] = "deliver" THEN "track_cold" ELSE "track_warm"),
         UNCHANGED <<frame, mode_resources, resources, job_map>>
  PROVE  PoolTrue'
<1> USE DEF TypeOK
<1>1. /\ pc'[t] \in {"track_cold", "track_warm"} /\ (pc'[t] = "track_cold" => pc[t] = "deliver")
      /\ UNCHANGED <<ec2, warned>>
  BY DEF Goto, CallsTypeOK, SendCommand
<1>2. CallKnows(t)'
  BY <1>1 DEF PoolTrue, CallKnows, Held, Asking, Passing, Up, Tracked, Recorded
<1> QED
  BY <1>1, <1>2, StandsQuiet

\* The record of the instance takes up the command.
LEMMA PoolTracks ==
  ASSUME TypeOK, PoolTrue, OneThread, Grown, NEW t \in Threads, pc[t] \in {"track_warm", "track_cold"},
         TrackCommand(frame[t].rid, frame[t].job), Goto(t, "record"), UNCHANGED <<frame, resources, job_map>>
  PROVE  PoolTrue'
<1> USE DEF TypeOK
<1> DEFINE i == frame[t].rid
           j == frame[t].job
<1>1. i \in Instances /\ j \in Jobs
  BY DEF SubmitOK, SubmitSteps
<1>2. /\ pc'[t] = "record" /\ UNCHANGED <<ec2, warned>> /\ Tracked(i) /\ Up(i)
      /\ mode_resources' = [mode_resources EXCEPT ![i] = [status |-> "RUNNING", cmd |-> j]]
  BY DEF Goto, CallsTypeOK, TrackCommand, PoolTrue, CallKnows, Held, awsVars
<1>3. /\ mode_resources'[i] = [status |-> "RUNNING", cmd |-> j]
      /\ \A k \in Instances : k # i => mode_resources'[k] = mode_resources[k]
  BY <1>1, <1>2 DEF ModeTypeOK
<1>4. \A k \in Instances : Tracked(k)' <=> Tracked(k)
  BY <1>2, <1>3 DEF Tracked, Absent
<1>5. \A k \in Instances : Up(k) => Up(k)'
  BY <1>2, <1>4 DEF Up
<1> HIDE DEF i, j
<1>6. \A k \in Instances : mode_resources'[k].status = "INTERRUPTED" => k \in warned'
  BY <1>2, <1>3 DEF PoolTrue, RecordsTrue
<1>7. \A k \in Instances : Recorded(k) /\ Tracked(k)' =>
         mode_resources'[k].cmd = resources[k].job \/ (pc'[t] = "record" /\ frame'[t].rid = k)
  BY <1>2, <1>3, <1>4 DEF PoolTrue, RecordsTrue, OneThread, i
<1>8. \A k \in Instances : Recorded(k) /\ resources[k].status \notin Fallen => Up(k)'
  BY <1>5 DEF PoolTrue, RecordsTrue, OneThread
<1>9. CallKnows(t)'
  BY <1>1, <1>2, <1>3, <1>5 DEF CallKnows, Held, Asking, Passing, i, j
<1> QED
  BY <1>6, <1>7, <1>8, <1>9, StandsTrue

\* An instance is launched, ...
LEMMA PoolCreates ==
  ASSUME TypeOK, PoolTrue, OneThread, Grown, WarmPoolSize > 0, NEW t \in Threads, Create(t)
  PROVE  PoolTrue'
<1> USE DEF TypeOK
<1>1. /\ UNCHANGED <<resources, job_map, mode_resources, warned>> /\ pc[t] = "create" /\ pc'[t] \in {"wait", "idle"}
      /\ \A i \in Instances : ec2[i] = "running" => ec2'[i] = "running"
  BY DEF Create, RunInstance, RunInstanceFails, Return, Goto, CallsTypeOK, provVars, modeVars, ModeTypeOK, AwsTypeOK
<1>2. CallKnows(t)'
  BY <1>1, KnowsNothing DEF Held, Asking, Passing
<1>3. \A k \in Instances : Up(k) => Up(k)'
  BY <1>1 DEF Up, Tracked
<1>4. \A k \in Instances : mode_resources'[k].status = "INTERRUPTED" => k \in warned'
  BY <1>1 DEF PoolTrue, RecordsTrue
<1>5. \A k \in Instances : Recorded(k) /\ Tracked(k)' => mode_resources'[k].cmd = resources[k].job
  BY <1>1 DEF PoolTrue, RecordsTrue, OneThread, Tracked
<1>6. \A k \in Instances : Recorded(k) /\ resources[k].status \notin Fallen => Up(k)'
  BY <1>1, <1>3 DEF PoolTrue, RecordsTrue, OneThread
<1> QED
  BY <1>1, <1>2, <1>4, <1>5, <1>6, StandsTrue

\* ... and tracked once it is up: no record names it yet.
LEMMA PoolWaits ==
  ASSUME TypeOK, Base, PoolTrue, OneThread, Grown, WarmPoolSize > 0, NEW t \in Threads, WaitRunning(t)
  PROVE  PoolTrue'
<1> USE DEF TypeOK
<1> DEFINE i == frame[t].rid
<1>1. i \in Instances /\ pc[t] = "wait" /\ UNCHANGED <<resources, job_map>> /\ ~Recorded(i) /\ UsesSsmDispatch
  BY DEF WaitRunning, SubmitOK, SubmitSteps, provVars, Base, InstancesNew, Handled, UsesSsmDispatch
<1>2. CASE TrackInstance(i) /\ Goto(t, "deliver") /\ UNCHANGED frame
  <2>1. /\ ec2[i] = "running" /\ UNCHANGED <<ec2, warned>> /\ pc'[t] = "deliver"
        /\ mode_resources'[i] = [status |-> "PENDING", cmd |-> NoJob]
        /\ \A k \in Instances : k # i => mode_resources'[k] = mode_resources[k]
    BY <1>1, <1>2 DEF TrackInstance, Goto, CallsTypeOK, ModeTypeOK, awsVars
  <2>2. Up(i)' /\ \A k \in Instances : k # i /\ Up(k) => Up(k)'
    BY <1>1, <1>2, <2>1 DEF Up, Tracked, Absent
  <2> HIDE DEF i
  <2>3. CallKnows(t)'
    BY <1>1, <1>2, <2>1, <2>2 DEF CallKnows, Held, Asking, Passing, Recorded, i
  <2>4. \A k \in Instances : mode_resources'[k].status = "INTERRUPTED" => k \in warned'
    BY <2>1 DEF PoolTrue, RecordsTrue
  <2>5. \A k \in Instances : Recorded(k) /\ Tracked(k)' => mode_resources'[k].cmd = resources[k].job
    BY <1>1, <2>1 DEF PoolTrue, RecordsTrue, OneThread, Tracked
  <2>6. \A k \in Instances : Recorded(k) /\ resources[k].status \notin Fallen => Up(k)'
    BY <1>1, <2>2 DEF PoolTrue, RecordsTrue, OneThread
  <2> QED
    BY <1>1, <2>3, <2>4, <2>5, <2>6, StandsTrue
<1>3. CASE WaitFails(i) /\ Return(t)
  <2>1. UNCHANGED <<mode_resources, ec2>> /\ pc'[t] = "idle"
    BY <1>3 DEF WaitFails, Return, Goto, CallsTypeOK, modeVars
  <2>2. CallKnows(t)'
    BY <2>1, KnowsNothing DEF Held, Asking, Passing
  <2> QED
    BY <1>1, <2>1, <2>2, StandsQuiet
<1> QED
  BY <1>1, <1>2, <1>3 DEF WaitRunning

\* A submit() that fails beside the pool returns.
LEMMA PoolFails ==
  ASSUME TypeOK, PoolTrue, OneThread, Grown, NEW t \in Threads, Return(t), pc[t] \in {"dispatch_warm", "track_warm"},
         UNCHANGED <<resources, job_map, mode_resources, ec2>>
  PROVE  PoolTrue'
<1>1. pc'[t] = "idle"
  BY DEF Return, Goto, TypeOK, CallsTypeOK
<1>2. CallKnows(t)'
  BY <1>1, KnowsNothing DEF Held, Asking, Passing
<1> QED
  BY <1>2, StandsQuiet

\* One that fails with a new instance gives it up: no record names it.
LEMMA PoolAbandons ==
  ASSUME TypeOK, PoolTrue, OneThread, Grown, NEW t \in Threads, Return(t), pc[t] \in {"deliver", "track_cold"},
         Abandon(frame[t].rid), UNCHANGED <<resources, job_map>>
  PROVE  PoolTrue'
<1> USE DEF TypeOK
<1> DEFINE i == frame[t].rid
<1>1. i \in Instances /\ ~Recorded(i) /\ pc'[t] = "idle"
  BY DEF SubmitOK, SubmitSteps, PoolTrue, CallKnows, Return, Goto, CallsTypeOK
<1>2. /\ \A k \in Instances : k # i => ec2'[k] = ec2[k] /\ mode_resources'[k] = mode_resources[k]
      /\ mode_resources'[i] = NoModeRecord
  BY <1>1 DEF Abandon, Terminate, ModeTypeOK
<1> HIDE DEF i
<1>3. CallKnows(t)'
  BY <1>1, KnowsNothing DEF Held, Asking, Passing
<1>4. \A k \in Instances : mode_resources'[k].status = "INTERRUPTED" => k \in warned'
  BY <1>2 DEF PoolTrue, RecordsTrue, Grown, NoModeRecord, Absent
<1>5. \A k \in Instances : Recorded(k) /\ Tracked(k)' => mode_resources'[k].cmd = resources[k].job
  BY <1>1, <1>2 DEF PoolTrue, RecordsTrue, OneThread, Tracked
<1>6. \A k \in Instances : Recorded(k) /\ resources[k].status \notin Fallen => Up(k)'
  BY <1>1, <1>2 DEF PoolTrue, RecordsTrue, OneThread, Up, Tracked, Grown
<1> QED
  BY <1>3, <1>4, <1>5, <1>6, StandsTrue

\* submit() records what it has tracked.
LEMMA PoolRecords ==
  ASSUME TypeOK, PoolTrue, OneThread, Grown, NEW t \in Threads, RecordJob(t)
  PROVE  PoolTrue'
<1> USE DEF TypeOK
<1> DEFINE i == frame[t].rid
           j == frame[t].job
<1>1. /\ i \in Instances /\ j \in Jobs /\ pc[t] = "record" /\ pc'[t] = "save_job"
      /\ UNCHANGED <<mode_resources, ec2, command, warned, cancelled>>
  BY DEF RecordJob, SubmitOK, SubmitSteps, Goto, CallsTypeOK, modeVars, awsVars
<1>2. /\ resources'[i] = [job |-> j, status |-> "PENDING"]
      /\ \A k \in Instances : k # i => resources'[k] = resources[k]
      /\ job_map'[j].status = "PENDING"
      /\ \A k \in Jobs : k # j => job_map'[k] = job_map[k]
  BY <1>1 DEF RecordJob, BooksTypeOK
<1>3. Up(i) /\ mode_resources[i].cmd = j
  BY <1>1 DEF PoolTrue, CallKnows, Held
<1>4. \A k \in Instances : k # i /\ Recorded(k) /\ Tracked(k) => mode_resources[k].cmd = resources[k].job
  BY <1>1 DEF PoolTrue, RecordsTrue, OneThread
<1>5. \A k \in Instances : k # i /\ Recorded(k) /\ resources[k].status \notin Fallen => Up(k)
  BY <1>1 DEF PoolTrue, RecordsTrue, OneThread
<1> HIDE DEF i, j
<1>6. EndsTrue'
  BY <1>1, <1>2 DEF PoolTrue, EndsTrue, Fallen
<1>7. RecordsTrue'
  <2>1. \A k \in Instances : Recorded(k)' /\ Tracked(k)' => mode_resources'[k].cmd = resources'[k].job
    BY <1>1, <1>2, <1>3, <1>4 DEF Recorded, Tracked
  <2>2. \A k \in Instances : Recorded(k)' /\ resources'[k].status \notin Fallen => Up(k)'
    BY <1>1, <1>2, <1>3, <1>5 DEF Recorded, Up, Tracked
  <2> QED
    BY <1>1, <2>1, <2>2 DEF PoolTrue, RecordsTrue
<1>8. CallKnows(t)'
  BY <1>1, KnowsNothing DEF Held, Asking, Passing
<1> QED
  BY <1>6, <1>7, <1>8 DEF PoolTrue, OneThread

\* submit() with a warm pool.
LEMMA PoolSubmits ==
  ASSUME TypeOK, Base, Orderly, PoolTrue, OneThread, Grown, WarmPoolSize > 0, NEW t \in Threads,
         SubmitStep(t) \/ \E j \in Jobs : Submit(t, j)
  PROVE  PoolTrue'
<1>1. CASE DispatchWarm(t)
  <2>1. UNCHANGED <<resources, job_map, mode_resources>> /\ pc[t] = "dispatch_warm"
    BY <1>1 DEF DispatchWarm, provVars, modeVars
  <2> QED
    BY <1>1, <2>1, PoolSends, PoolFails DEF DispatchWarm
<1>2. CASE TrackWarm(t)
  <2>1. UNCHANGED <<resources, job_map>> /\ pc[t] = "track_warm"
    BY <1>2 DEF TrackWarm, provVars
  <2> QED
    BY <1>2, <2>1, PoolTracks, PoolFails DEF TrackWarm, modeVars, awsVars
<1>3. CASE Deliver(t)
  <2>1. UNCHANGED <<resources, job_map>> /\ pc[t] = "deliver"
    BY <1>3 DEF Deliver, provVars
  <2> QED
    BY <1>3, <2>1, PoolSends, PoolAbandons DEF Deliver, modeVars
<1>4. CASE TrackCold(t)
  <2>1. UNCHANGED <<resources, job_map>> /\ pc[t] = "track_cold"
    BY <1>4 DEF TrackCold, provVars
  <2> QED
    BY <1>4, <2>1, PoolTracks, PoolAbandons DEF TrackCold
<1>5. CASE SaveJob(t)
  <2>1. UNCHANGED <<resources, job_map, mode_resources, ec2>> /\ pc[t] = "save_job" /\ pc'[t] = "idle"
    BY <1>5 DEF SaveJob, modeVars, awsVars, Return, Goto, TypeOK, CallsTypeOK
  <2>2. CallKnows(t)'
    BY <2>1, KnowsNothing DEF Held, Asking, Passing
  <2> QED
    BY <2>1, <2>2, StandsQuiet
<1> QED
  BY <1>1, <1>2, <1>3, <1>4, <1>5, PoolTakes, PoolCreates, PoolWaits, PoolRecords DEF SubmitStep

\* The instance of a job not over is at work.
LEMMA OngoingHost ==
  ASSUME TypeOK, Orderly, NEW j \in Jobs, Mapped(j), ~Ended(j)
  PROVE  /\ job_map[j].rid \in Instances /\ resources[job_map[j].rid].job = j
         /\ Ongoing(job_map[j].rid)
<1> DEFINE i == job_map[j].rid
<1>1. i \in Instances /\ job_map[j].status # "COMPLETED"
  BY BookEntries DEF Ended, TerminalStates
<1>2. resources[i].job = j
  BY <1>1 DEF Orderly, BooksAlike
<1>3. Recorded(i)
  BY <1>1, <1>2, BookEntries, ModeAssumption
<1> HIDE DEF i
<1>4. job_map[j].status = Shown(resources[i].status)
  BY <1>1, <1>2, <1>3 DEF Orderly, BooksAlike
<1>5. Ongoing(i)
  BY <1>1, <1>3, <1>4 DEF Ongoing, Shown, Ended, TerminalStates
<1> QED
  BY <1>1, <1>2, <1>5 DEF i

\* status() begins with what is at work.
LEMMA PoolAsks ==
  ASSUME TypeOK, Orderly, PoolTrue, OneThread, Grown, NEW t \in Threads, StatusBegin(t)
  PROVE  PoolTrue'
<1> USE DEF TypeOK
<1> DEFINE R == {job_map[j].rid : j \in {j \in AcceptedJobs : Mapped(j)} \ Settled}
           K == [j \in Jobs |-> IF j \in Settled THEN job_map[j].status ELSE Absent]
<1>1. /\ frame'[t] = [NoFrame EXCEPT !.method = "status", !.jobs = AcceptedJobs, !.rids = R, !.known = K]
      /\ pc[t] = "idle" /\ pc'[t] \in {"update", "group"}
      /\ UNCHANGED <<resources, job_map, mode_resources, ec2>>
  BY DEF StatusBegin, Begin, Goto, CallsTypeOK, provVars, modeVars, awsVars
<1>2. \A i \in R : Ongoing(i)
  BY OngoingHost DEF Settled, Ended, AcceptedJobs
<1> HIDE DEF R, K
<1>3. frame'[t].rids = R /\ frame'[t].todo = {} /\ frame'[t].told = NoStatuses
  BY <1>1 DEF NoFrame
<1>4. \A i \in R : Ongoing(i)'
  BY <1>1, <1>2 DEF Ongoing, Recorded
<1>5. \A i \in Instances : ToldTrue(t, i)'
  BY <1>3 DEF ToldTrue, NoStatuses, Absent
<1>6. CallKnows(t)'
  BY <1>1, <1>3, <1>4, <1>5 DEF CallKnows, Held, Asking, Passing
<1> QED
  BY <1>1, <1>6, StandsQuiet

\* What the mode has been told of an instance is true of it.
LEMMA PoolGroups ==
  ASSUME TypeOK, PoolTrue, OneThread, Grown, NEW t \in Threads, Group(t)
  PROVE  PoolTrue'
<1> USE DEF TypeOK
<1> DEFINE m == LocalStatuses(frame[t].rids)
           a == MustAskAws(frame[t].rids)
<1>1. /\ frame'[t] = [frame[t] EXCEPT !.told = m, !.todo = a] /\ frame[t] \in Frame
      /\ pc[t] = "group" /\ pc'[t] = "poll"
      /\ UNCHANGED <<resources, job_map, mode_resources, ec2, warned>>
  BY DEF Group, Goto, CallsTypeOK, provVars, modeVars, awsVars
<1>2. a \subseteq frame[t].rids
  BY DEF MustAskAws
<1>3. \A i \in Instances : /\ m[i] \in {Absent, "UNKNOWN", "INTERRUPTED"} /\ (m[i] # Absent => i \in frame[t].rids)
                           /\ m[i] = "INTERRUPTED" => i \in warned
  BY DEF LocalStatuses, Absent, PoolTrue, RecordsTrue
<1> HIDE DEF m, a
<1>4. frame'[t].told = m /\ frame'[t].todo = a /\ frame'[t].rids = frame[t].rids
  BY <1>1 DEF Frame
<1>5. \A i \in frame[t].rids : Ongoing(i)'
  BY <1>1 DEF PoolTrue, CallKnows, Asking, Ongoing, Recorded
<1>6. \A i \in Instances : ToldTrue(t, i)'
  BY <1>1, <1>3, <1>4 DEF ToldTrue, Absent
<1>7. CallKnows(t)'
  BY <1>1, <1>2, <1>4, <1>5, <1>6 DEF CallKnows, Held, Asking, Passing
<1> QED
  BY <1>1, <1>7, StandsQuiet

\* Answers leave the mode's records in place.
LEMMA AnswersStand ==
  ASSUME TypeOK, PoolTrue, OneThread, Grown, UNCHANGED ec2, NEW t \in Threads, pc[t] = "poll",
         NEW S \in SUBSET Instances, NEW answer, \A i \in S : Tracked(i) /\ answer[i] \in Answers,
         mode_resources' = WithAnswers(S, answer)
  PROVE  /\ \A i \in Instances : mode_resources'[i].status = "INTERRUPTED" => i \in warned'
         /\ \A i \in Instances : Recorded(i) /\ Tracked(i)' => mode_resources'[i].cmd = resources[i].job
         /\ \A i \in Instances : Recorded(i) /\ resources[i].status \notin Fallen => Up(i)'
<1> USE DEF TypeOK
<1>1. \A i \in Instances : mode_resources[i] \in ModeRecord
  BY DEF ModeTypeOK
<1>2. ASSUME NEW i \in Instances
      PROVE  /\ mode_resources'[i].cmd = mode_resources[i].cmd
             /\ mode_resources'[i].status \in {mode_resources[i].status} \cup (Answers \ {"UNKNOWN"})
  BY <1>1 DEF WithAnswers, ModeRecord
<1>3. \A i \in Instances : Tracked(i)' <=> Tracked(i)
  <2>1. \A i \in Instances : i \notin S => mode_resources'[i] = mode_resources[i]
    BY DEF WithAnswers
  <2> QED
    BY <1>2, <2>1 DEF Tracked, Answers, Absent
<1>4. \A i \in Instances : mode_resources'[i].status = "INTERRUPTED" => i \in warned'
  BY <1>2 DEF PoolTrue, RecordsTrue, Grown, Answers
<1>5. \A i \in Instances : Recorded(i) /\ Tracked(i) => mode_resources[i].cmd = resources[i].job
  BY DEF PoolTrue, RecordsTrue, OneThread
<1>6. \A i \in Instances : Recorded(i) /\ resources[i].status \notin Fallen => Up(i)'
  BY <1>3 DEF PoolTrue, RecordsTrue, OneThread, Up, Grown
<1> QED
  BY <1>2, <1>3, <1>4, <1>5, <1>6

\* Polled, SSM tells the truth about the command the record names: the job's.
LEMMA PoolPolls ==
  ASSUME TypeOK, PoolTrue, OneThread, Grown, NEW t \in Threads, PollSsm(t)
  PROVE  PoolTrue'
<1> USE DEF TypeOK
<1> DEFINE S == frame[t].todo
<1>1. PICK answer \in [S -> Answers] : PollCommands(S, answer) /\ Heard(t, answer)
  BY DEF PollSsm
<1> DEFINE m == [i \in Instances |-> IF i \in S THEN answer[i] ELSE frame[t].told[i]]
<1>2. /\ frame'[t] = [frame[t] EXCEPT !.told = m, !.todo = {}] /\ frame[t] \in Frame
      /\ pc[t] = "poll" /\ pc'[t] = "update"
      /\ UNCHANGED <<resources, job_map, ec2, command, warned>>
  BY <1>1 DEF PollSsm, Heard, PollCommands, Goto, CallsTypeOK, provVars
<1>3. /\ S \in SUBSET Instances /\ mode_resources' = WithAnswers(S, answer)
      /\ \A i \in S : Tracked(i) /\ answer[i] \in CommandStatus(i) \cup {"UNKNOWN"} /\ answer[i] \in Answers
  BY <1>1, <1>2 DEF PollCommands, Frame
<1>4. /\ \A i \in frame[t].rids : Ongoing(i)
      /\ S \subseteq frame[t].rids
      /\ \A i \in Instances : ToldTrue(t, i)
  BY <1>2 DEF PoolTrue, CallKnows, Asking
<1>5. ASSUME NEW i \in S
      PROVE  /\ answer[i] = "COMPLETED" => command[resources[i].job] = "success"
             /\ answer[i] = "FAILED" => command[resources[i].job] # "inprogress"
             /\ answer[i] \notin {"CANCELED", "INTERRUPTED"}
  <2>1. i \in Instances /\ Recorded(i) /\ Tracked(i)
    BY <1>3, <1>4 DEF Ongoing
  <2>2. mode_resources[i].cmd = resources[i].job
    BY <1>2, <2>1 DEF PoolTrue, RecordsTrue, OneThread
  <2>3. answer[i] \in CommandStatus(i) \cup {"UNKNOWN"} /\ answer[i] \in Answers
    BY <1>3
  <2> QED
    BY <2>2, <2>3 DEF CommandStatus, Answers
<1>6. \A i \in Instances : m[i] = IF i \in S THEN answer[i] ELSE frame[t].told[i]
  OBVIOUS
<1> HIDE DEF m
<1>7. frame'[t].told = m /\ frame'[t].todo = {} /\ frame'[t].rids = frame[t].rids
  BY <1>2 DEF Frame
<1>8. \A i \in Instances : ToldTrue(t, i)'
  BY <1>2, <1>4, <1>5, <1>6, <1>7 DEF ToldTrue
<1>9. \A i \in frame[t].rids : Ongoing(i)'
  BY <1>2, <1>4 DEF Ongoing, Recorded
<1>10. CallKnows(t)'
  BY <1>2, <1>7, <1>8, <1>9 DEF CallKnows, Held, Asking, Passing
<1> HIDE DEF S
<1>11. /\ \A i \in Instances : mode_resources'[i].status = "INTERRUPTED" => i \in warned'
       /\ \A i \in Instances : Recorded(i) /\ Tracked(i)' => mode_resources'[i].cmd = resources[i].job
       /\ \A i \in Instances : Recorded(i) /\ resources[i].status \notin Fallen => Up(i)'
  BY <1>2, <1>3, AnswersStand
<1> QED
  BY <1>2, <1>10, <1>11, StandsTrue

\* The poll raises half way.
LEMMA PoolPollRaises ==
  ASSUME TypeOK, PoolTrue, OneThread, Grown, NEW t \in Threads, PollRaises(t)
  PROVE  PoolTrue'
<1> USE DEF TypeOK
<1>0. PICK done \in SUBSET frame[t].todo : \E answer \in [done -> Answers] :
        PollCommandsRaises(frame[t].todo, done, answer)
  BY DEF PollRaises
<1>1. PICK answer \in [done -> Answers] : PollCommandsRaises(frame[t].todo, done, answer)
  BY <1>0
<1>2. /\ frame[t] \in Frame /\ pc[t] = "poll" /\ UNCHANGED <<resources, job_map>> /\ pc'[t] \in {"scan", "idle"}
  BY DEF PollRaises, ToCleanup, Return, Goto, CallsTypeOK, provVars
<1>3. /\ done \in SUBSET Instances /\ mode_resources' = WithAnswers(done, answer) /\ UNCHANGED ec2
      /\ \A i \in done : Tracked(i) /\ answer[i] \in Answers
  BY <1>1, <1>2 DEF PollCommandsRaises, Frame
<1>4. CallKnows(t)'
  BY <1>2, KnowsNothing DEF Held, Asking, Passing
<1>5. /\ \A i \in Instances : mode_resources'[i].status = "INTERRUPTED" => i \in warned'
      /\ \A i \in Instances : Recorded(i) /\ Tracked(i)' => mode_resources'[i].cmd = resources[i].job
      /\ \A i \in Instances : Recorded(i) /\ resources[i].status \notin Fallen => Up(i)'
  BY <1>2, <1>3, AnswersStand
<1> QED
  BY <1>2, <1>4, <1>5, StandsTrue

\* What is written back of the jobs J is what m says of their instances.
Written(J, m) ==
  /\ \A j \in Jobs :
       \/ job_map'[j] = job_map[j]
       \/ LET i == job_map[j].rid IN
          i \in Instances /\ resources[i].job = j /\ Ongoing(i) /\ job_map'[j].status = m[i]
  /\ \A i \in Instances :
       \/ resources'[i] = resources[i]
       \/ Ongoing(i) /\ resources'[i].job = resources[i].job /\ resources'[i].status = m[i]
  /\ \A i \in Instances : Ongoing(i) /\ resources[i].job \in J /\ m[i] # Absent => resources'[i].status = m[i]

\* It is for jobs not over.
LEMMA WritesBack ==
  ASSUME TypeOK, Orderly, UNCHANGED warm_instances, NEW J \in SUBSET Jobs, NEW m, \A i \in Instances : m[i] # "WARM",
         WriteBack(J, m), \A j \in J : ~Ended(j)
  PROVE  Written(J, m)
<1>1. /\ \A j \in Jobs :
           \/ job_map'[j] = job_map[j]
           \/ LET i == job_map[j].rid IN
              /\ j \in J /\ i \in Instances /\ job_map'[j].rid = i /\ m[i] # Absent
              /\ job_map'[j].status = m[i] /\ resources'[i].status = m[i] /\ resources'[i].job = j
      /\ \A i \in Instances :
           \/ resources'[i] = resources[i]
           \/ Ongoing(i) /\ resources'[i].job = resources[i].job /\ resources'[i].status = m[i]
  BY WriteBackFits DEF Orderly
<1>2. ASSUME NEW j \in Jobs, job_map'[j] # job_map[j]
      PROVE  LET i == job_map[j].rid IN
             i \in Instances /\ resources[i].job = j /\ Ongoing(i) /\ job_map'[j].status = m[i]
  <2>1. j \in J /\ job_map'[j].status = m[job_map[j].rid]
    BY <1>1, <1>2
  <2>2. Mapped(j)
    BY <1>2 DEF WriteBack
  <2> QED
    BY <2>1, <2>2, OngoingHost
<1>3. ASSUME NEW i \in Instances, Ongoing(i), resources[i].job \in J, m[i] # Absent
      PROVE  resources'[i].status = m[i]
  <2> DEFINE j == resources[i].job
  <2>1. Mapped(j) /\ job_map[j].rid = i /\ Recorded(i) /\ j \in J
    BY <1>3 DEF Ongoing, Orderly, BooksAlike
  <2>2. resources'[i] = [resources[i] EXCEPT !.status = m[i]]
    BY <1>3, <2>1 DEF WriteBack
  <2> QED
    BY <2>2, BookEntries DEF Record, NoRecord
<1> QED
  BY <1>1, <1>2, <1>3 DEF Written

\* Writing back what is true of the instances at work.
LEMMA WritesTruth ==
  ASSUME TypeOK, Orderly, PoolTrue, OneThread, NEW t \in Threads, pc[t] \in {"update", "cancel_update"},
         UNCHANGED <<warm_instances, mode_resources, ec2, command, warned, cancelled>>,
         NEW J \in SUBSET Jobs, \A j \in J : ~Ended(j), NEW m, \A i \in Instances : m[i] # "WARM", WriteBack(J, m),
         \A i \in Instances : Ongoing(i) /\ m[i] = "COMPLETED" => command[resources[i].job] = "success",
         \A i \in Instances : Ongoing(i) /\ m[i] \in Fallen =>
           command[resources[i].job] # "inprogress" \/ resources[i].job \in cancelled \/ i \in warned,
         \A i \in Instances : Recorded(i) /\ resources[i].status \notin Fallen =>
           Up(i) \/ (Ongoing(i) /\ resources[i].job \in J /\ m[i] \in Fallen),
         CallKnows(t)'
  PROVE  PoolTrue'
<1>0. UNCHANGED warm_instances
  OBVIOUS
<1>w. Written(J, m)
  BY <1>0, WritesBack
<1>1. /\ \A j \in Jobs :
           \/ job_map'[j] = job_map[j]
           \/ LET i == job_map[j].rid IN
              i \in Instances /\ resources[i].job = j /\ Ongoing(i) /\ job_map'[j].status = m[i]
      /\ \A i \in Instances :
           \/ resources'[i] = resources[i]
           \/ Ongoing(i) /\ resources'[i].job = resources[i].job /\ resources'[i].status = m[i]
      /\ \A i \in Instances : Ongoing(i) /\ resources[i].job \in J /\ m[i] # Absent => resources'[i].status = m[i]
  BY <1>w DEF Written
<1>2. EndsTrue'
  <2>1. ASSUME NEW j \in Jobs, job_map'[j].status = "COMPLETED"
        PROVE  command[j] = "success"
    <3>1. CASE job_map'[j] = job_map[j]
      BY <2>1, <3>1 DEF PoolTrue, EndsTrue
    <3>2. CASE job_map'[j] # job_map[j]
      BY <1>1, <2>1, <3>2
    <3> QED
      BY <3>1, <3>2
  <2>2. ASSUME NEW i \in Instances, resources'[i].status \in Fallen
        PROVE  /\ resources'[i].job = resources[i].job
               /\ command[resources[i].job] # "inprogress" \/ resources[i].job \in cancelled \/ i \in warned
    <3>1. CASE resources'[i] = resources[i]
      BY <2>2, <3>1 DEF PoolTrue, EndsTrue
    <3>2. CASE resources'[i] # resources[i]
      BY <1>1, <2>2, <3>2
    <3> QED
      BY <3>1, <3>2
  <2> QED
    BY <2>1, <2>2 DEF EndsTrue
<1>3. \A i \in Instances : resources'[i].job = resources[i].job /\ (Recorded(i)' => Recorded(i))
  BY <1>1 DEF Ongoing, Recorded
<1>4. \A i \in Instances : Recorded(i) /\ Tracked(i) => mode_resources[i].cmd = resources[i].job
  BY DEF PoolTrue, RecordsTrue, OneThread
<1>5. ASSUME NEW i \in Instances, Recorded(i)', resources'[i].status \notin Fallen
      PROVE  Up(i)
  <2>1. Recorded(i) /\ (resources'[i].status = resources[i].status \/ Ongoing(i))
    BY <1>1, <1>3, <1>5
  <2>2. resources[i].status \notin Fallen
    BY <1>5, <2>1 DEF Ongoing, Fallen, TerminalStates
  <2>3. ~(Ongoing(i) /\ resources[i].job \in J /\ m[i] \in Fallen)
    BY <1>1, <1>5 DEF Fallen, Absent
  <2> QED
    BY <2>1, <2>2, <2>3
<1>6. RecordsTrue'
  <2>1. \A i \in Instances : mode_resources'[i].status = "INTERRUPTED" => i \in warned'
    BY DEF PoolTrue, RecordsTrue
  <2>2. \A i \in Instances : Recorded(i)' /\ Tracked(i)' => mode_resources'[i].cmd = resources'[i].job
    BY <1>3, <1>4 DEF Tracked
  <2>3. \A i \in Instances : Recorded(i)' /\ resources'[i].status \notin Fallen => Up(i)'
    BY <1>5 DEF Up, Tracked
  <2> QED
    BY <2>1, <2>2, <2>3 DEF RecordsTrue
<1> QED
  BY <1>2, <1>6 DEF PoolTrue, OneThread

\* status() writes what it was told.
LEMMA PoolStatusUpdate ==
  ASSUME TypeOK, Orderly, PoolTrue, OneThread, Grown, NEW t \in Threads, StatusUpdate(t)
  PROVE  PoolTrue'
<1> USE DEF TypeOK
<1> DEFINE J == {j \in frame[t].jobs : frame[t].known[j] = Absent}
           m == frame[t].told
<1>1. /\ pc[t] = "update" /\ pc'[t] = "save_status" /\ WriteBack(J, m) /\ J \in SUBSET Jobs
      /\ UNCHANGED <<warm_instances, mode_resources, ec2, command, warned, cancelled>>
  BY DEF StatusUpdate, Goto, CallsTypeOK, Frame, modeVars, awsVars
<1>2. /\ \A i \in Instances : m[i] # "WARM"
      /\ \A j \in J : ~Ended(j)
  BY <1>1 DEF Orderly, CallFits, Asking, Ended, TerminalStates, Absent
<1>3. \A i \in Instances : ToldTrue(t, i)
  BY <1>1 DEF PoolTrue, CallKnows, Asking
<1>4. /\ \A i \in Instances : m[i] = "COMPLETED" => command[resources[i].job] = "success"
      /\ \A i \in Instances : m[i] \in Fallen =>
           command[resources[i].job] # "inprogress" \/ resources[i].job \in cancelled \/ i \in warned
  BY <1>3 DEF ToldTrue, Fallen
<1>5. \A i \in Instances : Recorded(i) /\ resources[i].status \notin Fallen => Up(i)
  BY <1>1 DEF PoolTrue, RecordsTrue, OneThread
<1>6. CallKnows(t)'
  BY <1>1, KnowsNothing DEF Held, Asking, Passing
<1> HIDE DEF J, m
<1> QED
  BY <1>1, <1>2, <1>4, <1>5, <1>6, WritesTruth

\* cancel() takes on what is at work.
LEMMA PoolCollects ==
  ASSUME TypeOK, Orderly, PoolTrue, OneThread, Grown, NEW t \in Threads, pc[t] \in {"idle", "cancel"},
         UNCHANGED <<resources, job_map, mode_resources, ec2>>,
         NEW method, NEW J \in SUBSET Jobs, \A j \in J : ~Ended(j), Collect(t, method, J)
  PROVE  PoolTrue'
<1> USE DEF TypeOK
<1> DEFINE R == {job_map[j].rid : j \in {j \in J : Mapped(j)}}
<1>1. /\ frame'[t] = [NoFrame EXCEPT !.method = method, !.jobs = J, !.rids = R]
      /\ pc'[t] = "cancel_call" /\ cancelled' = cancelled \cup J
  BY DEF Collect, Goto, CallsTypeOK
<1>2. \A i \in R : Ongoing(i) /\ resources[i].job \in J
  BY OngoingHost
<1> HIDE DEF R
<1>3. frame'[t].jobs = J /\ frame'[t].rids = R
  BY <1>1 DEF NoFrame
<1>4. \A i \in R : Ongoing(i)' /\ resources'[i].job \in J \cap cancelled'
  BY <1>1, <1>2 DEF Ongoing, Recorded
<1>5. CallKnows(t)'
  BY <1>1, <1>3, <1>4 DEF CallKnows, Held, Asking, Passing
<1> QED
  BY <1>5, StandsQuiet

\* So do its callers.
LEMMA PoolCancels ==
  ASSUME TypeOK, Orderly, PoolTrue, OneCaller, Grown, NEW t \in Threads,
         ScaleIn(t) \/ ScaleInCancels(t) \/ \E J \in SUBSET Jobs : Cancel(t, J)
  PROVE  PoolTrue'
<1> USE DEF TypeOK
<1>1. OneThread /\ ~CancelFinished /\ UNCHANGED <<resources, job_map, mode_resources, ec2>>
  BY DEF OneCaller, ScaleIn, ScaleInCancels, Cancel, provVars, modeVars, awsVars
<1>2. ASSUME NEW J \in SUBSET Jobs, Cancel(t, J)
      PROVE  PoolTrue'
  <2>1. pc[t] = "idle" /\ Collect(t, "cancel", J) /\ \A j \in J : reported[j] \notin TerminalStates
    BY <1>1, <1>2 DEF Cancel, Begin
  <2>2. \A j \in Jobs : ~Collecting(j)
    BY <1>1, <2>1 DEF Collecting, OneThread, Passing
  <2>3. \A j \in J : ~Ended(j)
    BY <2>1, <2>2 DEF Orderly, EndsTold
  <2> QED
    BY <1>1, <2>1, <2>3, PoolCollects
<1>3. CASE ScaleInCancels(t)
  <2>1. pc[t] = "cancel" /\ Collect(t, "scale_in", frame[t].jobs)
    BY <1>3 DEF ScaleInCancels
  <2>2. frame[t].jobs \in SUBSET Jobs /\ \A j \in frame[t].jobs : ~Ended(j)
    BY <2>1 DEF CallsTypeOK, Frame, Orderly, CallFits, CancelSteps
  <2> QED
    BY <1>1, <2>1, <2>2, PoolCollects
<1>4. CASE ScaleIn(t)
  <2>1. pc[t] = "idle" /\ pc'[t] = "cancel"
    BY <1>4 DEF ScaleIn, Begin, Goto, CallsTypeOK
  <2>2. CallKnows(t)'
    BY <2>1, KnowsNothing DEF Held, Asking, Passing
  <2> QED
    BY <1>1, <2>1, <2>2, StandsQuiet
<1> QED
  BY <1>2, <1>3, <1>4

\* cancel_jobs() terminates what it was given: none of it is gone, all of it is tracked.
LEMMA PoolCancelCall ==
  ASSUME TypeOK, PoolTrue, OneThread, Grown, NoneGone, Reliable, WarmPoolSize > 0, NEW t \in Threads, CancelCall(t)
  PROVE  PoolTrue'
<1> USE DEF TypeOK
<1> DEFINE R == frame[t].rids
           T == {i \in R : Tracked(i)}
<1>1. /\ frame[t] \in Frame /\ pc[t] = "cancel_call" /\ pc'[t] = "cancel_update"
      /\ UNCHANGED <<resources, job_map, cancelled>>
  BY DEF CancelCall, Goto, CallsTypeOK, provVars
<1>2. R \subseteq Instances /\ \A i \in R : Ongoing(i) /\ resources[i].job \in frame[t].jobs \cap cancelled
  BY <1>1 DEF Frame, PoolTrue, CallKnows
<1>3. PICK outcome \in CancelOutcomes :
        /\ CancelJobs(R, outcome)
        /\ frame' = [frame EXCEPT ![t].told = CancelStatuses(R, outcome)]
  BY DEF CancelCall
<1>4. outcome = "CANCELED"
  BY <1>2, <1>3 DEF CancelJobs, Known, NoneGone, CancelOutcomes, Fault, Reliable
<1>5. \A i \in R : Tracked(i)
  <2> SUFFICES ASSUME NEW i \in R PROVE Tracked(i)
    OBVIOUS
  <2>1. i \in Instances /\ Recorded(i) /\ resources[i].status \notin Fallen
    BY <1>2 DEF Ongoing, Fallen, TerminalStates
  <2> QED
    BY <1>1, <2>1 DEF PoolTrue, RecordsTrue, OneThread, Up
<1> DEFINE m == CancelStatuses(R, outcome)
<1>6. \A i \in Instances : m[i] = IF i \in R THEN "CANCELED" ELSE Absent
  BY <1>4, <1>5 DEF CancelStatuses
<1> HIDE DEF m
<1>7. frame'[t].told = m /\ frame'[t].jobs = frame[t].jobs /\ frame'[t].rids = R
  BY <1>1, <1>3 DEF CallsTypeOK, Frame, m
<1>8. /\ \A i \in Instances : i \notin R => ec2'[i] = ec2[i] /\ mode_resources'[i] = mode_resources[i]
      /\ \A i \in Instances : i \in R => mode_resources'[i] = [mode_resources[i] EXCEPT !.status = "CANCELED"]
      /\ UNCHANGED warned
  BY <1>3, <1>4, <1>5 DEF CancelJobs, Terminate
<1> HIDE DEF R
<1>9. \A i \in Instances : /\ mode_resources'[i].cmd = mode_resources[i].cmd
                           /\ mode_resources'[i].status \in {mode_resources[i].status, "CANCELED"}
                           /\ i \notin R => (Tracked(i)' <=> Tracked(i))
                           /\ i \in R => Tracked(i)
  <2>1. \A i \in Instances : mode_resources[i] \in ModeRecord
    BY DEF ModeTypeOK
  <2> QED
    BY <1>5, <1>8, <2>1 DEF ModeRecord, Tracked
<1>10. \A i \in Instances : mode_resources'[i].status = "INTERRUPTED" => i \in warned'
  BY <1>8, <1>9 DEF PoolTrue, RecordsTrue
<1>11. \A i \in Instances : Recorded(i) /\ Tracked(i)' => mode_resources'[i].cmd = resources[i].job
  BY <1>1, <1>9 DEF PoolTrue, RecordsTrue, OneThread
<1>12. \A i \in Instances : Recorded(i) /\ resources[i].status \notin Fallen =>
         Up(i)' \/ (pc'[t] \in {"cancel_update", "forget"} /\ i \in frame'[t].rids)
  BY <1>1, <1>7, <1>8, <1>9 DEF PoolTrue, RecordsTrue, OneThread, Up
<1>13. \A i \in R : Ongoing(i)' /\ resources'[i].job \in frame'[t].jobs \cap cancelled'
  BY <1>1, <1>2, <1>7 DEF Ongoing, Recorded, R
<1>14. CallKnows(t)'
  BY <1>1, <1>6, <1>7, <1>13 DEF CallKnows, Held, Asking, Passing
<1> QED
  BY <1>1, <1>10, <1>11, <1>12, <1>14, StandsTrue

\* cancel() marks all of it canceled, for its caller's sake.
LEMMA PoolCancelUpdate ==
  ASSUME TypeOK, Orderly, PoolTrue, OneThread, Grown, NEW t \in Threads, CancelUpdate(t)
  PROVE  PoolTrue'
<1> USE DEF TypeOK
<1> DEFINE J == frame[t].jobs
           m == frame[t].told
           R == frame[t].rids
<1>1. /\ pc[t] = "cancel_update" /\ pc'[t] \in {"scan", "idle"} /\ WriteBack(J, m) /\ J \in SUBSET Jobs
      /\ UNCHANGED <<warm_instances, mode_resources, ec2, command, warned, cancelled>>
  BY DEF CancelUpdate, ToCleanup, Return, Goto, CallsTypeOK, Frame, modeVars, awsVars
<1>2. /\ \A i \in Instances : m[i] = IF i \in R THEN "CANCELED" ELSE Absent
      /\ \A i \in R : Ongoing(i) /\ resources[i].job \in J \cap cancelled
  BY <1>1 DEF PoolTrue, CallKnows
<1>3. \A j \in J : ~Ended(j)
  BY <1>1 DEF Orderly, CallFits, CancelSteps
<1>4. \A i \in Instances : Recorded(i) /\ resources[i].status \notin Fallen => Up(i) \/ i \in R
  BY <1>1 DEF PoolTrue, RecordsTrue, OneThread
<1>5. CallKnows(t)'
  BY <1>1, KnowsNothing DEF Held, Asking, Passing
<1> HIDE DEF J, m, R
<1>6. /\ \A i \in Instances : m[i] # "WARM" /\ (Ongoing(i) /\ m[i] = "COMPLETED" => command[resources[i].job] = "success")
      /\ \A i \in Instances : Ongoing(i) /\ m[i] \in Fallen =>
           command[resources[i].job] # "inprogress" \/ resources[i].job \in cancelled \/ i \in warned
      /\ \A i \in Instances : Recorded(i) /\ resources[i].status \notin Fallen =>
           Up(i) \/ (Ongoing(i) /\ resources[i].job \in J /\ m[i] \in Fallen)
  BY <1>2, <1>4 DEF Fallen, Absent
<1> QED
  BY <1>1, <1>3, <1>5, <1>6, WritesTruth

\* What a round of the warm pool's loop has in hand is as it believes.
LEMMA RoundKnows ==
  ASSUME TypeOK, OneThread, NEW t \in Threads, NEW i \in Instances, NEW R, NEW P, NEW d, TransitionRound(t, i, R, P, d),
         \A k \in R : resources'[k].status \in Fallen \cup {"WARM"},
         \A k \in P : resources'[k].status = "WARM"
  PROVE  CallKnows(t)'
<1> DEFINE rest == frame[t].todo \ {i}
           next == IF rest # {} THEN "transition" ELSE AfterPool(t, R, d)
           todo == IF next = "unlist" THEN R ELSE rest
<1>1. /\ frame[t] \in Frame /\ pc'[t] = next
      /\ frame'[t] = IF next = "idle" THEN NoFrame
                     ELSE [frame[t] EXCEPT !.rids = R, !.dirty = d, !.pool = P, !.todo = todo]
  BY DEF TransitionRound, Goto, TypeOK, CallsTypeOK
<1>2. next \in {"transition", "unlist", "terminate", "forget", "finish", "idle"}
  BY DEF AfterPool
<1> HIDE DEF next, todo, rest
<1>3. next # "idle" => frame'[t].rids = R /\ frame'[t].pool = P
  BY <1>1 DEF Frame
<1> QED
  BY <1>1, <1>2, <1>3 DEF CallKnows, Held, Asking, Passing

\* The scan dooms what is fallen, and what has been warm too long.
LEMMA PoolScans ==
  ASSUME TypeOK, PoolTrue, OneThread, Grown, WarmPoolSize > 0, NEW t \in Threads, Scan(t) \/ PoolSnapshot(t) \/ Unlist(t)
  PROVE  PoolTrue'
<1> USE DEF TypeOK
<1>1. /\ frame[t] \in Frame /\ pc[t] \in {"scan", "pool", "unlist"}
      /\ UNCHANGED <<resources, job_map, mode_resources, ec2>>
  BY DEF Scan, PoolSnapshot, Unlist, CallsTypeOK, provVars, modeVars, awsVars
<1>2. CASE Scan(t)
  <2> DEFINE next == IF Reusable # {} THEN "pool" ELSE AfterPool(t, Doomed, FALSE)
             rest == IF next = "unlist" THEN Doomed ELSE Reusable
  <2>1. /\ pc'[t] = next
        /\ frame'[t] = IF next = "idle" THEN NoFrame ELSE [frame[t] EXCEPT !.rids = Doomed, !.todo = rest]
    BY <1>2 DEF Scan, Goto, CallsTypeOK
  <2>2. next \in {"pool", "unlist", "terminate", "idle", "finish"}
    BY DEF AfterPool
  <2>3. \A i \in Doomed : resources[i].status \in Fallen \cup {"WARM"}
    BY DEF Doomed, Expired, InStatus, Fallen
  <2> HIDE DEF next, rest
  <2>4. next # "idle" => frame'[t].rids = Doomed
    BY <1>1, <2>1 DEF Frame
  <2>5. \A i \in Doomed : resources'[i].status \in Fallen \cup {"WARM"}
    BY <1>1, <2>3
  <2>6. CallKnows(t)'
    BY <2>1, <2>2, <2>4, <2>5 DEF CallKnows, Held, Asking, Passing
  <2> QED
    BY <1>1, <2>6, StandsQuiet
<1>3. CASE PoolSnapshot(t)
  <2>1. /\ pc[t] = "pool" /\ pc'[t] = "transition" /\ frame'[t] = [frame[t] EXCEPT !.pool = InStatus({"WARM"})]
    BY <1>3 DEF PoolSnapshot, Goto, CallsTypeOK
  <2>2. frame'[t].rids = frame[t].rids /\ frame'[t].pool = InStatus({"WARM"})
    BY <1>1, <2>1 DEF Frame
  <2>3. /\ \A i \in InStatus({"WARM"}) : resources[i].status = "WARM"
        /\ \A i \in frame[t].rids : resources[i].status \in Fallen \cup {"WARM"}
    BY <2>1 DEF InStatus, PoolTrue, CallKnows, Passing
  <2>4. CallKnows(t)'
    BY <1>1, <2>1, <2>2, <2>3 DEF CallKnows, Held, Asking, Passing
  <2> QED
    BY <1>1, <2>4, StandsQuiet
<1>4. CASE Unlist(t)
  <2>1. pc[t] = "unlist" /\ pc'[t] \in {"terminate", "unlist"}
    BY <1>4 DEF Unlist, Goto, CallsTypeOK
  <2>2. frame'[t].rids = frame[t].rids
    BY <1>4, <1>1 DEF Unlist, CallsTypeOK, Frame
  <2>3. \A i \in frame[t].rids : resources'[i].status \in Fallen \cup {"WARM"}
    BY <1>1, <2>1 DEF PoolTrue, CallKnows, Passing
  <2>4. CallKnows(t)'
    BY <2>1, <2>2, <2>3 DEF CallKnows, Held, Asking, Passing
  <2> QED
    BY <1>1, <2>4, StandsQuiet
<1> QED
  BY <1>2, <1>3, <1>4

\* COMPLETED turns WARM, and what is true of an instance that may be reused stays so.
LEMMA PoolMarks ==
  ASSUME TypeOK, Orderly, PoolTrue, OneThread, NEW t \in Threads, pc[t] = "transition", NEW i \in Instances,
         i \in frame[t].todo, NEW R, NEW P, NEW d, TransitionRound(t, i, R, P, d), R \subseteq Instances, P \subseteq Instances,
         \A k \in R : resources[k].status \in Fallen \cup {"WARM"},
         \A k \in P : k = i \/ resources[k].status = "WARM", MarkWarm(i),
         UNCHANGED <<mode_resources, ec2, command, warned, cancelled>>
  PROVE  PoolTrue'
<1> USE DEF TypeOK
<1>1. /\ resources[i].status = "COMPLETED" /\ resources[i] \in Record /\ UNCHANGED job_map
      /\ resources' = [resources EXCEPT ![i].status = "WARM"]
  BY DEF Orderly, CallFits, MarkWarm, BooksTypeOK
<1>2. /\ resources'[i].status = "WARM" /\ resources'[i].job = resources[i].job
      /\ \A k \in Instances : k # i => resources'[k] = resources[k]
  BY <1>1 DEF BooksTypeOK, Record, NoRecord
<1>3. \A k \in Instances : /\ resources'[k].job = resources[k].job
                           /\ Recorded(k)' <=> Recorded(k)
                           /\ resources'[k].status \in Fallen <=> resources[k].status \in Fallen
  BY <1>1, <1>2 DEF Recorded, Absent, Fallen
<1>4. EndsTrue'
  BY <1>1, <1>3 DEF PoolTrue, EndsTrue
<1>5. RecordsTrue'
  <2>1. \A k \in Instances : Recorded(k) /\ Tracked(k) => mode_resources[k].cmd = resources[k].job
    BY DEF PoolTrue, RecordsTrue, OneThread
  <2>2. \A k \in Instances : Recorded(k) /\ resources[k].status \notin Fallen => Up(k)
    BY DEF PoolTrue, RecordsTrue, OneThread
  <2>3. \A k \in Instances : Recorded(k)' /\ Tracked(k)' => mode_resources'[k].cmd = resources'[k].job
    BY <1>3, <2>1 DEF Tracked
  <2>4. \A k \in Instances : Recorded(k)' /\ resources'[k].status \notin Fallen => Up(k)'
    BY <1>3, <2>2 DEF Up, Tracked
  <2>5. \A k \in Instances : mode_resources'[k].status = "INTERRUPTED" => k \in warned'
    BY DEF PoolTrue, RecordsTrue
  <2> QED
    BY <2>3, <2>4, <2>5 DEF RecordsTrue
<1>6. CallKnows(t)'
  <2>1. /\ \A k \in R : resources'[k].status \in Fallen \cup {"WARM"}
        /\ \A k \in P : resources'[k].status = "WARM"
    BY <1>2
  <2> QED
    BY <2>1, RoundKnows
<1> QED
  BY <1>4, <1>5, <1>6 DEF PoolTrue, OneThread

\* The warm pool's loop.
LEMMA PoolTransitions ==
  ASSUME TypeOK, Orderly, PoolTrue, OneThread, Grown, NEW t \in Threads,
         TransitionSkipped(t) \/ TransitionToPool(t) \/ TransitionEvicting(t)
  PROVE  PoolTrue'
<1> USE DEF TypeOK
<1>1. frame[t] \in Frame /\ pc[t] = "transition" /\ UNCHANGED <<mode_resources, ec2, command, warned, cancelled>>
  BY DEF TransitionSkipped, TransitionToPool, TransitionEvicting, CallsTypeOK, modeVars, awsVars
<1>2. frame[t].rids \in SUBSET Instances /\ frame[t].todo \in SUBSET Instances /\ frame[t].pool \in SUBSET Instances
  BY <1>1 DEF Frame
<1>3. /\ \A k \in frame[t].pool : resources[k].status = "WARM"
      /\ \A k \in frame[t].rids : resources[k].status \in Fallen \cup {"WARM"}
  BY <1>1 DEF PoolTrue, CallKnows, Passing
<1>4. CASE TransitionSkipped(t)
  <2>1. PICK i \in frame[t].todo : TransitionRound(t, i, frame[t].rids, frame[t].pool, frame[t].dirty)
    BY <1>4 DEF TransitionSkipped
  <2>2. UNCHANGED <<resources, job_map>>
    BY <1>4 DEF TransitionSkipped, provVars
  <2> DEFINE R == frame[t].rids
             P == frame[t].pool
             d == frame[t].dirty
  <2>3. /\ TransitionRound(t, i, R, P, d) /\ i \in Instances
        /\ \A k \in R : resources'[k].status \in Fallen \cup {"WARM"}
        /\ \A k \in P : resources'[k].status = "WARM"
    BY <1>2, <1>3, <2>1, <2>2
  <2> HIDE DEF R, P, d
  <2>4. CallKnows(t)'
    BY <2>3, RoundKnows
  <2> QED
    BY <1>1, <2>2, <2>4, StandsQuiet
<1>5. CASE TransitionToPool(t)
  <2>1. PICK i \in frame[t].todo :
          MarkWarm(i) /\ TransitionRound(t, i, frame[t].rids, frame[t].pool \cup {i}, TRUE)
    BY <1>5 DEF TransitionToPool
  <2> DEFINE R == frame[t].rids
             P == frame[t].pool \cup {i}
  <2>2. /\ TransitionRound(t, i, R, P, TRUE) /\ i \in Instances /\ R \subseteq Instances /\ P \subseteq Instances
        /\ \A k \in R : resources[k].status \in Fallen \cup {"WARM"}
        /\ \A k \in P : k = i \/ resources[k].status = "WARM"
    BY <1>2, <1>3, <2>1
  <2> HIDE DEF R, P
  <2> QED
    BY <1>1, <2>1, <2>2, PoolMarks
<1>6. CASE TransitionEvicting(t)
  <2>0. PICK i \in frame[t].todo : \E oldest \in frame[t].pool :
          MarkWarm(i) /\ TransitionRound(t, i, frame[t].rids \cup {oldest}, (frame[t].pool \ {oldest}) \cup {i}, TRUE)
    BY <1>6 DEF TransitionEvicting
  <2>1. PICK oldest \in frame[t].pool :
          MarkWarm(i) /\ TransitionRound(t, i, frame[t].rids \cup {oldest}, (frame[t].pool \ {oldest}) \cup {i}, TRUE)
    BY <2>0
  <2> DEFINE R == frame[t].rids \cup {oldest}
             P == (frame[t].pool \ {oldest}) \cup {i}
  <2>2. /\ TransitionRound(t, i, R, P, TRUE) /\ i \in Instances /\ R \subseteq Instances /\ P \subseteq Instances
        /\ \A k \in R : resources[k].status \in Fallen \cup {"WARM"}
        /\ \A k \in P : k = i \/ resources[k].status = "WARM"
    BY <1>2, <1>3, <2>1
  <2> HIDE DEF R, P
  <2> QED
    BY <1>1, <2>1, <2>2, PoolMarks
<1> QED
  BY <1>4, <1>5, <1>6

\* What the pass terminates is what it is about to forget.
LEMMA PoolTerminates ==
  ASSUME TypeOK, PoolTrue, OneThread, Grown, NoneGone, Reliable, WarmPoolSize > 0, NEW t \in Threads, TerminateDoomed(t)
  PROVE  PoolTrue'
<1> USE DEF TypeOK
<1> DEFINE R == frame[t].rids
<1>1. /\ frame[t] \in Frame /\ pc[t] = "terminate" /\ pc'[t] = "forget" /\ UNCHANGED <<resources, job_map, frame>>
      /\ CleanupResources(R)
  BY DEF TerminateDoomed, Goto, CallsTypeOK, provVars
<1>2. /\ R \subseteq Instances
      /\ \A i \in R : resources[i].status \in Fallen \cup {"WARM"}
  BY <1>1 DEF Frame, PoolTrue, CallKnows, Passing
<1> HIDE DEF R
<1>3. /\ \A i \in Instances : i \notin R => ec2'[i] = ec2[i] /\ mode_resources'[i] = mode_resources[i]
      /\ \A i \in Instances : i \in R => ~Tracked(i)'
  BY <1>1, <1>2 DEF CleanupResources, Known, NoneGone, Fault, Reliable, Terminate, Tracked, NoModeRecord
<1>4. \A i \in Instances : mode_resources'[i].status = "INTERRUPTED" => i \in warned'
  BY <1>3 DEF PoolTrue, RecordsTrue, Tracked, Absent, Grown
<1>5. \A i \in Instances : Recorded(i) /\ Tracked(i)' => mode_resources'[i].cmd = resources[i].job
  BY <1>1, <1>3 DEF PoolTrue, RecordsTrue, OneThread, Tracked
<1>6. \A i \in Instances : Recorded(i) /\ resources[i].status \notin Fallen =>
        Up(i)' \/ (pc'[t] \in {"cancel_update", "forget"} /\ i \in frame'[t].rids)
  BY <1>1, <1>3 DEF PoolTrue, RecordsTrue, OneThread, Up, Tracked, Grown, R
<1>7. CallKnows(t)'
  BY <1>1, <1>2 DEF CallKnows, Held, Asking, Passing, R
<1> QED
  BY <1>1, <1>4, <1>5, <1>6, <1>7, StandsTrue

\* It forgets all of it.
LEMMA PoolForgets ==
  ASSUME TypeOK, PoolTrue, OneThread, NEW t \in Threads, Forget(t)
  PROVE  PoolTrue'
<1> USE DEF TypeOK
<1> DEFINE gone == {i \in frame[t].rids : Recorded(i)}
<1>1. /\ pc[t] = "forget" /\ pc'[t] = "save_pass" /\ frame[t].rids \subseteq Instances
      /\ UNCHANGED <<mode_resources, ec2, command, warned, cancelled>>
      /\ \A i \in Instances : resources'[i] = IF i \in gone THEN NoRecord ELSE resources[i]
      /\ \A j \in Jobs : job_map'[j] \in {job_map[j], NoEntry}
  BY DEF Forget, Goto, CallsTypeOK, Frame, modeVars, awsVars
<1>2. \A i \in frame[t].rids : Recorded(i) => i \in gone
  OBVIOUS
<1> HIDE DEF gone
<1>3. \A i \in Instances : \/ resources'[i] = resources[i] /\ ~(i \in frame[t].rids /\ Recorded(i))
                           \/ resources'[i].status = Absent
  BY <1>1, <1>2 DEF NoRecord
<1>4. EndsTrue'
  BY <1>1, <1>3 DEF PoolTrue, EndsTrue, NoEntry, Fallen, Absent
<1>5. RecordsTrue'
  <2>1. \A k \in Instances : Recorded(k) /\ Tracked(k) => mode_resources[k].cmd = resources[k].job
    BY <1>1 DEF PoolTrue, RecordsTrue, OneThread
  <2>2. \A k \in Instances : Recorded(k) /\ resources[k].status \notin Fallen => Up(k) \/ k \in frame[t].rids
    BY <1>1 DEF PoolTrue, RecordsTrue, OneThread
  <2>3. \A k \in Instances : Recorded(k)' /\ Tracked(k)' => mode_resources'[k].cmd = resources'[k].job
    BY <1>1, <1>3, <2>1 DEF Tracked, Recorded
  <2>4. \A k \in Instances : Recorded(k)' /\ resources'[k].status \notin Fallen => Up(k)'
    BY <1>1, <1>3, <2>2 DEF Up, Tracked, Recorded
  <2>5. \A k \in Instances : mode_resources'[k].status = "INTERRUPTED" => k \in warned'
    BY <1>1 DEF PoolTrue, RecordsTrue
  <2> QED
    BY <2>3, <2>4, <2>5 DEF RecordsTrue
<1>6. CallKnows(t)'
  BY <1>1, KnowsNothing DEF Held, Asking, Passing
<1> QED
  BY <1>4, <1>5, <1>6 DEF PoolTrue, OneThread

\* Documents are written and the call goes on.
LEMMA PoolSaves ==
  ASSUME TypeOK, PoolTrue, OneThread, Grown, NEW t \in Threads,
         SaveStatus(t) \/ SavePass(t) \/ SavePassMode(t) \/ Finish(t) \/ SaveCancel(t)
  PROVE  PoolTrue'
<1> USE DEF TypeOK
<1>1. /\ UNCHANGED <<resources, job_map, mode_resources, ec2>>
      /\ pc[t] \in {"save_status", "save_pass", "save_mode", "finish", "save_cancel"}
      /\ pc'[t] \in {"scan", "idle", "save_mode", "finish", "save_cancel", "infrastructure"}
  BY DEF SaveStatus, SavePass, SavePassMode, Finish, SaveCancel, ToCleanup, Return, Goto, CallsTypeOK, modeVars,
     provVars, awsVars
<1>2. CallKnows(t)'
  BY <1>1, KnowsNothing DEF Held, Asking, Passing
<1> QED
  BY <1>1, <1>2, StandsQuiet

\* What the one thread does keeps all this true.
LEMMA PoolCaller ==
  ASSUME TypeOK, Base, Methodical, NoneGone, Orderly, PoolTrue, Grown, OneCaller, Reliable, WarmPoolSize > 0,
         NEW t \in Threads, Call(t) \/ Continue(t)
  PROVE  PoolTrue'
<1>1. OneThread /\ "shutdown" \notin Calls[t] /\ UsesSsmDispatch
  BY ModeAssumption DEF OneCaller, UsesSsmDispatch
<1>2. ~ShutdownStep(t) /\ ~Shutdown(t) /\ ~PollEc2(t)
  BY <1>1 DEF Methodical, ShutdownStep, Infrastructure, Deinitialize, Clear, Erase, ShutdownSteps, Shutdown, Begin, PollEc2
<1>3. CASE CleanupStep(t)
  BY <1>1, <1>3, PoolScans, PoolTransitions, PoolTerminates, PoolForgets, PoolSaves DEF CleanupStep
<1>4. CASE StatusStep(t) \/ StatusBegin(t)
  BY <1>1, <1>2, <1>4, PoolAsks, PoolGroups, PoolPolls, PoolPollRaises, PoolStatusUpdate, PoolSaves DEF StatusStep
<1>5. CASE CancelStep(t) \/ ScaleIn(t) \/ \E J \in SUBSET Jobs : Cancel(t, J)
  BY <1>1, <1>5, PoolCancels, PoolCancelCall, PoolCancelUpdate DEF CancelStep
<1>6. CASE SubmitStep(t) \/ \E j \in Jobs : Submit(t, j)
  BY <1>1, <1>6, PoolSubmits
<1> QED
  BY <1>2, <1>3, <1>4, <1>5, <1>6 DEF Call, Continue

\* And so does every step.
LEMMA PoolStep ==
  ASSUME TypeOK, TypeOK', Base, SentToHost, Methodical, NoneGone, Orderly, PoolTrue, OneCaller, Reliable,
         WarmPoolSize > 0, [Next]_vars
  PROVE  PoolTrue'
<1>1. Grown
  BY Grows DEF OneCaller
<1>2. ~Restart
  BY DEF Restart, Fault, OneCaller
<1>3. CASE \E t \in Threads : Call(t) \/ Continue(t)
  BY <1>1, <1>3, PoolCaller
<1>4. CASE Tick \/ Environment \/ Rest \/ UNCHANGED vars
  BY <1>1, <1>4, OutsideTrue
<1> QED
  BY <1>2, <1>3, <1>4 DEF Next

\* The provider starts with nothing on its books.
LEMMA InitPool ==
  ASSUME Init
  PROVE  PoolTrue
<1>1. /\ \A i \in Instances : resources[i].status = Absent /\ mode_resources[i].status = Absent
      /\ \A j \in Jobs : job_map[j].status = Absent
      /\ \A t \in Threads : pc[t] = "idle"
  BY DEF Init, ModeInit, NoRecord, NoEntry, NoModeRecord
<1> QED
  BY <1>1 DEF PoolTrue, EndsTrue, RecordsTrue, CallKnows, Recorded, Fallen, Held, Asking, Passing, Absent

-----------------------------------------------------------------------------
(* What one caller may rely on with a warm pool.                           *)

\* One caller's provider keeps a warm pool, and nothing loses a command or an instance.
Pooled == OneCaller /\ Reliable /\ WarmPoolSize > 0

\* All that is kept of it.
PoolKept == CallsAccounted /\ SentToHost /\ NoneGone /\ Orderly /\ PoolTrue /\ \A t \in Threads : Answered(t)

\* It is kept in every behaviour.
LEMMA PoolIsKept ==
  ASSUME Pooled
  PROVE  Spec => []PoolKept
<1> DEFINE Kept == SentToHost /\ NoneGone /\ Orderly /\ PoolTrue /\ \A t \in Threads : Answered(t)
<1>1. Init => Kept
  BY InitHosts, InitOrderly, InitPool DEF Init, Answered, Asking
<1>2. CallsAccounted /\ CallsAccounted' /\ Kept /\ [Next]_vars => Kept'
  <2> SUFFICES ASSUME CallsAccounted, CallsAccounted', Kept, [Next]_vars PROVE Kept'
    OBVIOUS
  <2>1. TypeOK /\ TypeOK' /\ Base /\ Methodical
    BY DEF CallsAccounted
  <2>2. OneCaller /\ Reliable /\ WarmPoolSize > 0 /\ "crash" \notin Faults /\ PollsAnswer
    BY ModeAssumption DEF Pooled, Reliable, PollsAnswer, UsesSsmDispatch
  <2>3. SentToHost'
    BY <2>1, HostStep
  <2>4. NoneGone' /\ Orderly'
    BY <2>1, <2>2, NoneGoneStep, OrderlyStep
  <2>5. PoolTrue'
    BY <2>1, <2>2, PoolStep
  <2>6. \A t \in Threads : Answered(t)'
    BY <2>1, <2>2, AnsweredStep
  <2> QED
    BY <2>3, <2>4, <2>5, <2>6
<1>3. Spec => []CallsAccounted
  BY CallsKeepAccounts DEF Pooled
<1>4. CallsAccounted /\ Kept => PoolKept
  BY DEF PoolKept
<1> HIDE DEF Kept
<1> QED
  BY <1>1, <1>2, <1>3, <1>4, PTL DEF Spec

\* Every instance get_warm_instance() may hand out is WARM in the provider's books,
\* tracked by the mode, up (or about to be reclaimed) and idle, and is listed once.
THEOREM PoolIsSound ==
  ASSUME Pooled
  PROVE  Spec => []WarmPoolSound
<1>1. PoolKept => WarmPoolSound
  <2> SUFFICES ASSUME PoolKept, NEW n \in 1 .. Len(warm_instances)
               PROVE  LET i == warm_instances[n] IN
                      /\ \A m \in 1 .. Len(warm_instances) : warm_instances[m] = i => m = n
                      /\ \A j \in Jobs : command[j] = "inprogress" => host[j] # i
                      /\ resources[i].status = "WARM" /\ Tracked(i)
                      /\ ec2[i] = "running" \/ i \in warned
    BY DEF WarmPoolSound
  <2> DEFINE i == warm_instances[n]
  <2>1. /\ TypeOK /\ Base /\ LiveCommand /\ Orderly /\ PoolTrue
    BY DEF PoolKept, CallsAccounted, Accounted
  <2>2. /\ \A m \in 1 .. Len(warm_instances) : warm_instances[m] = i => m = n
        /\ resources[i].status = "WARM" /\ Listed(i)
    BY <2>1 DEF Orderly, ListedWarm, Listed
  <2>3. i \in Instances /\ Up(i)
    BY <2>1, ListedUp
  <2> HIDE DEF i
  <2>4. ASSUME NEW j \in Jobs, command[j] = "inprogress", host[j] = i
        PROVE  FALSE
    <3>1. PICK t \in Threads : Sent(t) /\ pc[t] # "save_job" /\ frame[t].rid = i
      BY <2>1, <2>2, <2>4, IdleHost
    <3>2. pc[t] \in {"track_warm", "track_cold", "record"}
      BY <3>1, ModeAssumption DEF Sent, Pooled, UsesSsmDispatch
    <3> QED
      BY <2>1, <2>2, <3>1, <3>2 DEF Orderly, CallFits
  <2> QED
    BY <2>2, <2>3, <2>4 DEF Up, i
<1> QED
  BY <1>1, PoolIsKept, PTL

\* Reuse never puts a second command beside a live one.
THEOREM OneAtATime ==
  ASSUME Pooled
  PROVE  Spec => []AtMostOneCommand
<1>1. PoolKept => AtMostOneCommand
  <2> SUFFICES ASSUME PoolKept, NEW j \in Jobs, NEW k \in Jobs, j # k, command[j] = "inprogress", command[k] = "inprogress",
                      host[j] = host[k]
               PROVE  FALSE
    BY DEF AtMostOneCommand
  <2>1. /\ TypeOK /\ Base /\ LiveCommand /\ Orderly /\ PoolTrue /\ OneThread
    BY DEF PoolKept, CallsAccounted, Accounted, Pooled, OneCaller
  <2>2. CASE resources[host[j]].status \in {Absent, "WARM"}
    <3>1. PICK t \in Threads : frame[t].job = j
      BY <2>1, <2>2, IdleHost
    <3>2. PICK u \in Threads : frame[u].job = k
      BY <2>1, <2>2, IdleHost
    <3> QED
      BY <2>1, <3>1, <3>2 DEF OneThread
  <2>3. ASSUME resources[host[j]].status \notin {Absent, "WARM"}, NEW h \in Jobs, command[h] = "inprogress",
               host[h] = host[j]
        PROVE  Mapped(h)
    <3> SUFFICES ASSUME ~Mapped(h) PROVE FALSE
      OBVIOUS
    <3>1. PICK t \in Threads : Sent(t) /\ pc[t] # "save_job" /\ frame[t].job = h
      BY <2>1, <2>3 DEF LiveCommand
    <3>2. frame[t].rid = host[j]
      BY <2>1, <2>3, <3>1 DEF Base, HostsKnown
    <3>3. pc[t] \in {"track_warm", "track_cold", "record"}
      BY <3>1, ModeAssumption DEF Sent, Pooled, UsesSsmDispatch
    <3> QED
      BY <2>1, <2>3, <3>2, <3>3 DEF Orderly, CallFits
  <2> QED
    BY <2>1, <2>2, <2>3, WorkingHost
<1> QED
  BY <1>1, PoolIsKept, PTL

\* Without a submit() that has sent it, a command in progress is its host's own.
LEMMA HostsOwn ==
  ASSUME CallsAccounted, Orderly, PoolTrue, NEW j \in Jobs, command[j] = "inprogress", \A t \in Threads : ~Sent(t)
  PROVE  resources[host[j]].job = j /\ Recorded(host[j]) /\ resources[host[j]].status # "WARM"
<1>1. Mapped(j)
  BY DEF CallsAccounted, Accounted, LiveCommand
<1> QED
  BY <1>1, WorkingHost DEF CallsAccounted

\* Whatever the one thread terminates, nobody waits for what runs on it.
LEMMA PoolJustified ==
  ASSUME CallsAccounted, Orderly, PoolTrue, Pooled, NEW t \in Threads, Call(t) \/ Continue(t)
  PROVE  Justified
<1> USE DEF TypeOK, ModeTypeOK, AwsTypeOK
<1>1. /\ TypeOK /\ Base /\ LiveCommand /\ Methodical /\ OneThread /\ "shutdown" \notin Calls[t]
  BY DEF CallsAccounted, Accounted, Pooled, OneCaller
<1>2. ~ShutdownStep(t) /\ ~Shutdown(t)
  BY <1>1 DEF Methodical, ShutdownStep, Infrastructure, Deinitialize, Clear, Erase, ShutdownSteps, Shutdown, Begin
<1>3. CASE \/ SubmitUninitialized(t) \/ TakeWarm(t) \/ TakeCold(t) \/ TrackWarm(t)
           \/ WaitRunning(t) \/ RecordJob(t) \/ SaveJob(t) \/ \E j \in Jobs : Submit(t, j)
  BY <1>3 DEF SubmitUninitialized, TakeWarm, TakeCold, TrackWarm, TrackCommand, WaitRunning, TrackInstance, WaitFails,
     RecordJob, SaveJob, Submit, awsVars, Justified
<1>4. CASE DispatchWarm(t) \/ Create(t)
  BY <1>1, <1>4 DEF DispatchWarm, SendCommand, Create, RunInstance, RunInstanceFails, StartCommand, Justified
<1>5. CASE Deliver(t)
  <2>1. pc[t] = "deliver" /\ frame[t].rid \in Instances /\ \A u \in Threads : ~Sent(u)
    BY <1>1, <1>5 DEF Deliver, SubmitOK, SubmitSteps, Sent, OneThread
  <2>2. resources[frame[t].rid].status \in {Absent, "WARM"}
    BY <2>1 DEF Orderly, CallFits
  <2>3. \A j \in Jobs : command[j] = "inprogress" => host[j] # frame[t].rid
    BY <1>1, <2>1, <2>2, IdleHost
  <2>4. CASE SendCommand(frame[t].rid, frame[t].job)
    BY <1>1, <2>4 DEF SendCommand, StartCommand, Justified
  <2>5. CASE Abandon(frame[t].rid)
    BY <1>1, <2>3, <2>5 DEF Abandon, Terminate, Justified
  <2> QED
    BY <1>5, <2>4, <2>5 DEF Deliver
<1>6. CASE TrackCold(t)
  <2>1. Tracked(frame[t].rid)
    BY <1>6 DEF TrackCold, PoolTrue, CallKnows, Held, Up
  <2> QED
    BY <1>6, <2>1 DEF TrackCold, TrackCommand, awsVars, Justified
<1>7. ASSUME NEW S, Terminate(S), S \subseteq frame[t].rids, pc[t] \in {"cancel_call", "terminate"}
      PROVE  Justified
  <2> SUFFICES ASSUME NEW j \in Jobs, command[j] = "inprogress", command'[j] = "killed"
               PROVE  j \in cancelled \/ host[j] \in warned
    BY DEF Justified
  <2> DEFINE i == host[j]
  <2>1. i \in frame[t].rids /\ i \in Instances
    BY <1>1, <1>7 DEF Terminate, LiveCommand
  <2>2. \A u \in Threads : ~Sent(u)
    BY <1>1, <1>7 DEF Sent, OneThread
  <2>3. resources[i].job = j /\ Recorded(i) /\ resources[i].status # "WARM"
    BY <2>2, HostsOwn
  <2> HIDE DEF i
  <2>4. CASE pc[t] = "cancel_call"
    BY <2>1, <2>3, <2>4 DEF PoolTrue, CallKnows
  <2>5. CASE pc[t] = "terminate"
    <3>1. resources[i].status \in Fallen
      BY <2>1, <2>3, <2>5 DEF PoolTrue, CallKnows, Passing
    <3> QED
      BY <2>1, <2>3, <3>1 DEF PoolTrue, EndsTrue, i
  <2> QED
    BY <1>7, <2>4, <2>5
<1>8. CASE CancelCall(t)
  <2>1. PICK outcome \in CancelOutcomes : CancelJobs(frame[t].rids, outcome)
    BY <1>8 DEF CancelCall
  <2>2. Terminate({i \in frame[t].rids : Tracked(i)}) \/ UNCHANGED command
    BY <2>1 DEF CancelJobs
  <2>3. {i \in frame[t].rids : Tracked(i)} \subseteq frame[t].rids /\ pc[t] = "cancel_call"
    BY <1>8 DEF CancelCall
  <2>4. UNCHANGED command => Justified
    BY DEF Justified
  <2> QED
    BY <1>7, <2>2, <2>3, <2>4
<1>9. CASE TerminateDoomed(t)
  <2>1. Terminate({i \in frame[t].rids : Tracked(i)}) \/ UNCHANGED command
    BY <1>9 DEF TerminateDoomed, CleanupResources
  <2>2. {i \in frame[t].rids : Tracked(i)} \subseteq frame[t].rids /\ pc[t] = "terminate"
    BY <1>9 DEF TerminateDoomed
  <2>3. UNCHANGED command => Justified
    BY DEF Justified
  <2> QED
    BY <1>7, <2>1, <2>2, <2>3
<1>10. CASE StatusStep(t) \/ StatusBegin(t)
  BY <1>10 DEF StatusStep, StatusBegin, Group, PollSsm, PollCommands, PollEc2, PollInstances,
     PollRaises, PollCommandsRaises, StatusUpdate, SaveStatus, awsVars, Justified
<1>11. CASE ScaleInCancels(t) \/ CancelUpdate(t) \/ ScaleIn(t) \/ \E J \in SUBSET Jobs : Cancel(t, J)
  BY <1>11 DEF ScaleInCancels, CancelUpdate, ScaleIn, Cancel, awsVars, Justified
<1>12. CASE CleanupStep(t) /\ ~TerminateDoomed(t)
  BY <1>12 DEF CleanupStep, Scan, PoolSnapshot, TransitionSkipped, TransitionToPool,
     TransitionEvicting, Unlist, Forget, SavePass, SavePassMode, Finish, SaveCancel, awsVars, Justified
<1> QED
  BY <1>2, <1>3, <1>4, <1>5, <1>6, <1>8, <1>9, <1>10, <1>11, <1>12 DEF Call, Continue, SubmitStep, CancelStep

\* With instances that are reused, and a caller that cancels no job it was told
\* is over, a command dies only with its own job's cancellation or with its host's
\* reclaim: the TTL, a full pool, a popped list, a failed dispatch, a cleanup pass
\* and the cancellation of jobs still under way take the instance of no other.  A
\* caller that does cancel a finished job loses whatever its instance runs by then
\* (CancelledLate): the hypothesis is what cancel() itself does not check.
THEOREM EvictionKillsNobody ==
  ASSUME Pooled
  PROVE  Spec => [](KilledForCause /\ NoCollateralKill)
<1>1. Init => KilledForCause
  BY DEF Init, ModeInit, KilledForCause
<1>2. ASSUME PoolKept, PoolKept', KilledForCause, [Next]_vars
      PROVE  KilledForCause'
  <2>0. TypeOK /\ TypeOK' /\ Base /\ SentToHost /\ "crash" \notin Faults
    BY <1>2 DEF PoolKept, CallsAccounted, Pooled, Reliable
  <2>1. Justified
    <3>1. ~Restart
      BY <2>0 DEF Restart, Fault
    <3> QED
      BY <1>2, <2>0, <3>1, PoolJustified, EnvironmentJustified DEF Next, Rest, PoolKept
  <2>2. Advancing
    BY <1>2, <2>0, Advance
  <2>3. Ending \/ \E t \in Threads, i \in Instances : Sending(t, i)
    BY <1>2, <2>0, CommandStep
  <2> SUFFICES ASSUME NEW j \in Jobs, command'[j] = "killed"
               PROVE  j \in cancelled' \/ host'[j] \in warned'
    BY DEF KilledForCause
  <2>4. command[j] = "killed" \/ command[j] = "inprogress"
    BY <2>0, <2>3 DEF Ending, Sending, StartCommand, TypeOK, ModeTypeOK, AwsTypeOK
  <2>5. host[j] \in Instances /\ host'[j] = host[j]
    BY <2>0, <2>2, <2>4 DEF SentToHost, Advancing
  <2> QED
    BY <1>2, <2>1, <2>2, <2>4, <2>5 DEF Justified, KilledForCause, Advancing
<1>3. KilledForCause => NoCollateralKill
  BY DEF KilledForCause, NoCollateralKill
<1> QED
  BY <1>1, <1>2, <1>3, PoolIsKept, PTL DEF Spec

\* A job that status() reports COMPLETED has succeeded.
LEMMA PoolVerdict ==
  ASSUME PoolKept, NEW t \in Threads, pc[t] = "update", NEW j \in frame[t].jobs, j \in Jobs, Verdict(t, j) = "COMPLETED"
  PROVE  command[j] = "success"
<1>0. TypeOK /\ Orderly /\ PoolTrue /\ Answered(t) /\ pc[t] \in Asking
  BY DEF PoolKept, CallsAccounted, Asking
<1>1. frame[t].known[j] = IF Ended(j) THEN job_map[j].status ELSE Absent
  BY <1>0 DEF Orderly, CallFits
<1>2. CASE Ended(j)
  <2>1. job_map[j].status = "COMPLETED"
    BY <1>1, <1>2 DEF Verdict, Ended, TerminalStates, Absent
  <2> QED
    BY <1>0, <2>1 DEF PoolTrue, EndsTrue
<1>3. CASE ~Ended(j)
  <2> DEFINE i == job_map[j].rid
  <2>1. frame[t].known[j] = Absent
    BY <1>1, <1>3
  <2>2. Mapped(j)
    BY <2>1 DEF Verdict
  <2>3. i \in Instances /\ resources[i].job = j
    BY <1>0, <1>3, <2>2, OngoingHost
  <2>4. frame[t].told[i] # Absent
    BY <1>0, <2>1, <2>2 DEF Answered
  <2>5. frame[t].told[i] = "COMPLETED"
    BY <2>1, <2>2, <2>4 DEF Verdict
  <2> QED
    BY <1>0, <2>3, <2>5 DEF PoolTrue, CallKnows, ToldTrue
<1> QED
  BY <1>2, <1>3

\* With a warm pool, where one instance answers for one job after the other, no job
\* is reported COMPLETED for what another has done.
THEOREM ReuseKeepsAnswersApart ==
  ASSUME Pooled
  PROVE  Spec => []NoFalseCompletion
<1> DEFINE Earned == \A j \in Jobs : reported[j] = "COMPLETED" => command[j] = "success"
<1>1. Init => Earned
  BY DEF Init
<1>2. ASSUME PoolKept, PoolKept', Earned, [Next]_vars
      PROVE  Earned'
  <2>0. TypeOK /\ TypeOK' /\ Base /\ SentToHost /\ Orderly /\ PoolTrue /\ "crash" \notin Faults
    BY <1>2 DEF PoolKept, CallsAccounted, Pooled, Reliable
  <2>1. \A j \in Jobs : command[j] = "success" => command'[j] = "success"
    BY <1>2, <2>0, Grows DEF Grown
  <2>2. ~Restart
    BY <2>0 DEF Restart, Fault
  <2>3. CASE UNCHANGED reported
    BY <1>2, <2>1, <2>3
  <2>4. ASSUME NEW t \in Threads, SaveJob(t)
        PROVE  Earned'
    BY <1>2, <2>0, <2>1, <2>4 DEF SaveJob, TypeOK
  <2>5. ASSUME NEW t \in Threads, StatusUpdate(t)
        PROVE  Earned'
    <3>1. pc[t] = "update" /\ \A j \in Jobs : reported'[j] = IF j \in frame[t].jobs THEN Verdict(t, j) ELSE reported[j]
      BY <2>5 DEF StatusUpdate
    <3> QED
      BY <1>2, <2>1, <3>1, PoolVerdict
  <2>6. ASSUME NEW t \in Threads, PollRaises(t)
        PROVE  Earned'
    <3>1. pc[t] \in Asking /\ \A j \in Jobs : reported'[j] = IF j \notin frame[t].jobs THEN reported[j]
                                   ELSE IF frame[t].known[j] # Absent THEN frame[t].known[j] ELSE "UNKNOWN"
      BY <2>6 DEF PollRaises, Asking
    <3>2. \A j \in frame[t].jobs : frame[t].known[j] \in {Absent, job_map[j].status}
      BY <2>0, <3>1 DEF Orderly, CallFits
    <3> QED
      BY <1>2, <2>0, <2>1, <3>1, <3>2 DEF PoolTrue, EndsTrue
  <2>7. CASE Environment \/ Tick \/ Rest \/ UNCHANGED vars
    BY <2>3, <2>7 DEF Environment, Tick, Rest, vars
  <2> QED
    BY <1>2, <2>2, <2>3, <2>4, <2>5, <2>6, <2>7, QuietReports DEF Next
<1>3. Earned => NoFalseCompletion
  BY ModeAssumption DEF NoFalseCompletion, Pooled, UsesSsmDispatch
<1> HIDE DEF Earned
<1> QED
  BY <1>1, <1>2, <1>3, PoolIsKept, PTL DEF Spec

=============================================================================
