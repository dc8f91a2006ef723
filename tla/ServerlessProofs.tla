-------------------------- MODULE ServerlessProofs --------------------------
(***************************************************************************)
(* Serverless jobs: the safety properties of ServerlessMode for any number *)
(* of threads, jobs and failures.                                          *)
(***************************************************************************)
EXTENDS ServerlessMode, FiniteSetTheorems, TLAPS

-----------------------------------------------------------------------------
(* The parts of the type invariant.                                        *)

Frame == [pc : Labels, job : Jobs \cup {NoJob}, template : Jobs \cup {NoJob},
          todo : SUBSET Jobs, answers : [Jobs -> Answer], shutdown : BOOLEAN]

Stack == [state : Standing \cup {"none", "deleting"}, job : Jobs \cup {NoJob}]

ConfigOK ==
  kind \in [Jobs -> Kinds] /\ bucket_given \in BOOLEAN

ModeOK ==
  /\ resources \in [Jobs -> Record]
  /\ code_bucket \in BOOLEAN /\ owns_bucket \in BOOLEAN /\ initialized \in BOOLEAN
  /\ registered \in SUBSET Jobs

StoreOK == mode_store \in Document

AwsOK ==
  /\ stack \in [Stacks -> Stack]
  /\ fleet \in [Jobs -> {"none", "active", "deleted", "forgotten"}]
  /\ template \in Jobs \cup {NoJob}
  /\ bucket \in BOOLEAN /\ objects \in SUBSET Jobs
  /\ work \in [Jobs -> {"none", "stopped"} \cup Live]
  /\ ran \in SUBSET Jobs /\ timed_out \in SUBSET Jobs

BooksOK ==
  /\ reported \in [Jobs -> Status \cup {"none", "collected"}]
  /\ submits \in [Jobs -> {"none", "called", "accepted", "raised"}]

FramesOK == frame \in [Threads -> Frame]

EventsOK ==
  /\ happened \in SUBSET (Events \cup ScheduleKinds)
  /\ events \in Nat

-----------------------------------------------------------------------------
(* What the operators of the model return, and preserve.                   *)

\* The type invariant is made of its parts.
LEMMA TypeParts ==
  /\ TypeOK <=> ConfigOK /\ ModeOK /\ StoreOK /\ AwsOK /\ BooksOK /\ FramesOK /\ EventsOK
  /\ TypeOK' <=> ConfigOK' /\ ModeOK' /\ StoreOK' /\ AwsOK' /\ BooksOK' /\ FramesOK' /\ EventsOK'
BY DEF TypeOK, ConfigOK, ModeOK, StoreOK, AwsOK, BooksOK, FramesOK, EventsOK, Frame, Stack

\* There are finitely many kinds of event.
LEMMA FiniteEvents == IsFiniteSet(EventKinds)
<1>1. EventKinds = {} \cup {"refused"} \cup {"lost"} \cup {"capacity"} \cup {"rollback"}
                     \cup {"describe"} \cup {"delete"} \cup {"delete_failed"} \cup {"reclaim"}
                     \cup {"forget"} \cup {"crash"}
  BY DEF EventKinds
<1>2. \A S : \A x : IsFiniteSet(S) => IsFiniteSet(S \cup {x})
  BY FS_AddElement
<1>3. QED
  BY <1>1, <1>2, FS_EmptySet, Zenon

\* The events of a step are counted, and noted among the known kinds.
LEMMA HappenType ==
  ASSUME EventsOK, NEW K, Happen(K)
  PROVE  EventsOK'
<1>1. IsFiniteSet(EventKinds)
  BY FiniteEvents
<1>2. IsFiniteSet(K \ ScheduleKinds)
  BY <1>1, FS_Subset, ServerlessAssumption DEF Happen
<1>3. Cardinality(K \ ScheduleKinds) \in Nat
  BY <1>2, FS_CardinalityType
<1>4. QED
  BY <1>3 DEF Happen, EventsOK

\* `No record' is a record, and not a status.
LEMMA NoRecords ==
  /\ Absent \notin Status
  /\ NoRecord \in Record
  /\ NoRecord.status = Absent /\ ~NoRecord.stack /\ ~NoRecord.code /\ ~NoRecord.fleet
  /\ NoRecord.template = NoJob
BY DEF Absent, Status, NoRecord, Record

\* A thread that is at a label and holds nothing.
LEMMA AtLabel ==
  ASSUME NEW l \in Labels
  PROVE  /\ At(l) \in Frame
         /\ At(l).pc = l /\ At(l).job = NoJob /\ At(l).template = NoJob /\ At(l).todo = {}
         /\ At(l).shutdown = FALSE
         /\ \A j \in Jobs : At(l).answers[j] = Absent
BY DEF At, Idle, Frame, Labels, Answer

\* An idle thread holds nothing.
LEMMA IdleFrame ==
  /\ Idle \in Frame
  /\ Idle.pc = "idle" /\ Idle.job = NoJob /\ Idle.template = NoJob /\ Idle.todo = {}
  /\ Idle.shutdown = FALSE
  /\ \A j \in Jobs : Idle.answers[j] = Absent
BY DEF Idle, Frame, Labels, Answer

\* A frame that goes on to another label keeps the rest.
LEMMA FrameGoesOn ==
  ASSUME NEW r \in Frame, NEW l \in Labels
  PROVE  LET f == [r EXCEPT !.pc = l] IN
         /\ f \in Frame
         /\ f.pc = l /\ f.job = r.job /\ f.template = r.template /\ f.todo = r.todo
         /\ f.answers = r.answers /\ f.shutdown = r.shutdown
BY DEF Frame

\* A frame begins a submission.
LEMMA FrameBegins ==
  ASSUME NEW r \in Frame, NEW j \in Jobs
  PROVE  LET f == [r EXCEPT !.job = j] IN
         /\ f \in Frame
         /\ f.pc = r.pc /\ f.job = j /\ f.template = r.template /\ f.todo = r.todo
         /\ f.answers = r.answers /\ f.shutdown = r.shutdown
BY DEF Frame

\* A frame lists the jobs to ask about.
LEMMA FrameLists ==
  ASSUME NEW r \in Frame, NEW J \in SUBSET Jobs
  PROVE  LET f == [r EXCEPT !.todo = J] IN
         /\ f \in Frame
         /\ f.pc = r.pc /\ f.job = r.job /\ f.template = r.template /\ f.todo = J
         /\ f.answers = r.answers /\ f.shutdown = r.shutdown
BY DEF Frame

\* A frame has the answer for a job.
LEMMA FrameAnswered ==
  ASSUME NEW t \in Threads, frame[t] \in Frame, NEW j \in Jobs, NEW a \in Answer
  PROVE  LET f == Answered(t, j, a) IN
         /\ f \in Frame
         /\ f.pc = "ask" /\ f.job = NoJob /\ f.template = frame[t].template
         /\ f.todo = frame[t].todo \ {j} /\ f.shutdown = frame[t].shutdown
         /\ f.answers[j] = a
         /\ \A i \in Jobs : i # j => f.answers[i] = frame[t].answers[i]
<1>1. ASSUME NEW r \in Frame
      PROVE  LET f == [r EXCEPT !.pc = "ask", !.job = NoJob, !.todo = r.todo \ {j}, !.answers[j] = a] IN
             /\ f \in Frame
             /\ f.pc = "ask" /\ f.job = NoJob /\ f.template = r.template
             /\ f.todo = r.todo \ {j} /\ f.shutdown = r.shutdown
             /\ f.answers[j] = a
             /\ \A i \in Jobs : i # j => f.answers[i] = r.answers[i]
  BY DEF Frame, Labels
<1>2. QED
  BY <1>1 DEF Answered

\* A frame enters the shutdown.
LEMMA FrameShuts ==
  ASSUME NEW r \in Frame
  PROVE  LET f == [r EXCEPT !.shutdown = TRUE] IN
         /\ f \in Frame
         /\ f.pc = r.pc /\ f.job = r.job /\ f.template = r.template /\ f.todo = r.todo
         /\ f.answers = r.answers /\ f.shutdown = TRUE
BY DEF Frame

\* Only the frame of the thread that steps changes.
LEMMA GoneTo ==
  ASSUME FramesOK, NEW t \in Threads, NEW f \in Frame, Goto(t, f)
  PROVE  /\ FramesOK'
         /\ frame'[t] = f
         /\ \A u \in Threads : u # t => frame'[u] = frame[u]
BY DEF FramesOK, Goto

-----------------------------------------------------------------------------
(* Deletions.                                                              *)

\* What a round of deletions for the jobs J may do: a stack that stands is on its
\* way out, by a name that a record of a job in J has; a fleet of a job in J whose
\* record has one is deleted, and its instances stop; and a template goes that a
\* record of a job in J has.
Reclaiming(J) ==
  /\ \A k \in Stacks :
       \/ stack'[k] = stack[k]
       \/ /\ stack[k].state \in Standing /\ stack'[k].state = "deleting"
          /\ stack'[k].job = stack[k].job
          /\ k \in StackNames(J)
  /\ \A j \in Jobs :
       \/ fleet'[j] = fleet[j] /\ work'[j] = work[j]
       \/ /\ fleet[j] = "active" /\ fleet'[j] = "deleted"
          /\ work'[j] = work[j] \/ work'[j] = "stopped"
          /\ work'[j] \notin Live
          /\ j \in J
          /\ resources[j].fleet
  /\ template' = template \/ template' = NoJob

\* What it does when nothing is refused.
AllReclaimed(J) ==
  /\ \A k \in StackNames(J) \cap Stacks : stack'[k].state \notin Standing
  /\ \A j \in J : resources[j].fleet => fleet'[j] # "active"
  /\ \A j \in J : resources[j].fleet /\ resources[j].template = template => template' = NoJob

\* The types of what a round of deletions changes.
WorldOK ==
  /\ stack \in [Stacks -> Stack]
  /\ fleet \in [Jobs -> {"none", "active", "deleted", "forgotten"}]
  /\ work \in [Jobs -> {"none", "stopped"} \cup Live]
  /\ template \in Jobs \cup {NoJob}

\* cancel_jobs() and cleanup_resources() reclaim what the records name.
LEMMA Reclaims ==
  ASSUME WorldOK, ModeOK, NEW J \in SUBSET Jobs, NEW refused,
         ReclaimFleets(WithFleet(J), refused),
         DeleteStacks(IF "stack" \in refused THEN {} ELSE StackNames(J))
  PROVE  WorldOK' /\ Reclaiming(J) /\ (refused = {} => AllReclaimed(J))
<1>1. PICK F : F = (IF "fleet" \in refused THEN {} ELSE WithFleet(J))
  OBVIOUS
<1>2. PICK N : N = (IF "stack" \in refused THEN {} ELSE StackNames(J))
  OBVIOUS
<1>3. PICK T : T = (IF "template" \in refused THEN {} ELSE {resources[j].template : j \in WithFleet(J)})
  OBVIOUS
<1>4. DeleteFleets(F) /\ DeleteStacks(N) /\ DeleteTemplates(T)
  BY <1>1, <1>2, <1>3 DEF ReclaimFleets
<1>5. F \subseteq WithFleet(J) /\ N \subseteq StackNames(J)
  BY <1>1, <1>2
<1>6. stack' \in [Stacks -> Stack]
  <2>1. ASSUME NEW s \in Stack PROVE [s EXCEPT !.state = "deleting"] \in Stack
    BY DEF Stack
  <2>2. QED
    BY <1>4, <2>1 DEF WorldOK, DeleteStacks
<1>7. \A k \in Stacks :
        \/ stack'[k] = stack[k]
        \/ /\ stack[k].state \in Standing /\ stack'[k].state = "deleting"
           /\ stack'[k].job = stack[k].job
           /\ k \in StackNames(J)
  <2>1. ASSUME NEW s \in Stack
        PROVE  [s EXCEPT !.state = "deleting"].state = "deleting" /\ [s EXCEPT !.state = "deleting"].job = s.job
    BY DEF Stack
  <2>2. QED
    BY <1>4, <1>5, <2>1 DEF WorldOK, DeleteStacks
<1>8. /\ fleet' \in [Jobs -> {"none", "active", "deleted", "forgotten"}]
      /\ work' \in [Jobs -> {"none", "stopped"} \cup Live]
  BY <1>4 DEF WorldOK, DeleteFleets
<1>9. \A j \in Jobs :
        \/ fleet'[j] = fleet[j] /\ work'[j] = work[j]
        \/ /\ fleet[j] = "active" /\ fleet'[j] = "deleted"
           /\ work'[j] = work[j] \/ work'[j] = "stopped"
           /\ work'[j] \notin Live
           /\ j \in J
           /\ resources[j].fleet
  BY <1>4, <1>5 DEF WorldOK, DeleteFleets, WithFleet, Live
<1>10. template' \in Jobs \cup {NoJob} /\ (template' = template \/ template' = NoJob)
  BY <1>4 DEF WorldOK, DeleteTemplates
<1>11. ASSUME refused = {} PROVE AllReclaimed(J)
  <2>1. F = WithFleet(J) /\ N = StackNames(J) /\ T = {resources[j].template : j \in WithFleet(J)}
    BY <1>1, <1>2, <1>3, <1>11
  <2>2. \A k \in StackNames(J) \cap Stacks : stack'[k].state \notin Standing
    <3>1. ASSUME NEW s \in Stack PROVE [s EXCEPT !.state = "deleting"].state = "deleting"
      BY DEF Stack
    <3>2. QED
      BY <1>4, <2>1, <3>1 DEF WorldOK, DeleteStacks, Standing
  <2>3. \A j \in J : resources[j].fleet => fleet'[j] # "active"
    BY <1>4, <2>1 DEF WorldOK, DeleteFleets, WithFleet
  <2>4. \A j \in J : resources[j].fleet /\ resources[j].template = template => template' = NoJob
    BY <1>4, <2>1 DEF DeleteTemplates, WithFleet
  <2>5. QED
    BY <2>2, <2>3, <2>4 DEF AllReclaimed
<1>12. QED
  BY <1>6, <1>7, <1>8, <1>9, <1>10, <1>11 DEF WorldOK, Reclaiming

\* The document is of its type, and says what the mode has.
LEMMA Saves ==
  ASSUME Save, ModeOK'
  PROVE  /\ StoreOK'
         /\ mode_store'.resources = resources'
         /\ mode_store'.code_bucket = code_bucket' /\ mode_store'.owns_bucket = owns_bucket'
BY DEF Save, ModeOK, StoreOK, Document

\* The records of the jobs in J go, the document is told, and the caller goes on.
Dropping(J) ==
  /\ \A j \in Jobs : resources'[j] = IF j \in J THEN NoRecord ELSE resources[j]
  /\ UNCHANGED <<code_bucket, owns_bucket>>
  /\ \/ Save
     \/ UNCHANGED <<resources, mode_store>>

\* cleanup_resources() of the jobs J.
LEMMA Cleans ==
  ASSUME ModeOK, AwsOK, StoreOK, NEW J \in SUBSET Jobs, NEW refused, CleanupResources(J, refused),
         UNCHANGED <<initialized, registered, bucket, ran, timed_out>>
  PROVE  /\ ModeOK' /\ AwsOK' /\ StoreOK'
         /\ Reclaiming(J) /\ Dropping(J)
         /\ objects' \subseteq objects
         /\ refused = {} => AllReclaimed(J) /\ \A j \in J : resources[j].code => j \notin objects'
         /\ \A j \in objects \ objects' : j \in J
<1>1. WorldOK' /\ Reclaiming(J) /\ (refused = {} => AllReclaimed(J))
  BY Reclaims DEF CleanupResources, AwsOK, WorldOK
<1>2. /\ objects' \subseteq objects
      /\ refused = {} => \A j \in J : resources[j].code => j \notin objects'
      /\ \A j \in objects \ objects' : j \in J
  BY DEF CleanupResources
<1>3. ModeOK' /\ Dropping(J)
  <2>1. resources' \in [Jobs -> Record]
    BY NoRecords DEF CleanupResources, ModeOK
  <2>2. \A j \in Jobs : resources'[j] = IF j \in J THEN NoRecord ELSE resources[j]
    BY DEF CleanupResources
  <2>3. J = {} => resources' = resources
    BY DEF CleanupResources, ModeOK
  <2>4. QED
    BY <2>1, <2>2, <2>3 DEF CleanupResources, ModeOK, Dropping
<1>4. AwsOK'
  BY <1>1, <1>2 DEF AwsOK, WorldOK
<1>5. StoreOK'
  BY <1>3, Saves DEF Dropping, StoreOK
<1>6. QED
  BY <1>1, <1>2, <1>3, <1>4, <1>5

\* Two records name the same things.
SameNames(r, s) ==
  r.stack = s.stack /\ r.code = s.code /\ r.fleet = s.fleet /\ r.template = s.template

\* A record takes another status.
LEMMA RecordTakes ==
  ASSUME NEW r \in Record, NEW s \in Status
  PROVE  LET q == [r EXCEPT !.status = s] IN
         q \in Record /\ SameNames(q, r) /\ q.status = s
BY DEF Record, SameNames

\* The jobs in J are cancelled: what the mode's records and the provider's say then.
Cancelling(J) ==
  /\ \A j \in Jobs : SameNames(resources'[j], resources[j])
  /\ \A j \in Jobs : \/ resources'[j] = resources[j]
                     \/ /\ j \in J /\ Tracked(j)
                        /\ resources'[j].status = "CANCELED" /\ reported'[j] = "CANCELED"
  /\ \A j \in Jobs : j \notin J => reported'[j] = reported[j]
  /\ \A j \in J : /\ reported'[j] \in {"CANCELED", "FAILED", "UNKNOWN"}
                  /\ Tracked(j) /\ (resources[j].fleet \/ resources[j].stack)
                       => reported'[j] \in {"CANCELED", "FAILED"}

\* cancel_jobs() of the jobs J.
LEMMA Cancels ==
  ASSUME ModeOK, AwsOK, StoreOK, BooksOK, EventsOK, FramesOK,
         NEW t \in Threads, NEW J \in SUBSET Jobs, NEW next \in Frame, NEW late,
         CancelJobs(t, J, next, late)
  PROVE  /\ ModeOK' /\ AwsOK' /\ StoreOK' /\ BooksOK' /\ EventsOK' /\ FramesOK'
         /\ Reclaiming(J) /\ Cancelling(J) /\ Save
         /\ "delete" \notin happened' => AllReclaimed(J)
         /\ late \subseteq happened' /\ happened \subseteq happened'
<1>1. PICK refused \in Refusals \ {{"object"}, {"bucket"}} :
       /\ ReclaimFleets(WithFleet(J), refused)
       /\ DeleteStacks(IF "stack" \in refused THEN {} ELSE StackNames(J))
       /\ resources' = [j \in Jobs |-> IF j \in J /\ CancelAnswer(j, refused) = "CANCELED"
                                         THEN [resources[j] EXCEPT !.status = "CANCELED"]
                                         ELSE resources[j]]
       /\ reported' = [j \in Jobs |-> IF j \in J THEN CancelAnswer(j, refused) ELSE reported[j]]
       /\ Happen(RefusalEvent(refused) \cup late)
  BY DEF CancelJobs
<1>2. WorldOK' /\ Reclaiming(J) /\ (refused = {} => AllReclaimed(J))
  BY <1>1, Reclaims DEF AwsOK, WorldOK
<1>3. AwsOK'
  BY <1>2 DEF CancelJobs, CancelUnchanged, AwsOK, WorldOK
<1>4. \A j \in Jobs : /\ CancelAnswer(j, refused) \in {"CANCELED", "FAILED", "UNKNOWN"}
                      /\ Tracked(j) /\ (resources[j].fleet \/ resources[j].stack)
                           => CancelAnswer(j, refused) \in {"CANCELED", "FAILED"}
                      /\ CancelAnswer(j, refused) = "CANCELED" => Tracked(j)
  BY DEF CancelAnswer
<1>5. resources' \in [Jobs -> Record]
  BY <1>1, RecordTakes DEF ModeOK, Status
<1>6. \A j \in Jobs : SameNames(resources'[j], resources[j])
  BY <1>1, RecordTakes DEF ModeOK, Status, SameNames
<1>7. \A j \in Jobs : \/ resources'[j] = resources[j]
                      \/ /\ j \in J /\ Tracked(j)
                         /\ resources'[j].status = "CANCELED" /\ reported'[j] = "CANCELED"
  <2> TAKE j \in Jobs
  <2>1. CASE j \in J /\ CancelAnswer(j, refused) = "CANCELED"
    <3>1. resources[j] \in Record /\ "CANCELED" \in Status
      BY DEF ModeOK, Status
    <3>2. resources'[j] = [resources[j] EXCEPT !.status = "CANCELED"]
      BY <1>1, <2>1
    <3>3. resources'[j].status = "CANCELED"
      BY <3>1, <3>2, RecordTakes
    <3>4. QED
      BY <1>1, <1>4, <2>1, <3>3
  <2>2. CASE ~(j \in J /\ CancelAnswer(j, refused) = "CANCELED")
    BY <1>1, <2>2
  <2>3. QED
    BY <2>1, <2>2
<1>8. BooksOK'
  BY <1>1, <1>4 DEF BooksOK, Status, CancelJobs, CancelUnchanged
<1>9. Cancelling(J)
  BY <1>1, <1>4, <1>6, <1>7 DEF Cancelling
<1>10. ModeOK'
  BY <1>5 DEF ModeOK, CancelJobs, CancelUnchanged
<1>11. EventsOK' /\ late \subseteq happened' /\ happened \subseteq happened'
  BY <1>1, HappenType DEF Happen
<1>12. "delete" \notin happened' => refused = {}
  BY <1>1 DEF Happen, RefusalEvent, IfSo
<1>13. FramesOK'
  BY GoneTo DEF CancelJobs
<1>14. Save
  BY DEF CancelJobs
<1>15. QED
  BY <1>2, <1>3, <1>8, <1>9, <1>10, <1>11, <1>12, <1>13, <1>14, Saves

-----------------------------------------------------------------------------
(* Where a step takes a thread.                                            *)

\* The other threads stay where they are.
Others(t) == \A u \in Threads : u # t => frame'[u] = frame[u]

\* The thread goes on to another label with what it holds.
GoesOn(t, l) ==
  /\ Others(t)
  /\ frame'[t].pc = l /\ frame'[t].job = frame[t].job /\ frame'[t].template = frame[t].template
  /\ frame'[t].todo = frame[t].todo /\ frame'[t].answers = frame[t].answers
  /\ frame'[t].shutdown = frame[t].shutdown

\* The thread is done.
Ends(t) == Others(t) /\ frame'[t] = Idle

\* A step of a thread, and a helper that raises, go on to the label they name.
LEMMA StepsOn ==
  ASSUME FramesOK, NEW t \in Threads, NEW l \in Labels, Step(t, l)
  PROVE  FramesOK' /\ GoesOn(t, l)
<1>1. frame[t] \in Frame
  BY DEF FramesOK
<1>2. PICK f : f = [frame[t] EXCEPT !.pc = l]
  OBVIOUS
<1>3. /\ f \in Frame
      /\ f.pc = l /\ f.job = frame[t].job /\ f.template = frame[t].template
      /\ f.todo = frame[t].todo /\ f.answers = frame[t].answers /\ f.shutdown = frame[t].shutdown
  BY <1>1, <1>2, FrameGoesOn
<1>4. FramesOK' /\ frame'[t] = f /\ Others(t)
  BY <1>2, <1>3, GoneTo DEF Step, Others
<1>5. QED
  BY <1>3, <1>4 DEF GoesOn

\* A thread becomes idle.
LEMMA StepsOut ==
  ASSUME FramesOK, NEW t \in Threads, Goto(t, Idle)
  PROVE  FramesOK' /\ Ends(t)
BY GoneTo, IdleFrame DEF Ends, Others

\* A helper that raises sends its caller to the cleanup.
LEMMA Failing ==
  ASSUME FramesOK, EventsOK, NEW t \in Threads, NEW K, Fails(t, K)
  PROVE  /\ FramesOK' /\ EventsOK' /\ GoesOn(t, "undo") /\ ModeUnchanged
         /\ happened' = happened \cup K
BY StepsOn, HappenType DEF Fails, Labels, Happen

-----------------------------------------------------------------------------
(* What each operation does, and that it keeps the types.                  *)

\* The labels of submit_job().
Submitting == {"bucket", "stage", "stack", "template", "fleet", "unfilled", "save", "undo"}

\* A thread that submits, or has an answer to record, holds a job; no other does.
Placed ==
  \A t \in Threads :
    /\ frame[t].pc \in Submitting => frame[t].job \in Jobs
    /\ frame[t].pc = "write" => /\ frame[t].job \in frame[t].todo
                                /\ frame[t].answers[frame[t].job] # Absent
    /\ frame[t].pc \notin Submitting \cup {"write"} => frame[t].job = NoJob

\* A record names what its kind of job can have.
RecordKinds(r, j) ==
  /\ r.stack => kind[j] \in Stacks
  /\ r.fleet => kind[j] = "fleet"
  /\ r.code => kind[j] = "lambda"
  /\ r.stack \/ r.fleet \/ r.code => r.status # Absent

Kinded == \A j \in Jobs : /\ RecordKinds(resources[j], j)
                          /\ RecordKinds(mode_store.resources[j], j)

\* submit_job() makes a record of the job.
LEMMA SubmitDoes ==
  ASSUME TypeOK, NEW t \in Threads, NEW j \in Jobs, Submit(t, j)
  PROVE  /\ TypeOK' /\ Others(t)
         /\ frame[t] = Idle /\ initialized /\ submits[j] = "none"
         /\ kind[j] = "ecs" => frame'[t].pc = "stack"
         /\ kind[j] = "fleet" => frame'[t].pc = "template"
         /\ kind[j] = "lambda" => frame'[t].pc \in {"stage", "bucket"}
         /\ frame'[t].job = j /\ frame'[t].template = NoJob /\ frame'[t].todo = {}
         /\ \A i \in Jobs : frame'[t].answers[i] = Absent
         /\ ~frame'[t].shutdown
         /\ SameNames(resources'[j], resources[j]) /\ resources'[j].status = "PENDING"
         /\ \A i \in Jobs : i # j => resources'[i] = resources[i]
         /\ submits'[j] = "called"
         /\ \A i \in Jobs : i # j => submits'[i] = submits[i]
         /\ happened \subseteq happened'
         /\ (\E u \in Threads : frame[u].shutdown) => "late_submit" \in happened'
         /\ UNCHANGED <<config, awsVars, workVars, code_bucket, owns_bucket, initialized,
                        registered, mode_store, reported>>
<1>1. ConfigOK /\ ModeOK /\ StoreOK /\ AwsOK /\ BooksOK /\ FramesOK /\ EventsOK
  BY TypeParts
<1>2. PICK l : l = CASE kind[j] = "ecs"    -> "stack"
                     [] kind[j] = "fleet"  -> "template"
                     [] kind[j] = "lambda" -> IF code_bucket THEN "stage" ELSE "bucket"
  OBVIOUS
<1>3. l \in Labels
  BY <1>1, <1>2 DEF ConfigOK, Kinds, Labels
<1>4. PICK a : a = At(l)
  OBVIOUS
<1>5. PICK f : f = [a EXCEPT !.job = j]
  OBVIOUS
<1>6. /\ f \in Frame
      /\ f.pc = l /\ f.job = j /\ f.template = NoJob /\ f.todo = {} /\ ~f.shutdown
      /\ \A i \in Jobs : f.answers[i] = Absent
  <2>1. /\ a \in Frame /\ a.pc = l /\ a.template = NoJob /\ a.todo = {} /\ a.shutdown = FALSE
        /\ \A i \in Jobs : a.answers[i] = Absent
    BY <1>3, <1>4, AtLabel
  <2>2. /\ f \in Frame /\ f.pc = a.pc /\ f.job = j /\ f.template = a.template /\ f.todo = a.todo
        /\ f.answers = a.answers /\ f.shutdown = a.shutdown
    BY <1>5, <2>1, FrameBegins
  <2>3. QED
    BY <2>1, <2>2
<1>7. Goto(t, f)
  BY <1>2, <1>4, <1>5 DEF Submit
<1>8. FramesOK' /\ Others(t) /\ frame'[t] = f
  BY <1>1, <1>6, <1>7, GoneTo DEF Others
<1>9. /\ resources' \in [Jobs -> Record]
      /\ SameNames(resources'[j], resources[j]) /\ resources'[j].status = "PENDING"
      /\ \A i \in Jobs : i # j => resources'[i] = resources[i]
  <2>1. PICK q : q = [resources[j] EXCEPT !.status = "PENDING"]
    OBVIOUS
  <2>2. q \in Record /\ SameNames(q, resources[j]) /\ q.status = "PENDING"
    BY <1>1, <2>1, RecordTakes DEF ModeOK, Status
  <2>3. resources' = [resources EXCEPT ![j] = q]
    BY <2>1 DEF Submit
  <2>4. QED
    BY <1>1, <2>2, <2>3 DEF ModeOK
<1>10. /\ submits' \in [Jobs -> {"none", "called", "accepted", "raised"}]
       /\ submits'[j] = "called"
       /\ \A i \in Jobs : i # j => submits'[i] = submits[i]
  BY <1>1 DEF Submit, BooksOK
<1>11. /\ EventsOK' /\ happened \subseteq happened'
       /\ (\E u \in Threads : frame[u].shutdown) => "late_submit" \in happened'
  BY <1>1, HappenType DEF Submit, Happen, IfSo
<1>12. UNCHANGED <<config, awsVars, workVars, code_bucket, owns_bucket, initialized,
                   registered, mode_store, reported>>
  BY DEF Submit, SubmitUnchanged, workVars
<1>13. ConfigOK' /\ StoreOK' /\ AwsOK' /\ BooksOK' /\ ModeOK'
  BY <1>1, <1>9, <1>10, <1>12
     DEF ConfigOK, StoreOK, AwsOK, BooksOK, ModeOK, config, awsVars, workVars
<1>14. frame[t] = Idle /\ initialized /\ submits[j] = "none"
  BY DEF Submit
<1>15. /\ kind[j] = "ecs" => l = "stack"
       /\ kind[j] = "fleet" => l = "template"
       /\ kind[j] = "lambda" => l \in {"stage", "bucket"}
  BY <1>2
<1>16. QED
  BY <1>15, <1>6, <1>8, <1>9, <1>10, <1>11, <1>12, <1>13, <1>14, TypeParts

\* What the steps of submit_job() before its last one do not touch.
SubmitKeeps ==
  UNCHANGED <<config, ran, timed_out, initialized, reported, submits, mode_store>>

\* _ensure_lambda_code_bucket()
LEMMA EnsureBucketDoes ==
  ASSUME TypeOK, NEW t \in Threads, EnsureBucket(t)
  PROVE  /\ TypeOK' /\ frame[t].pc = "bucket"
         /\ SubmitKeeps
         /\ UNCHANGED <<stack, fleet, template, objects, work, resources, registered>>
         /\ \/ /\ GoesOn(t, "stage")
               /\ bucket' /\ code_bucket' /\ owns_bucket' = (owns_bucket \/ ~bucket)
               /\ happened' = happened
            \/ /\ GoesOn(t, "undo")
               /\ UNCHANGED <<bucket, code_bucket, owns_bucket>>
               /\ happened' = happened \cup {"refused"}
<1>1. ConfigOK /\ ModeOK /\ StoreOK /\ AwsOK /\ BooksOK /\ FramesOK /\ EventsOK
  BY TypeParts
<1>2. /\ FramesOK' /\ EventsOK'
      /\ \/ /\ GoesOn(t, "stage")
            /\ bucket' = TRUE /\ code_bucket' = TRUE /\ owns_bucket' = (owns_bucket \/ ~bucket)
            /\ UNCHANGED <<resources, registered, mode_store>>
            /\ happened' = happened
         \/ /\ GoesOn(t, "undo")
            /\ UNCHANGED <<bucket, resources, code_bucket, owns_bucket, registered, mode_store>>
            /\ happened' = happened \cup {"refused"}
  <2>1. CASE Fails(t, {"refused"}) /\ UNCHANGED bucket
    BY <1>1, <2>1, Failing DEF ModeUnchanged
  <2>2. CASE /\ bucket' = TRUE /\ code_bucket' = TRUE /\ owns_bucket' = (owns_bucket \/ ~bucket)
             /\ Step(t, "stage") /\ Happen({})
             /\ UNCHANGED <<resources, registered, mode_store>>
    <3>1. EventsOK' /\ happened' = happened
      BY <1>1, <2>2, HappenType DEF Happen
    <3>2. FramesOK' /\ GoesOn(t, "stage")
      BY <1>1, <2>2, StepsOn DEF Labels
    <3>3. QED
      BY <2>2, <3>1, <3>2
  <2>3. QED
    BY <2>1, <2>2 DEF EnsureBucket
<1>3. /\ frame[t].pc = "bucket" /\ SubmitKeeps
      /\ UNCHANGED <<stack, fleet, template, objects, work>>
  BY <1>2 DEF EnsureBucket, SubmitUnchanged, SubmitKeeps
<1>4. ConfigOK' /\ StoreOK' /\ AwsOK' /\ BooksOK' /\ ModeOK'
  BY <1>1, <1>2, <1>3 DEF ConfigOK, StoreOK, AwsOK, BooksOK, ModeOK, config, SubmitKeeps
<1>5. QED
  BY <1>2, <1>3, <1>4, TypeParts

\* put_object() of the package
LEMMA StageDoes ==
  ASSUME TypeOK, Placed, NEW t \in Threads, Stage(t)
  PROVE  /\ TypeOK' /\ frame[t].pc = "stage"
         /\ SubmitKeeps
         /\ UNCHANGED <<stack, fleet, template, bucket, work, resources, registered,
                        code_bucket, owns_bucket>>
         /\ happened \subseteq happened'
         /\ \/ GoesOn(t, "stack") /\ objects' = objects \cup {frame[t].job}
            \/ GoesOn(t, "undo") /\ objects' = objects
<1>1. ConfigOK /\ ModeOK /\ StoreOK /\ AwsOK /\ BooksOK /\ FramesOK /\ EventsOK
  BY TypeParts
<1>2. /\ FramesOK' /\ EventsOK' /\ ModeUnchanged /\ happened \subseteq happened'
      /\ \/ GoesOn(t, "stack") /\ objects' = objects \cup {frame[t].job}
         \/ GoesOn(t, "undo") /\ objects' = objects
  <2>1. CASE Fails(t, IfSo(bucket \/ bucket_given, "refused")) /\ UNCHANGED objects
    BY <1>1, <2>1, Failing
  <2>2. CASE /\ objects' = objects \cup {frame[t].job}
             /\ Step(t, "stack") /\ Happen({}) /\ ModeUnchanged
    <3>1. EventsOK' /\ happened' = happened
      BY <1>1, <2>2, HappenType DEF Happen
    <3>2. FramesOK' /\ GoesOn(t, "stack")
      BY <1>1, <2>2, StepsOn DEF Labels
    <3>3. QED
      BY <2>2, <3>1, <3>2
  <2>3. QED
    BY <2>1, <2>2 DEF Stage
<1>3. /\ frame[t].pc = "stage" /\ SubmitKeeps
      /\ UNCHANGED <<stack, fleet, template, bucket, work, resources, registered,
                     code_bucket, owns_bucket>>
  BY <1>2 DEF Stage, SubmitUnchanged, SubmitKeeps, ModeUnchanged
<1>4. objects' \subseteq Jobs
  BY <1>1, <1>2, <1>3 DEF AwsOK, Placed, Submitting
<1>5. ConfigOK' /\ StoreOK' /\ AwsOK' /\ BooksOK' /\ ModeOK'
  BY <1>1, <1>2, <1>3, <1>4
     DEF ConfigOK, StoreOK, AwsOK, BooksOK, ModeOK, config, SubmitKeeps, ModeUnchanged
<1>6. QED
  BY <1>2, <1>3, <1>5, TypeParts

\* _submit_lambda_job() and _submit_ecs_job() create a stack of the job.
Creates(j) ==
  /\ stack[kind[j]].state = "none"
  /\ stack'[kind[j]] = [state |-> "creating", job |-> j]
  /\ \A k \in Stacks : k # kind[j] => stack'[k] = stack[k]

\* The two, with create_stack().
LEMMA CreateStackDoes ==
  ASSUME TypeOK, Placed, NEW t \in Threads, CreateLambdaStack(t) \/ CreateEcsStack(t)
  PROVE  /\ TypeOK' /\ frame[t].pc = "stack"
         /\ SubmitKeeps
         /\ UNCHANGED <<fleet, template, bucket, objects, work, registered, code_bucket, owns_bucket>>
         /\ kind[frame[t].job] \in {"lambda", "ecs"}
         /\ happened \subseteq happened'
         /\ \/ /\ Creates(frame[t].job) /\ Tracked(frame[t].job)
               /\ resources'[frame[t].job].stack
               /\ resources'[frame[t].job].code <=> kind[frame[t].job] = "lambda"
               /\ resources'[frame[t].job].fleet = resources[frame[t].job].fleet
               /\ resources'[frame[t].job].template = resources[frame[t].job].template
               /\ resources'[frame[t].job].status = resources[frame[t].job].status
               /\ \A i \in Jobs : i # frame[t].job => resources'[i] = resources[i]
               /\ GoesOn(t, "save")
               /\ Stale(kind[frame[t].job]) => "stale" \in happened'
            \/ /\ Creates(frame[t].job) /\ resources' = resources /\ GoesOn(t, "undo")
               /\ ~Tracked(frame[t].job) \/ "lost" \in happened'
               /\ Stale(kind[frame[t].job]) => "stale" \in happened'
            \/ /\ UNCHANGED <<stack, resources>> /\ GoesOn(t, "undo")
               /\ "taken" \in happened' \/ "refused" \in happened'
<1>1. ConfigOK /\ ModeOK /\ StoreOK /\ AwsOK /\ BooksOK /\ FramesOK /\ EventsOK
  BY TypeParts
<1>2. PICK j \in Jobs : j = frame[t].job
  BY DEF Placed, Submitting, CreateLambdaStack, CreateEcsStack
<1>3. PICK staged \in BOOLEAN : CreateStack(t, staged) /\ staged = (kind[j] = "lambda")
  BY <1>2 DEF CreateLambdaStack, CreateEcsStack
<1>4. kind[j] \in Stacks /\ kind[j] \in {"lambda", "ecs"}
  BY <1>2 DEF CreateLambdaStack, CreateEcsStack, Stacks
<1>5. PICK Create : Create =
        /\ stack[kind[j]].state = "none"
        /\ stack' = [stack EXCEPT ![kind[j]] = [state |-> "creating", job |-> j]]
  OBVIOUS
<1>6. Create => Creates(j) /\ stack' \in [Stacks -> Stack]
  <2>1. [state |-> "creating", job |-> j] \in Stack
    BY DEF Stack, Standing
  <2>2. QED
    BY <1>1, <1>4, <1>5, <2>1 DEF AwsOK, Creates
<1>7. CASE /\ Create /\ Tracked(j)
           /\ resources' = [resources EXCEPT ![j].stack = TRUE, ![j].code = staged]
           /\ Step(t, "save") /\ Happen(IfSo(Stale(kind[j]), "stale"))
           /\ UNCHANGED <<code_bucket, owns_bucket, registered, mode_store>>
  <2>1. EventsOK' /\ happened \subseteq happened' /\ (Stale(kind[j]) => "stale" \in happened')
    BY <1>1, <1>7, HappenType DEF Happen, IfSo
  <2>2. FramesOK' /\ GoesOn(t, "save")
    BY <1>1, <1>7, StepsOn DEF Labels
  <2>3. /\ resources' \in [Jobs -> Record]
        /\ resources'[j].stack /\ resources'[j].code = staged
        /\ resources'[j].fleet = resources[j].fleet /\ resources'[j].template = resources[j].template
        /\ resources'[j].status = resources[j].status
        /\ \A i \in Jobs : i # j => resources'[i] = resources[i]
    <3>1. ASSUME NEW r \in Record
          PROVE  LET q == [r EXCEPT !.stack = TRUE, !.code = staged] IN
                 /\ q \in Record /\ q.stack /\ q.code = staged
                 /\ q.fleet = r.fleet /\ q.template = r.template /\ q.status = r.status
      BY DEF Record
    <3>2. resources' = [resources EXCEPT ![j] = [resources[j] EXCEPT !.stack = TRUE, !.code = staged]]
      BY <1>1, <1>7 DEF ModeOK
    <3>3. QED
      BY <1>1, <3>1, <3>2 DEF ModeOK
  <2>4. /\ frame[t].pc = "stack" /\ SubmitKeeps
        /\ UNCHANGED <<fleet, template, bucket, objects, work>>
    BY <1>3, <1>7 DEF CreateStack, SubmitUnchanged, SubmitKeeps
  <2>5. TypeOK'
    <3>1. ConfigOK' /\ StoreOK' /\ AwsOK' /\ BooksOK' /\ ModeOK'
      BY <1>1, <1>6, <1>7, <2>3, <2>4
         DEF ConfigOK, StoreOK, AwsOK, BooksOK, ModeOK, config, SubmitKeeps
    <3>2. QED
      BY <2>1, <2>2, <3>1, TypeParts
  <2>6. QED
    BY <1>2, <1>3, <1>4, <1>6, <1>7, <2>1, <2>2, <2>3, <2>4, <2>5
<1>8. ASSUME NEW K, Fails(t, K), stack' \in [Stacks -> Stack]
      PROVE  /\ TypeOK' /\ frame[t].pc = "stack" /\ SubmitKeeps
             /\ UNCHANGED <<fleet, template, bucket, objects, work, registered, code_bucket,
                            owns_bucket, resources>>
             /\ GoesOn(t, "undo") /\ happened' = happened \cup K
  <2>1. FramesOK' /\ EventsOK' /\ GoesOn(t, "undo") /\ ModeUnchanged /\ happened' = happened \cup K
    BY <1>1, <1>8, Failing
  <2>2. /\ frame[t].pc = "stack" /\ SubmitKeeps
        /\ UNCHANGED <<fleet, template, bucket, objects, work, registered, code_bucket,
                       owns_bucket, resources>>
    BY <1>3, <2>1 DEF CreateStack, SubmitUnchanged, SubmitKeeps, ModeUnchanged
  <2>3. ConfigOK' /\ StoreOK' /\ AwsOK' /\ BooksOK' /\ ModeOK'
    BY <1>1, <1>8, <2>2 DEF ConfigOK, StoreOK, AwsOK, BooksOK, ModeOK, config, SubmitKeeps
  <2>4. QED
    BY <2>1, <2>2, <2>3, TypeParts
<1>9. CASE Create /\ ~Tracked(j) /\ Fails(t, IfSo(Stale(kind[j]), "stale"))
  <2>1. Stale(kind[j]) => "stale" \in IfSo(Stale(kind[j]), "stale")
    BY DEF IfSo
  <2>2. QED
    BY <1>2, <1>4, <1>6, <1>8, <1>9, <2>1
<1>10. CASE Create /\ Fails(t, {"lost"} \cup IfSo(Stale(kind[j]), "stale"))
  <2>1. Stale(kind[j]) => "stale" \in {"lost"} \cup IfSo(Stale(kind[j]), "stale")
    BY DEF IfSo
  <2>2. QED
    BY <1>2, <1>4, <1>6, <1>8, <1>10, <2>1
<1>11. CASE stack[kind[j]].state # "none" /\ stack' = stack /\ Fails(t, {"taken"})
  BY <1>1, <1>2, <1>4, <1>8, <1>11 DEF AwsOK
<1>12. CASE stack' = stack /\ Fails(t, {"refused"})
  BY <1>1, <1>2, <1>4, <1>8, <1>12 DEF AwsOK
<1>13. QED
  BY <1>2, <1>3, <1>5, <1>7, <1>9, <1>10, <1>11, <1>12 DEF CreateStack

\* create_launch_template()
LEMMA CreateTemplateDoes ==
  ASSUME TypeOK, Placed, NEW t \in Threads, CreateTemplate(t)
  PROVE  /\ TypeOK' /\ frame[t].pc = "template"
         /\ SubmitKeeps
         /\ UNCHANGED <<stack, fleet, bucket, objects, work, resources, registered,
                        code_bucket, owns_bucket>>
         /\ happened \subseteq happened'
         /\ \/ /\ template' = IF template = NoJob THEN frame[t].job ELSE template
               /\ Others(t)
               /\ frame'[t].pc = "fleet" /\ frame'[t].job = frame[t].job /\ frame'[t].template = template'
               /\ frame'[t].todo = frame[t].todo /\ frame'[t].answers = frame[t].answers
               /\ frame'[t].shutdown = frame[t].shutdown
            \/ GoesOn(t, "undo") /\ template' = template
<1>1. ConfigOK /\ ModeOK /\ StoreOK /\ AwsOK /\ BooksOK /\ FramesOK /\ EventsOK
  BY TypeParts
<1>2. frame[t].pc = "template" /\ frame[t].job \in Jobs /\ frame[t] \in Frame
  BY <1>1 DEF CreateTemplate, Placed, Submitting, FramesOK
<1>3. /\ FramesOK' /\ EventsOK' /\ ModeUnchanged /\ happened \subseteq happened'
      /\ template' \in Jobs \cup {NoJob}
      /\ \/ /\ template' = IF template = NoJob THEN frame[t].job ELSE template
            /\ Others(t)
            /\ frame'[t].pc = "fleet" /\ frame'[t].job = frame[t].job /\ frame'[t].template = template'
            /\ frame'[t].todo = frame[t].todo /\ frame'[t].answers = frame[t].answers
            /\ frame'[t].shutdown = frame[t].shutdown
         \/ GoesOn(t, "undo") /\ template' = template
  <2>1. CASE Fails(t, {"refused"}) /\ template' = template
    BY <1>1, <2>1, Failing DEF AwsOK
  <2>2. CASE /\ template' = IF template = NoJob THEN frame[t].job ELSE template
             /\ Goto(t, [frame[t] EXCEPT !.pc = "fleet", !.template = template'])
             /\ Happen({}) /\ ModeUnchanged
    <3>1. EventsOK' /\ happened' = happened
      BY <1>1, <2>2, HappenType DEF Happen
    <3>2. template' \in Jobs \cup {NoJob}
      BY <1>1, <1>2, <2>2 DEF AwsOK
    <3>3. PICK x \in Jobs \cup {NoJob} : x = template'
      BY <3>2
    <3>4. PICK f : f = [frame[t] EXCEPT !.pc = "fleet", !.template = x]
      OBVIOUS
    <3>5. /\ f \in Frame
          /\ f.pc = "fleet" /\ f.job = frame[t].job /\ f.template = x /\ f.todo = frame[t].todo
          /\ f.answers = frame[t].answers /\ f.shutdown = frame[t].shutdown
      <4>1. PICK r \in Frame, l \in Labels : r = frame[t] /\ l = "fleet"
        BY <1>2 DEF Labels
      <4>2. f = [r EXCEPT !.pc = l, !.template = x]
        BY <3>4, <4>1
      <4>3. /\ f \in Frame
            /\ f.pc = l /\ f.job = r.job /\ f.template = x /\ f.todo = r.todo
            /\ f.answers = r.answers /\ f.shutdown = r.shutdown
        BY <4>2 DEF Frame
      <4>4. QED
        BY <4>1, <4>3
    <3>6. FramesOK' /\ frame'[t] = f /\ Others(t)
      BY <1>1, <2>2, <3>3, <3>4, <3>5, GoneTo DEF Others
    <3>7. QED
      BY <2>2, <3>1, <3>2, <3>3, <3>5, <3>6
  <2>3. QED
    BY <2>1, <2>2 DEF CreateTemplate
<1>4. SubmitKeeps /\ UNCHANGED <<stack, fleet, bucket, objects, work, resources, registered,
                                 code_bucket, owns_bucket>>
  BY <1>3 DEF CreateTemplate, SubmitUnchanged, SubmitKeeps, ModeUnchanged
<1>5. ConfigOK' /\ StoreOK' /\ AwsOK' /\ BooksOK' /\ ModeOK'
  BY <1>1, <1>3, <1>4 DEF ConfigOK, StoreOK, AwsOK, BooksOK, ModeOK, config, SubmitKeeps
<1>6. QED
  BY <1>2, <1>3, <1>4, <1>5, TypeParts

\* EC2 creates the fleet of a job.
Launches(j) ==
  /\ fleet'[j] = "active"
  /\ \A i \in Jobs : i # j => fleet'[i] = fleet[i] /\ work'[i] = work[i]

\* The helper notes the fleet of a job in its record.
Notes(j, x) ==
  /\ Tracked(j)
  /\ resources'[j].fleet /\ resources'[j].template = x
  /\ resources'[j].stack = resources[j].stack /\ resources'[j].code = resources[j].code
  /\ resources'[j].status = resources[j].status
  /\ \A i \in Jobs : i # j => resources'[i] = resources[i]

\* create_ec2_fleet()
LEMMA CreateFleetDoes ==
  ASSUME TypeOK, Placed, NEW t \in Threads, CreateFleet(t)
  PROVE  /\ TypeOK' /\ frame[t].pc = "fleet"
         /\ SubmitKeeps
         /\ UNCHANGED <<stack, bucket, objects, code_bucket, owns_bucket>>
         /\ happened \subseteq happened'
         /\ \/ /\ Launches(frame[t].job) /\ Notes(frame[t].job, template)
               /\ frame[t].template = template /\ template' = template
               /\ \/ work'[frame[t].job] = "running" /\ GoesOn(t, "save")
                  \/ work'[frame[t].job] = "none" /\ GoesOn(t, "unfilled")
            \/ /\ Launches(frame[t].job) /\ GoesOn(t, "undo") /\ work'[frame[t].job] = "running"
               /\ UNCHANGED <<resources, registered>>
               /\ template' = template \/ template' = NoJob
               /\ \/ ~Tracked(frame[t].job) /\ template' = template
                  \/ "lost" \in happened'
            \/ /\ UNCHANGED <<fleet, work, resources, registered>> /\ GoesOn(t, "undo")
               /\ template' = template \/ template' = NoJob
               /\ template = frame[t].template => template' = NoJob \/ "delete" \in happened'
<1>1. ConfigOK /\ ModeOK /\ StoreOK /\ AwsOK /\ BooksOK /\ FramesOK /\ EventsOK
  BY TypeParts
<1>2. frame[t].pc = "fleet" /\ frame[t].job \in Jobs /\ frame[t] \in Frame
  BY <1>1 DEF CreateFleet, Placed, Submitting, FramesOK
<1>3. PICK j \in Jobs, x \in Jobs \cup {NoJob} : j = frame[t].job /\ x = frame[t].template
  BY <1>2 DEF Frame
<1>4. UNCHANGED <<config, ran, timed_out, initialized, reported, submits, stack, bucket, objects>>
  BY DEF CreateFleet, SubmitUnchanged
<1>5. ASSUME NEW w \in {"running", "none"}, template = x,
             fleet' = [fleet EXCEPT ![j] = "active"], work' = [work EXCEPT ![j] = w]
      PROVE  /\ Launches(j) /\ work'[j] = w
             /\ fleet' \in [Jobs -> {"none", "active", "deleted", "forgotten"}]
             /\ work' \in [Jobs -> {"none", "stopped"} \cup Live]
  BY <1>1, <1>5 DEF AwsOK, Launches, Live
<1>6. ASSUME Tracked(j), resources' = [resources EXCEPT ![j].fleet = TRUE, ![j].template = x]
      PROVE  Notes(j, x) /\ resources' \in [Jobs -> Record]
  <2>1. ASSUME NEW r \in Record
        PROVE  LET q == [r EXCEPT !.fleet = TRUE, !.template = x] IN
               /\ q \in Record /\ q.fleet /\ q.template = x
               /\ q.stack = r.stack /\ q.code = r.code /\ q.status = r.status
    BY DEF Record
  <2>2. resources' = [resources EXCEPT ![j] = [resources[j] EXCEPT !.fleet = TRUE, !.template = x]]
    BY <1>1, <1>6 DEF ModeOK
  <2>3. PICK r \in Record : r = resources[j]
    BY <1>1 DEF ModeOK
  <2>4. PICK q : q = [r EXCEPT !.fleet = TRUE, !.template = x]
    OBVIOUS
  <2>5. /\ q \in Record /\ q.fleet /\ q.template = x
        /\ q.stack = r.stack /\ q.code = r.code /\ q.status = r.status
    BY <2>1, <2>4
  <2>6. resources' = [resources EXCEPT ![j] = q]
    BY <2>2, <2>3, <2>4
  <2>7. QED
    BY <1>1, <1>6, <2>3, <2>5, <2>6 DEF ModeOK, Notes
<1>7. ASSUME template' \in Jobs \cup {NoJob}, EventsOK', FramesOK',
             fleet' \in [Jobs -> {"none", "active", "deleted", "forgotten"}],
             work' \in [Jobs -> {"none", "stopped"} \cup Live],
             resources' \in [Jobs -> Record], registered' \subseteq Jobs,
             UNCHANGED <<code_bucket, owns_bucket, mode_store>>
      PROVE  TypeOK' /\ SubmitKeeps
  <2>1. SubmitKeeps
    BY <1>4, <1>7 DEF SubmitKeeps
  <2>2. ConfigOK' /\ StoreOK' /\ AwsOK' /\ BooksOK' /\ ModeOK'
    BY <1>1, <1>4, <1>7 DEF ConfigOK, StoreOK, AwsOK, BooksOK, ModeOK, config
  <2>3. QED
    BY <1>7, <2>1, <2>2, TypeParts
<1>8. ASSUME NEW w \in {"running", "none"}, NEW l \in Labels, NEW K,
             template = x, template' = template,
             fleet' = [fleet EXCEPT ![j] = "active"], work' = [work EXCEPT ![j] = w],
             Tracked(j), resources' = [resources EXCEPT ![j].fleet = TRUE, ![j].template = x],
             UNCHANGED <<code_bucket, owns_bucket, mode_store>>,
             registered' \subseteq Jobs, Step(t, l), Happen(K)
      PROVE  /\ TypeOK' /\ SubmitKeeps /\ happened \subseteq happened'
             /\ Launches(j) /\ Notes(j, x) /\ work'[j] = w /\ GoesOn(t, l)
  <2>1. EventsOK' /\ happened \subseteq happened'
    BY <1>1, <1>8, HappenType DEF Happen
  <2>2. FramesOK' /\ GoesOn(t, l)
    BY <1>1, <1>8, StepsOn
  <2>3. Launches(j) /\ Notes(j, x) /\ work'[j] = w
    BY <1>5, <1>6, <1>8
  <2>4. /\ fleet' \in [Jobs -> {"none", "active", "deleted", "forgotten"}]
        /\ work' \in [Jobs -> {"none", "stopped"} \cup Live]
        /\ resources' \in [Jobs -> Record] /\ template' \in Jobs \cup {NoJob}
    BY <1>1, <1>5, <1>6, <1>8 DEF AwsOK
  <2>5. TypeOK' /\ SubmitKeeps
    BY <1>7, <1>8, <2>1, <2>2, <2>4
  <2>6. QED
    BY <2>1, <2>2, <2>3, <2>5
<1>9. ASSUME NEW K, Fails(t, K), template' \in Jobs \cup {NoJob},
             fleet' \in [Jobs -> {"none", "active", "deleted", "forgotten"}],
             work' \in [Jobs -> {"none", "stopped"} \cup Live]
      PROVE  /\ TypeOK' /\ SubmitKeeps /\ GoesOn(t, "undo") /\ happened' = happened \cup K
             /\ UNCHANGED <<resources, registered, code_bucket, owns_bucket>>
  <2>1. FramesOK' /\ EventsOK' /\ GoesOn(t, "undo") /\ ModeUnchanged /\ happened' = happened \cup K
    BY <1>1, <1>9, Failing
  <2>2. TypeOK' /\ SubmitKeeps
    BY <1>1, <1>7, <1>9, <2>1 DEF ModeUnchanged, ModeOK
  <2>3. QED
    BY <2>1, <2>2 DEF ModeUnchanged
<1>10. CASE /\ template = x /\ fleet' = [fleet EXCEPT ![j] = "active"]
            /\ work' = [work EXCEPT ![j] = "running"]
            /\ Tracked(j) /\ resources' = [resources EXCEPT ![j].fleet = TRUE, ![j].template = x]
            /\ template' = template /\ UNCHANGED <<code_bucket, owns_bucket, mode_store>>
            /\ registered' = registered \cup {j}
            /\ Step(t, "save") /\ Happen({})
  <2>1. registered' \subseteq Jobs /\ "save" \in Labels
    BY <1>1, <1>10 DEF ModeOK, Labels
  <2>2. /\ TypeOK' /\ SubmitKeeps /\ happened \subseteq happened'
        /\ Launches(j) /\ Notes(j, x) /\ work'[j] = "running" /\ GoesOn(t, "save")
    BY <1>8, <1>10, <2>1
  <2>3. QED
    BY <1>2, <1>3, <1>4, <1>10, <2>2
<1>11. CASE /\ template = x /\ fleet' = [fleet EXCEPT ![j] = "active"]
            /\ work' = [work EXCEPT ![j] = "none"]
            /\ Tracked(j) /\ resources' = [resources EXCEPT ![j].fleet = TRUE, ![j].template = x]
            /\ template' = template /\ UNCHANGED <<code_bucket, owns_bucket, mode_store>>
            /\ registered' = registered
            /\ Step(t, "unfilled") /\ Happen({"capacity"})
  <2>1. registered' \subseteq Jobs /\ "unfilled" \in Labels
    BY <1>1, <1>11 DEF ModeOK, Labels
  <2>2. /\ TypeOK' /\ SubmitKeeps /\ happened \subseteq happened'
        /\ Launches(j) /\ Notes(j, x) /\ work'[j] = "none" /\ GoesOn(t, "unfilled")
    BY <1>8, <1>11, <2>1
  <2>3. QED
    BY <1>2, <1>3, <1>4, <1>11, <2>2
<1>12. CASE /\ template = x /\ fleet' = [fleet EXCEPT ![j] = "active"]
            /\ work' = [work EXCEPT ![j] = "running"]
            /\ ~Tracked(j) /\ template' = template /\ Fails(t, {})
  <2>1. /\ Launches(j) /\ work'[j] = "running"
        /\ fleet' \in [Jobs -> {"none", "active", "deleted", "forgotten"}]
        /\ work' \in [Jobs -> {"none", "stopped"} \cup Live] /\ template' \in Jobs \cup {NoJob}
    BY <1>1, <1>5, <1>12 DEF AwsOK
  <2>2. /\ TypeOK' /\ SubmitKeeps /\ GoesOn(t, "undo") /\ happened \subseteq happened'
        /\ UNCHANGED <<resources, registered, code_bucket, owns_bucket>>
    BY <1>9, <1>12, <2>1
  <2>3. QED
    BY <1>2, <1>3, <1>4, <1>12, <2>1, <2>2
<1>13. CASE /\ template = x /\ fleet' = [fleet EXCEPT ![j] = "active"]
            /\ work' = [work EXCEPT ![j] = "running"]
            /\ DeleteTemplates({x}) \/ template' = template
            /\ Fails(t, {"lost"} \cup IfSo(template' # NoJob, "delete"))
  <2>1. /\ Launches(j) /\ work'[j] = "running"
        /\ fleet' \in [Jobs -> {"none", "active", "deleted", "forgotten"}]
        /\ work' \in [Jobs -> {"none", "stopped"} \cup Live] /\ template' \in Jobs \cup {NoJob}
        /\ template' = template \/ template' = NoJob
    BY <1>1, <1>5, <1>13 DEF AwsOK, DeleteTemplates
  <2>2. /\ TypeOK' /\ SubmitKeeps /\ GoesOn(t, "undo")
        /\ happened \subseteq happened' /\ "lost" \in happened'
        /\ UNCHANGED <<resources, registered, code_bucket, owns_bucket>>
    BY <1>9, <1>13, <2>1
  <2>3. QED
    BY <1>2, <1>3, <1>4, <1>13, <2>1, <2>2
<1>14. CASE /\ DeleteTemplates({x}) \/ template' = template
            /\ UNCHANGED <<fleet, work>>
            /\ Fails(t, IfSo(template = x, "refused") \cup IfSo(template' = x, "delete"))
  <2>1. /\ fleet' \in [Jobs -> {"none", "active", "deleted", "forgotten"}]
        /\ work' \in [Jobs -> {"none", "stopped"} \cup Live] /\ template' \in Jobs \cup {NoJob}
        /\ template' = template \/ template' = NoJob
    BY <1>1, <1>14 DEF AwsOK, DeleteTemplates
  <2>2. PICK K : K = IfSo(template = x, "refused") \cup IfSo(template' = x, "delete")
    OBVIOUS
  <2>3. /\ TypeOK' /\ SubmitKeeps /\ GoesOn(t, "undo") /\ happened' = happened \cup K
        /\ UNCHANGED <<resources, registered, code_bucket, owns_bucket>>
    BY <1>9, <1>14, <2>1, <2>2
  <2>4. template = x => template' = NoJob \/ "delete" \in happened'
    BY <1>14, <2>2, <2>3 DEF IfSo, DeleteTemplates
  <2>5. QED
    BY <1>2, <1>3, <1>4, <1>14, <2>1, <2>3, <2>4
<1>15. QED
  BY <1>3, <1>10, <1>11, <1>12, <1>13, <1>14 DEF CreateFleet

\* delete_ec2_fleet() of a fleet that launched nothing
LEMMA UnfilledDoes ==
  ASSUME TypeOK, Placed, NEW t \in Threads, Unfilled(t)
  PROVE  /\ TypeOK' /\ frame[t].pc = "unfilled" /\ GoesOn(t, "undo")
         /\ SubmitKeeps
         /\ UNCHANGED <<stack, template, bucket, objects, resources, registered,
                        code_bucket, owns_bucket>>
         /\ happened \subseteq happened'
         /\ \A j \in Jobs :
              \/ fleet'[j] = fleet[j] /\ work'[j] = work[j]
              \/ /\ j = frame[t].job
                 /\ fleet[j] = "active" /\ fleet'[j] = "deleted"
                 /\ work'[j] \notin Live
<1>1. ConfigOK /\ ModeOK /\ StoreOK /\ AwsOK /\ BooksOK /\ FramesOK /\ EventsOK
  BY TypeParts
<1>2. PICK K : Fails(t, K)
  BY DEF Unfilled
<1>3. FramesOK' /\ EventsOK' /\ GoesOn(t, "undo") /\ ModeUnchanged /\ happened' = happened \cup K
  BY <1>1, <1>2, Failing
<1>4. /\ fleet' \in [Jobs -> {"none", "active", "deleted", "forgotten"}]
      /\ work' \in [Jobs -> {"none", "stopped"} \cup Live]
      /\ \A j \in Jobs :
           \/ fleet'[j] = fleet[j] /\ work'[j] = work[j]
           \/ /\ j = frame[t].job
              /\ fleet[j] = "active" /\ fleet'[j] = "deleted"
              /\ work'[j] \notin Live
  <2>1. CASE DeleteFleets({frame[t].job})
    BY <1>1, <2>1 DEF AwsOK, DeleteFleets, Live
  <2>2. CASE UNCHANGED <<fleet, work>>
    BY <1>1, <2>2 DEF AwsOK
  <2>3. QED
    BY <2>1, <2>2 DEF Unfilled
<1>5. /\ frame[t].pc = "unfilled" /\ SubmitKeeps
      /\ UNCHANGED <<stack, template, bucket, objects, resources, registered, code_bucket, owns_bucket>>
  BY <1>3 DEF Unfilled, SubmitUnchanged, SubmitKeeps, ModeUnchanged
<1>6. ConfigOK' /\ StoreOK' /\ AwsOK' /\ BooksOK' /\ ModeOK'
  BY <1>1, <1>4, <1>5 DEF ConfigOK, StoreOK, AwsOK, BooksOK, ModeOK, config, SubmitKeeps
<1>7. QED
  BY <1>3, <1>4, <1>5, <1>6, TypeParts

\* save_state(), after which the provider records the job
LEMMA SaveJobDoes ==
  ASSUME TypeOK, Placed, NEW t \in Threads, SaveJob(t)
  PROVE  /\ TypeOK' /\ frame[t].pc = "save" /\ frame[t].job \in Jobs /\ Ends(t)
         /\ submits'[frame[t].job] = "accepted" /\ reported'[frame[t].job] = "PENDING"
         /\ \A i \in Jobs : i # frame[t].job => submits'[i] = submits[i] /\ reported'[i] = reported[i]
         /\ mode_store'.resources = resources /\ mode_store'.code_bucket = code_bucket
         /\ mode_store'.owns_bucket = owns_bucket
         /\ happened' = happened
         /\ UNCHANGED <<config, awsVars, workVars, resources, code_bucket, owns_bucket,
                        initialized, registered>>
<1>1. ConfigOK /\ ModeOK /\ StoreOK /\ AwsOK /\ BooksOK /\ FramesOK /\ EventsOK
  BY TypeParts
<1>2. frame[t].pc = "save" /\ frame[t].job \in Jobs
  BY DEF SaveJob, Placed, Submitting
<1>3. FramesOK' /\ Ends(t)
  BY <1>1, StepsOut DEF SaveJob
<1>4. EventsOK' /\ happened' = happened
  BY <1>1, HappenType DEF SaveJob, Happen
<1>5. UNCHANGED <<config, awsVars, workVars, resources, code_bucket, owns_bucket, initialized, registered>>
  BY DEF SaveJob, SubmitUnchanged, workVars
<1>6. BooksOK' /\ submits'[frame[t].job] = "accepted" /\ reported'[frame[t].job] = "PENDING"
      /\ \A i \in Jobs : i # frame[t].job => submits'[i] = submits[i] /\ reported'[i] = reported[i]
  BY <1>1, <1>2 DEF SaveJob, BooksOK, Status
<1>7. ConfigOK' /\ AwsOK' /\ ModeOK'
  BY <1>1, <1>5 DEF ConfigOK, AwsOK, ModeOK, config, awsVars, workVars
<1>8. /\ StoreOK' /\ mode_store'.resources = resources
      /\ mode_store'.code_bucket = code_bucket /\ mode_store'.owns_bucket = owns_bucket
  BY <1>5, <1>7, Saves DEF SaveJob
<1>9. QED
  BY <1>2, <1>3, <1>4, <1>5, <1>6, <1>7, <1>8, TypeParts

\* cleanup_resources() of a submission that failed
LEMMA UndoDoes ==
  ASSUME TypeOK, Placed, NEW t \in Threads, Undo(t)
  PROVE  /\ TypeOK' /\ frame[t].pc = "undo" /\ frame[t].job \in Jobs /\ Ends(t)
         /\ Reclaiming({frame[t].job}) /\ Dropping({frame[t].job})
         /\ objects' \subseteq objects
         /\ "delete" \notin happened' =>
              /\ AllReclaimed({frame[t].job})
              /\ resources[frame[t].job].code => frame[t].job \notin objects'
         /\ \A j \in objects \ objects' : j = frame[t].job
         /\ submits'[frame[t].job] = "raised"
         /\ \A i \in Jobs : i # frame[t].job => submits'[i] = submits[i]
         /\ happened \subseteq happened'
         /\ UNCHANGED <<config, bucket, registered, reported, ran, timed_out, initialized>>
<1>1. ConfigOK /\ ModeOK /\ StoreOK /\ AwsOK /\ BooksOK /\ FramesOK /\ EventsOK
  BY TypeParts
<1>2. PICK j \in Jobs : j = frame[t].job
  BY DEF Undo, Placed, Submitting
<1>3. PICK refused : CleanupResources({j}, refused) /\ Happen(RefusalEvent(refused))
  BY <1>2 DEF Undo
<1>4. UNCHANGED <<config, bucket, registered, reported, ran, timed_out, initialized>>
  BY DEF Undo, SubmitUnchanged
<1>5. /\ ModeOK' /\ AwsOK' /\ StoreOK'
      /\ Reclaiming({j}) /\ Dropping({j})
      /\ objects' \subseteq objects
      /\ refused = {} => AllReclaimed({j}) /\ \A i \in {j} : resources[i].code => i \notin objects'
      /\ \A i \in objects \ objects' : i \in {j}
  BY <1>1, <1>2, <1>3, <1>4, Cleans
<1>6. EventsOK' /\ happened \subseteq happened' /\ ("delete" \notin happened' => refused = {})
  BY <1>1, <1>3, HappenType DEF Happen, RefusalEvent, IfSo
<1>7. FramesOK' /\ Ends(t)
  BY <1>1, StepsOut DEF Undo
<1>8. /\ BooksOK' /\ ConfigOK' /\ submits'[j] = "raised"
      /\ \A i \in Jobs : i # j => submits'[i] = submits[i]
  BY <1>1, <1>2, <1>4 DEF Undo, BooksOK, ConfigOK, config
<1>9. frame[t].pc = "undo"
  BY DEF Undo
<1>10. QED
  BY <1>2, <1>4, <1>5, <1>6, <1>7, <1>8, <1>9, TypeParts

\* What get_job_status() leaves alone before its end, other than the records.
AskKeeps ==
  UNCHANGED <<config, awsVars, workVars, code_bucket, owns_bucket, initialized, registered, submits,
              mode_store, reported>>

\* get_job_status() begins
LEMMA StatusBeginDoes ==
  ASSUME TypeOK, NEW t \in Threads, StatusBegin(t)
  PROVE  /\ TypeOK' /\ AskKeeps /\ resources' = resources /\ happened' = happened
         /\ Others(t) /\ frame[t] = Idle
         /\ frame'[t].pc = "ask" /\ frame'[t].job = NoJob /\ frame'[t].todo = Unsettled
         /\ frame'[t].template = NoJob /\ ~frame'[t].shutdown
         /\ \A j \in Jobs : frame'[t].answers[j] = Absent
<1>1. ConfigOK /\ ModeOK /\ StoreOK /\ AwsOK /\ BooksOK /\ FramesOK /\ EventsOK
  BY TypeParts
<1>2. EventsOK' /\ happened' = happened
  BY <1>1, HappenType DEF StatusBegin, Happen
<1>3. PICK J \in SUBSET Jobs : J = Unsettled
  BY DEF Unsettled, Recorded
<1>4. PICK a : a = At("ask")
  OBVIOUS
<1>5. /\ a \in Frame /\ a.pc = "ask" /\ a.job = NoJob /\ a.template = NoJob /\ a.shutdown = FALSE
      /\ \A j \in Jobs : a.answers[j] = Absent
  <2>1. "ask" \in Labels
    BY DEF Labels
  <2>2. QED
    BY <1>4, <2>1, AtLabel
<1>6. PICK f : f = [a EXCEPT !.todo = J]
  OBVIOUS
<1>7. /\ f \in Frame /\ f.pc = a.pc /\ f.job = a.job /\ f.template = a.template /\ f.todo = J
      /\ f.answers = a.answers /\ f.shutdown = a.shutdown
  BY <1>5, <1>6, FrameLists
<1>8. FramesOK' /\ Others(t) /\ frame'[t] = f
  BY <1>1, <1>3, <1>4, <1>6, <1>7, GoneTo DEF StatusBegin, Others
<1>9. frame[t] = Idle /\ AskKeeps /\ resources' = resources
  BY DEF StatusBegin, StatusUnchanged, AskKeeps
<1>10. ConfigOK' /\ StoreOK' /\ AwsOK' /\ BooksOK' /\ ModeOK'
  BY <1>1, <1>9 DEF ConfigOK, StoreOK, AwsOK, BooksOK, ModeOK, config, AskKeeps, awsVars, workVars
<1>11. QED
  BY <1>2, <1>3, <1>5, <1>7, <1>8, <1>9, <1>10, TypeParts

\* A thread has the answer a for the job j, and goes on asking.
Hears(t, j, a) ==
  /\ Others(t)
  /\ frame'[t].pc = "ask" /\ frame'[t].job = NoJob /\ frame'[t].template = frame[t].template
  /\ frame'[t].todo = frame[t].todo \ {j} /\ frame'[t].shutdown = frame[t].shutdown
  /\ frame'[t].answers[j] = a
  /\ \A i \in Jobs : i # j => frame'[t].answers[i] = frame[t].answers[i]

\* A thread that asked takes the answer, and nothing else of it changes.
LEMMA HearsAnswer ==
  ASSUME FramesOK, NEW t \in Threads, NEW j \in Jobs, NEW a \in Answer, Goto(t, Answered(t, j, a))
  PROVE  FramesOK' /\ Hears(t, j, a)
<1>1. frame[t] \in Frame
  BY DEF FramesOK
<1>2. PICK f : f = Answered(t, j, a)
  OBVIOUS
<1>3. /\ f \in Frame
      /\ f.pc = "ask" /\ f.job = NoJob /\ f.template = frame[t].template
      /\ f.todo = frame[t].todo \ {j} /\ f.shutdown = frame[t].shutdown
      /\ f.answers[j] = a
      /\ \A i \in Jobs : i # j => f.answers[i] = frame[t].answers[i]
  BY <1>1, <1>2, FrameAnswered
<1>4. FramesOK' /\ frame'[t] = f /\ Others(t)
  BY <1>2, <1>3, GoneTo DEF Others
<1>5. QED
  BY <1>3, <1>4 DEF Hears

\* An answer that takes no call
LEMMA AskLocallyDoes ==
  ASSUME TypeOK, NEW t \in Threads, AskLocally(t)
  PROVE  /\ TypeOK' /\ AskKeeps /\ resources' = resources /\ happened' = happened
         /\ frame[t].pc = "ask"
         /\ \E j \in frame[t].todo :
              /\ j \in Jobs
              /\ Hears(t, j, IF Tracked(j) THEN resources[j].status ELSE "UNKNOWN")
<1>1. ConfigOK /\ ModeOK /\ StoreOK /\ AwsOK /\ BooksOK /\ FramesOK /\ EventsOK
  BY TypeParts
<1>2. EventsOK' /\ happened' = happened
  BY <1>1, HappenType DEF AskLocally, Happen
<1>3. PICK j \in frame[t].todo :
        Goto(t, Answered(t, j, IF Tracked(j) THEN resources[j].status ELSE "UNKNOWN"))
  BY DEF AskLocally
<1>4. j \in Jobs
  BY <1>1 DEF FramesOK, Frame
<1>5. (IF Tracked(j) THEN resources[j].status ELSE "UNKNOWN") \in Answer
  BY <1>1, <1>4 DEF ModeOK, Record, Answer, Status
<1>6. FramesOK' /\ Hears(t, j, IF Tracked(j) THEN resources[j].status ELSE "UNKNOWN")
  BY <1>1, <1>3, <1>4, <1>5, HearsAnswer
<1>7. frame[t].pc = "ask" /\ AskKeeps /\ resources' = resources
  BY DEF AskLocally, StatusUnchanged, AskKeeps
<1>8. ConfigOK' /\ StoreOK' /\ AwsOK' /\ BooksOK' /\ ModeOK'
  BY <1>1, <1>7 DEF ConfigOK, StoreOK, AwsOK, BooksOK, ModeOK, config, AskKeeps, awsVars, workVars
<1>9. QED
  BY <1>2, <1>4, <1>6, <1>7, <1>8, TypeParts

\* What a call about a job says is one of the answers.
LEMMA Answers ==
  ASSUME TypeOK, Kinded, NEW j \in Jobs, resources[j].fleet \/ resources[j].stack
  PROVE  /\ FleetAnswer(j) \in Status
         /\ ~resources[j].fleet => StackAnswers(j) \subseteq Status \cup {"GONE"}
         /\ FailureAnswers(j) \subseteq Answer \ {Absent}
<1>1. ConfigOK /\ AwsOK
  BY TypeParts
<1>2. FleetAnswer(j) \in Status
  BY DEF FleetAnswer, Status
<1>3. FailureAnswers(j) \subseteq Answer \ {Absent}
  BY <1>1 DEF FailureAnswers, Answer, Status, Absent, ConfigOK, Kinds
<1>4. ASSUME ~resources[j].fleet PROVE StackAnswers(j) \subseteq Status \cup {"GONE"}
  <2>1. kind[j] \in Stacks
    BY <1>4 DEF Kinded, RecordKinds
  <2>2. PICK s \in Stack : s = stack[kind[j]]
    BY <1>1, <2>1 DEF AwsOK
  <2>3. s.state \in {"none", "creating", "rollback", "delete_failed", "deleting", "complete"}
    BY DEF Stack, Standing
  <2>4. LambdaAnswer(j) \in Status /\ EcsAnswers(s.job) \subseteq Status
    BY DEF LambdaAnswer, EcsAnswers, IfSo, Status
  <2>5. "PENDING" \in Status /\ "FAILED" \in Status /\ "CANCELED" \in Status
    BY DEF Status
  <2>6. QED
    BY <2>2, <2>3, <2>4, <2>5 DEF StackAnswers
<1>5. QED
  BY <1>2, <1>3, <1>4

\* A call about a job
LEMMA AskDoes ==
  ASSUME TypeOK, Kinded, NEW t \in Threads, Ask(t)
  PROVE  /\ TypeOK' /\ AskKeeps /\ resources' = resources /\ happened \subseteq happened'
         /\ frame[t].pc = "ask"
         /\ \E j \in frame[t].todo, a \in Answer \ {Absent} :
              /\ j \in Jobs
              /\ Tracked(j) /\ (resources[j].fleet \/ resources[j].stack)
              /\ Others(t)
              /\ frame'[t].pc = "write" /\ frame'[t].job = j
              /\ frame'[t].template = frame[t].template
              /\ frame'[t].todo = frame[t].todo /\ frame'[t].shutdown = frame[t].shutdown
              /\ frame'[t].answers[j] = a
              /\ \A i \in Jobs : i # j => frame'[t].answers[i] = frame[t].answers[i]
              /\ \/ resources[j].fleet /\ a = FleetAnswer(j)
                 \/ ~resources[j].fleet /\ a \in StackAnswers(j)
                 \/ a \in FailureAnswers(j) /\ "describe" \in happened'
<1>1. ConfigOK /\ ModeOK /\ StoreOK /\ AwsOK /\ BooksOK /\ FramesOK /\ EventsOK
  BY TypeParts
<1>2. PICK j, a, K :
        /\ j \in frame[t].todo
        /\ ~NeedsNoCall(j)
        /\ \/ a \in (IF resources[j].fleet THEN {FleetAnswer(j)} ELSE StackAnswers(j)) /\ K = {}
           \/ a \in FailureAnswers(j) /\ K = {"describe"}
        /\ Goto(t, [frame[t] EXCEPT !.pc = "write", !.job = j, !.answers[j] = a])
        /\ Happen(K)
  BY DEF Ask
<1>3. j \in Jobs /\ frame[t] \in Frame
  BY <1>1, <1>2 DEF FramesOK, Frame
<1>4. Tracked(j) /\ (resources[j].fleet \/ resources[j].stack)
  BY <1>2 DEF NeedsNoCall
<1>5. a \in Answer \ {Absent}
  BY <1>2, <1>3, <1>4, Answers DEF Answer, Absent, Status
<1>6. EventsOK' /\ happened' = happened \cup K
  BY <1>1, <1>2, HappenType DEF Happen
<1>7. PICK f : f = [frame[t] EXCEPT !.pc = "write", !.job = j, !.answers[j] = a]
  OBVIOUS
<1>8. /\ f \in Frame
      /\ f.pc = "write" /\ f.job = j /\ f.template = frame[t].template /\ f.todo = frame[t].todo
      /\ f.shutdown = frame[t].shutdown
      /\ f.answers[j] = a
      /\ \A i \in Jobs : i # j => f.answers[i] = frame[t].answers[i]
  <2>1. PICK r \in Frame : r = frame[t]
    BY <1>3
  <2>2. f = [r EXCEPT !.pc = "write", !.job = j, !.answers[j] = a]
    BY <1>7, <2>1
  <2>3. /\ f \in Frame
        /\ f.pc = "write" /\ f.job = j /\ f.template = r.template /\ f.todo = r.todo
        /\ f.shutdown = r.shutdown
        /\ f.answers[j] = a
        /\ \A i \in Jobs : i # j => f.answers[i] = r.answers[i]
    BY <1>3, <1>5, <2>2 DEF Frame, Labels
  <2>4. QED
    BY <2>1, <2>3
<1>9. FramesOK' /\ frame'[t] = f /\ Others(t)
  BY <1>1, <1>2, <1>7, <1>8, GoneTo DEF Others
<1>10. frame[t].pc = "ask" /\ AskKeeps /\ resources' = resources
  BY DEF Ask, StatusUnchanged, AskKeeps
<1>11. ConfigOK' /\ StoreOK' /\ AwsOK' /\ BooksOK' /\ ModeOK'
  BY <1>1, <1>10 DEF ConfigOK, StoreOK, AwsOK, BooksOK, ModeOK, config, AskKeeps, awsVars, workVars
<1>12. /\ \/ resources[j].fleet /\ a = FleetAnswer(j)
          \/ ~resources[j].fleet /\ a \in StackAnswers(j)
          \/ a \in FailureAnswers(j) /\ "describe" \in happened'
       /\ happened \subseteq happened'
  BY <1>2, <1>6
<1>13. QED
  BY <1>2, <1>3, <1>4, <1>5, <1>6, <1>8, <1>9, <1>10, <1>11, <1>12, TypeParts

\* An answer is recorded, or found to come too late
LEMMA WriteDoes ==
  ASSUME TypeOK, Placed, NEW t \in Threads, Write(t)
  PROVE  /\ TypeOK' /\ AskKeeps /\ happened' = happened
         /\ frame[t].pc = "write"
         /\ LET j == frame[t].job
                a == frame[t].answers[j]
            IN /\ j \in Jobs /\ j \in frame[t].todo
               /\ \A i \in Jobs : i # j => resources'[i] = resources[i]
               /\ \/ /\ Tracked(j) /\ SameNames(resources'[j], resources[j])
                     /\ resources'[j].status = Meaning(a) /\ Meaning(a) \in Status
                     /\ Hears(t, j, a)
                  \/ resources' = resources /\ Hears(t, j, "ERROR")
                  \/ resources' = resources /\ Ends(t)
<1>1. ConfigOK /\ ModeOK /\ StoreOK /\ AwsOK /\ BooksOK /\ FramesOK /\ EventsOK
  BY TypeParts
<1>2. frame[t].pc = "write" /\ AskKeeps
  BY DEF Write, StatusUnchanged, AskKeeps
<1>3. frame[t] \in Frame
  BY <1>1 DEF FramesOK
<1>4. PICK j \in Jobs : j = frame[t].job /\ j \in frame[t].todo /\ frame[t].answers[j] # Absent
  BY <1>2, <1>3 DEF Placed, Frame
<1>5. PICK a \in Answer : a = frame[t].answers[j] /\ a # Absent
  BY <1>3, <1>4 DEF Frame
<1>6. EventsOK' /\ happened' = happened
  BY <1>1, HappenType DEF Write, Happen
<1>7. ASSUME FramesOK', resources' \in [Jobs -> Record] PROVE TypeOK'
  <2>1. ConfigOK' /\ StoreOK' /\ AwsOK' /\ BooksOK' /\ ModeOK'
    BY <1>1, <1>2, <1>7 DEF ConfigOK, StoreOK, AwsOK, BooksOK, ModeOK, config, AskKeeps, awsVars, workVars
  <2>2. QED
    BY <1>6, <1>7, <2>1, TypeParts
<1>8. CASE /\ Tracked(j) /\ a # "ERROR"
           /\ resources' = [resources EXCEPT ![j].status = Meaning(a)]
           /\ Goto(t, Answered(t, j, a))
  <2>1. PICK m \in Status : m = Meaning(a)
    BY <1>5, <1>8 DEF Meaning, Answer, Status
  <2>2. PICK q : q = [resources[j] EXCEPT !.status = m]
    OBVIOUS
  <2>3. q \in Record /\ SameNames(q, resources[j]) /\ q.status = m
    BY <1>1, <2>2, RecordTakes DEF ModeOK
  <2>4. resources' = [resources EXCEPT ![j] = q]
    BY <1>8, <2>1, <2>2
  <2>5. /\ resources' \in [Jobs -> Record] /\ resources'[j] = q
        /\ \A i \in Jobs : i # j => resources'[i] = resources[i]
    BY <1>1, <2>3, <2>4 DEF ModeOK
  <2>6. FramesOK' /\ Hears(t, j, a)
    BY <1>1, <1>8, HearsAnswer
  <2>7. QED
    BY <1>2, <1>4, <1>5, <1>6, <1>7, <1>8, <2>1, <2>3, <2>5, <2>6
<1>9. CASE resources' = resources /\ Goto(t, Answered(t, j, "ERROR"))
  <2>1. "ERROR" \in Answer /\ resources' \in [Jobs -> Record]
    BY <1>1, <1>9 DEF Answer, ModeOK
  <2>2. FramesOK' /\ Hears(t, j, "ERROR")
    BY <1>1, <1>9, <2>1, HearsAnswer
  <2>3. QED
    BY <1>2, <1>4, <1>6, <1>7, <1>9, <2>1, <2>2
<1>10. CASE resources' = resources /\ Goto(t, Idle)
  <2>1. FramesOK' /\ Ends(t) /\ resources' \in [Jobs -> Record]
    BY <1>1, <1>10, StepsOut DEF ModeOK
  <2>2. QED
    BY <1>2, <1>4, <1>6, <1>7, <1>10, <2>1
<1>11. QED
  BY <1>4, <1>5, <1>8, <1>9, <1>10 DEF Write

\* The provider takes the answers
LEMMA StatusUpdateDoes ==
  ASSUME TypeOK, NEW t \in Threads, StatusUpdate(t)
  PROVE  /\ TypeOK' /\ frame[t].pc = "ask" /\ Ends(t) /\ happened \subseteq happened'
         /\ resources' = resources
         /\ mode_store'.resources = resources /\ mode_store'.code_bucket = code_bucket
         /\ mode_store'.owns_bucket = owns_bucket
         /\ \A j \in Jobs :
              \/ reported'[j] = reported[j]
              \/ /\ j \in Recorded /\ frame[t].answers[j] # Absent
                 /\ reported'[j] = Meaning(frame[t].answers[j]) /\ reported'[j] \in Status
                 /\ reported[j] \in Terminal => "late_answer" \in happened'
         /\ UNCHANGED <<config, awsVars, workVars, code_bucket, owns_bucket, initialized,
                        registered, submits>>
<1>1. ConfigOK /\ ModeOK /\ StoreOK /\ AwsOK /\ BooksOK /\ FramesOK /\ EventsOK
  BY TypeParts
<1>2. PICK heard : heard = {j \in Recorded : frame[t].answers[j] # Absent}
  OBVIOUS
<1>3. /\ reported' = [j \in Jobs |-> IF j \in heard THEN Meaning(frame[t].answers[j]) ELSE reported[j]]
      /\ Happen(IfSo(\E j \in heard : reported[j] \in Terminal, "late_answer"))
  BY <1>2 DEF StatusUpdate
<1>4. \A j \in heard : j \in Jobs /\ Meaning(frame[t].answers[j]) \in Status
  <2>1. frame[t] \in Frame
    BY <1>1 DEF FramesOK
  <2>2. \A j \in heard : j \in Jobs /\ frame[t].answers[j] \in Answer \ {Absent}
    BY <1>2, <2>1 DEF Frame, Recorded
  <2>3. QED
    BY <2>2 DEF Meaning, Answer, Status
<1>5. EventsOK' /\ happened \subseteq happened'
  BY <1>1, <1>3, HappenType DEF Happen
<1>6. \A j \in Jobs :
        \/ reported'[j] = reported[j]
        \/ /\ j \in Recorded /\ frame[t].answers[j] # Absent
           /\ reported'[j] = Meaning(frame[t].answers[j]) /\ reported'[j] \in Status
           /\ reported[j] \in Terminal => "late_answer" \in happened'
  BY <1>2, <1>3, <1>4 DEF Happen, IfSo
<1>7. FramesOK' /\ Ends(t)
  BY <1>1, StepsOut DEF StatusUpdate
<1>8. /\ frame[t].pc = "ask" /\ resources' = resources
      /\ UNCHANGED <<config, awsVars, workVars, code_bucket, owns_bucket, initialized, registered, submits>>
  BY DEF StatusUpdate, StatusUnchanged
<1>9. ConfigOK' /\ AwsOK' /\ ModeOK'
  BY <1>1, <1>8 DEF ConfigOK, AwsOK, ModeOK, config, awsVars, workVars
<1>10. BooksOK'
  BY <1>1, <1>3, <1>4, <1>8 DEF BooksOK
<1>11. /\ StoreOK' /\ mode_store'.resources = resources
       /\ mode_store'.code_bucket = code_bucket /\ mode_store'.owns_bucket = owns_bucket
  BY <1>8, <1>9, Saves DEF StatusUpdate
<1>12. QED
  BY <1>5, <1>6, <1>7, <1>8, <1>9, <1>10, <1>11, TypeParts

\* cancel() of one job
LEMMA CancelDoes ==
  ASSUME TypeOK, NEW t \in Threads, NEW j \in Jobs, Cancel(t, j)
  PROVE  /\ TypeOK' /\ CancelUnchanged /\ frame[t] = Idle /\ j \in Recorded
         /\ Others(t) /\ frame'[t] = At("cleanup")
         /\ Reclaiming({j}) /\ Cancelling({j}) /\ objects' = objects
         /\ mode_store'.resources = resources' /\ mode_store'.code_bucket = code_bucket
         /\ mode_store'.owns_bucket = owns_bucket
         /\ "delete" \notin happened' => AllReclaimed({j})
         /\ happened \subseteq happened'
<1>1. ConfigOK /\ ModeOK /\ StoreOK /\ AwsOK /\ BooksOK /\ FramesOK /\ EventsOK
  BY TypeParts
<1>2. PICK f : f = At("cleanup")
  OBVIOUS
<1>3. f \in Frame
  BY <1>2, AtLabel DEF Labels
<1>4. CancelJobs(t, {j}, f, {})
  BY <1>2 DEF Cancel
<1>5. /\ ModeOK' /\ AwsOK' /\ StoreOK' /\ BooksOK' /\ EventsOK' /\ FramesOK'
      /\ Reclaiming({j}) /\ Cancelling({j}) /\ Save
      /\ "delete" \notin happened' => AllReclaimed({j})
      /\ happened \subseteq happened'
  BY <1>1, <1>3, <1>4, Cancels
<1>6. Others(t) /\ frame'[t] = f
  BY <1>1, <1>3, <1>4, GoneTo DEF CancelJobs, Others
<1>7. CancelUnchanged /\ ConfigOK' /\ objects' = objects
  BY <1>1, <1>4 DEF CancelJobs, CancelUnchanged, ConfigOK, config
<1>8. /\ mode_store'.resources = resources' /\ mode_store'.code_bucket = code_bucket
      /\ mode_store'.owns_bucket = owns_bucket
  BY <1>5, <1>7, Saves DEF CancelUnchanged
<1>9. frame[t] = Idle /\ j \in Recorded
  BY DEF Cancel
<1>10. QED
  BY <1>2, <1>5, <1>6, <1>7, <1>8, <1>9, TypeParts

\* shutdown() begins with cancel() of every job
LEMMA ShutdownDoes ==
  ASSUME TypeOK, NEW t \in Threads, Shutdown(t)
  PROVE  /\ TypeOK' /\ CancelUnchanged /\ frame[t] = Idle /\ initialized
         /\ Others(t)
         /\ frame'[t].pc = "cleanup" /\ frame'[t].job = NoJob /\ frame'[t].template = NoJob
         /\ frame'[t].todo = {} /\ frame'[t].shutdown
         /\ \A i \in Jobs : frame'[t].answers[i] = Absent
         /\ Reclaiming(Recorded) /\ Cancelling(Recorded) /\ objects' = objects
         /\ mode_store'.resources = resources' /\ mode_store'.code_bucket = code_bucket
         /\ mode_store'.owns_bucket = owns_bucket
         /\ "delete" \notin happened' => AllReclaimed(Recorded)
         /\ InMiddleOfSubmit => "late_submit" \in happened'
         /\ happened \subseteq happened'
<1>1. ConfigOK /\ ModeOK /\ StoreOK /\ AwsOK /\ BooksOK /\ FramesOK /\ EventsOK
  BY TypeParts
<1>2. PICK a : a = At("cleanup")
  OBVIOUS
<1>3. /\ a \in Frame /\ a.pc = "cleanup" /\ a.job = NoJob /\ a.template = NoJob /\ a.todo = {}
      /\ \A i \in Jobs : a.answers[i] = Absent
  <2>1. "cleanup" \in Labels
    BY DEF Labels
  <2>2. QED
    BY <1>2, <2>1, AtLabel
<1>4. PICK f : f = [a EXCEPT !.shutdown = TRUE]
  OBVIOUS
<1>5. /\ f \in Frame /\ f.pc = a.pc /\ f.job = a.job /\ f.template = a.template /\ f.todo = a.todo
      /\ f.answers = a.answers /\ f.shutdown = TRUE
  BY <1>3, <1>4, FrameShuts
<1>6. PICK J \in SUBSET Jobs : J = Recorded
  BY DEF Recorded
<1>7. PICK K : K = IfSo(InMiddleOfSubmit, "late_submit")
  OBVIOUS
<1>8. CancelJobs(t, J, f, K)
  BY <1>2, <1>4, <1>6, <1>7 DEF Shutdown
<1>9. /\ ModeOK' /\ AwsOK' /\ StoreOK' /\ BooksOK' /\ EventsOK' /\ FramesOK'
      /\ Reclaiming(J) /\ Cancelling(J) /\ Save
      /\ "delete" \notin happened' => AllReclaimed(J)
      /\ K \subseteq happened' /\ happened \subseteq happened'
  BY <1>1, <1>5, <1>8, Cancels
<1>10. Others(t) /\ frame'[t] = f
  BY <1>1, <1>5, <1>8, GoneTo DEF CancelJobs, Others
<1>11. CancelUnchanged /\ ConfigOK' /\ objects' = objects
  BY <1>1, <1>8 DEF CancelJobs, CancelUnchanged, ConfigOK, config
<1>12. /\ mode_store'.resources = resources' /\ mode_store'.code_bucket = code_bucket
       /\ mode_store'.owns_bucket = owns_bucket
  BY <1>9, <1>11, Saves DEF CancelUnchanged
<1>13. InMiddleOfSubmit => "late_submit" \in happened'
  BY <1>7, <1>9 DEF IfSo
<1>14. frame[t] = Idle /\ initialized
  BY DEF Shutdown
<1>15. QED
  BY <1>3, <1>5, <1>6, <1>9, <1>10, <1>11, <1>12, <1>13, <1>14, TypeParts

\* The cleanup pass of the provider
LEMMA CleanupDoes ==
  ASSUME TypeOK, NEW t \in Threads, Cleanup(t)
  PROVE  LET ended == {j \in Recorded : reported[j] \in Terminal} IN
         /\ TypeOK' /\ CancelUnchanged /\ frame[t].pc = "cleanup" /\ Others(t)
         /\ frame'[t].pc = IF frame[t].shutdown THEN "clear" ELSE "idle"
         /\ frame'[t].job = NoJob /\ frame'[t].template = NoJob
         /\ frame'[t].todo = {} /\ frame'[t].shutdown = frame[t].shutdown
         /\ \A i \in Jobs : frame'[t].answers[i] = Absent
         /\ Reclaiming(ended) /\ Dropping(ended)
         /\ objects' \subseteq objects
         /\ "delete" \notin happened' =>
              AllReclaimed(ended) /\ \A j \in ended : resources[j].code => j \notin objects'
         /\ \A j \in objects \ objects' : j \in ended
         /\ \A j \in Jobs : reported'[j] = IF j \in ended THEN "collected" ELSE reported[j]
         /\ happened \subseteq happened'
<1>1. ConfigOK /\ ModeOK /\ StoreOK /\ AwsOK /\ BooksOK /\ FramesOK /\ EventsOK
  BY TypeParts
<1>2. PICK ended \in SUBSET Jobs : ended = {j \in Recorded : reported[j] \in Terminal}
  BY DEF Recorded
<1>3. PICK refused : CleanupResources(ended, refused) /\ Happen(RefusalEvent(refused))
  BY <1>2 DEF Cleanup
<1>4. frame[t].pc = "cleanup" /\ CancelUnchanged
  BY DEF Cleanup
<1>5. /\ ModeOK' /\ AwsOK' /\ StoreOK'
      /\ Reclaiming(ended) /\ Dropping(ended)
      /\ objects' \subseteq objects
      /\ refused = {} => AllReclaimed(ended) /\ \A j \in ended : resources[j].code => j \notin objects'
      /\ \A j \in objects \ objects' : j \in ended
  <2>1. UNCHANGED <<initialized, registered, bucket, ran, timed_out>>
    BY <1>4 DEF CancelUnchanged
  <2>2. QED
    BY <1>1, <1>3, <2>1, Cleans
<1>6. EventsOK' /\ happened \subseteq happened' /\ ("delete" \notin happened' => refused = {})
  BY <1>1, <1>3, HappenType DEF Happen, RefusalEvent, IfSo
<1>7. /\ FramesOK' /\ Others(t)
      /\ frame'[t].pc = IF frame[t].shutdown THEN "clear" ELSE "idle"
      /\ frame'[t].job = NoJob /\ frame'[t].template = NoJob
      /\ frame'[t].todo = {} /\ frame'[t].shutdown = frame[t].shutdown
      /\ \A i \in Jobs : frame'[t].answers[i] = Absent
  <2>1. frame[t].shutdown \in BOOLEAN
    BY <1>1 DEF FramesOK, Frame
  <2>2. CASE ~frame[t].shutdown
    <3>1. Goto(t, Idle)
      BY <2>2 DEF Cleanup
    <3>2. FramesOK' /\ Ends(t)
      BY <1>1, <3>1, StepsOut
    <3>3. QED
      BY <2>1, <2>2, <3>2, IdleFrame DEF Ends
  <2>3. CASE frame[t].shutdown
    <3>1. PICK a : a = At("clear")
      OBVIOUS
    <3>2. /\ a \in Frame /\ a.pc = "clear" /\ a.job = NoJob /\ a.template = NoJob /\ a.todo = {}
          /\ \A i \in Jobs : a.answers[i] = Absent
      <4>1. "clear" \in Labels
        BY DEF Labels
      <4>2. QED
        BY <3>1, <4>1, AtLabel
    <3>3. PICK f : f = [a EXCEPT !.shutdown = TRUE]
      OBVIOUS
    <3>4. /\ f \in Frame /\ f.pc = a.pc /\ f.job = a.job /\ f.template = a.template /\ f.todo = a.todo
          /\ f.answers = a.answers /\ f.shutdown = TRUE
      BY <3>2, <3>3, FrameShuts
    <3>5. Goto(t, f)
      BY <2>3, <3>1, <3>3 DEF Cleanup
    <3>6. FramesOK' /\ frame'[t] = f /\ Others(t)
      BY <1>1, <3>4, <3>5, GoneTo DEF Others
    <3>7. QED
      BY <2>1, <2>3, <3>2, <3>4, <3>6
  <2>4. QED
    BY <2>2, <2>3
<1>8. /\ BooksOK' /\ ConfigOK'
      /\ \A j \in Jobs : reported'[j] = IF j \in ended THEN "collected" ELSE reported[j]
  BY <1>1, <1>2, <1>4 DEF Cleanup, BooksOK, CancelUnchanged, ConfigOK, config
<1>9. QED
  BY <1>2, <1>4, <1>5, <1>6, <1>7, <1>8, TypeParts

\* cleanup_all()
LEMMA ClearDoes ==
  ASSUME TypeOK, NEW t \in Threads, Clear(t)
  PROVE  /\ TypeOK' /\ CancelUnchanged /\ frame[t].pc = "clear" /\ GoesOn(t, "sweep")
         /\ Reclaiming(TrackedJobs) /\ Dropping(TrackedJobs)
         /\ objects' \subseteq objects
         /\ "delete" \notin happened' =>
              AllReclaimed(TrackedJobs) /\ \A j \in TrackedJobs : resources[j].code => j \notin objects'
         /\ reported' = reported
         /\ InMiddleOfSubmit => "late_submit" \in happened'
         /\ happened \subseteq happened'
<1>1. ConfigOK /\ ModeOK /\ StoreOK /\ AwsOK /\ BooksOK /\ FramesOK /\ EventsOK
  BY TypeParts
<1>2. PICK J \in SUBSET Jobs : J = TrackedJobs
  BY DEF TrackedJobs
<1>3. PICK refused :
        /\ CleanupResources(J, refused)
        /\ Happen(RefusalEvent(refused) \cup IfSo(InMiddleOfSubmit, "late_submit"))
  BY <1>2 DEF Clear
<1>4. frame[t].pc = "clear" /\ CancelUnchanged /\ reported' = reported
  BY DEF Clear
<1>5. /\ ModeOK' /\ AwsOK' /\ StoreOK'
      /\ Reclaiming(J) /\ Dropping(J)
      /\ objects' \subseteq objects
      /\ refused = {} => AllReclaimed(J) /\ \A j \in J : resources[j].code => j \notin objects'
  <2>1. UNCHANGED <<initialized, registered, bucket, ran, timed_out>>
    BY <1>4 DEF CancelUnchanged
  <2>2. QED
    BY <1>1, <1>3, <2>1, Cleans
<1>6. /\ EventsOK' /\ happened \subseteq happened' /\ ("delete" \notin happened' => refused = {})
      /\ InMiddleOfSubmit => "late_submit" \in happened'
  BY <1>1, <1>3, HappenType DEF Happen, RefusalEvent, IfSo
<1>7. FramesOK' /\ GoesOn(t, "sweep")
  BY <1>1, StepsOn DEF Clear, Labels
<1>8. BooksOK' /\ ConfigOK'
  BY <1>1, <1>4 DEF BooksOK, CancelUnchanged, ConfigOK, config
<1>9. QED
  BY <1>2, <1>4, <1>5, <1>6, <1>7, <1>8, TypeParts

\* The end of the shutdown
LEMMA SweepDoes ==
  ASSUME TypeOK, NEW t \in Threads, Sweep(t)
  PROVE  /\ TypeOK' /\ frame[t].pc = "sweep" /\ Ends(t)
         /\ \A j \in Jobs :
              \/ fleet'[j] = fleet[j] /\ work'[j] = work[j]
              \/ fleet[j] = "active" /\ fleet'[j] = "deleted" /\ work'[j] \notin Live
         /\ \A j \in Jobs : reported'[j] = IF j \in Recorded THEN "collected" ELSE reported[j]
         /\ objects' \subseteq objects
         /\ owns_bucket /\ code_bucket /\ "delete" \notin happened' => ~bucket'
         /\ bucket' => bucket
         /\ ~owns_bucket' /\ ~initialized'
         /\ mode_store'.resources = resources /\ mode_store'.code_bucket = code_bucket'
         /\ mode_store'.owns_bucket = owns_bucket'
         /\ happened \subseteq happened'
         /\ UNCHANGED <<config, stack, template, ran, timed_out, resources, submits>>
<1>1. ConfigOK /\ ModeOK /\ StoreOK /\ AwsOK /\ BooksOK /\ FramesOK /\ EventsOK
  BY TypeParts
<1>2. PICK refused, F :
        /\ refused \in {{}, {"bucket"}, {"fleet"}}
        /\ DeleteBucket(refused \cap {"bucket"}) /\ DeleteFleets(F) /\ Happen(RefusalEvent(refused))
  BY DEF Sweep
<1>3. PICK r : r = refused \cap {"bucket"} /\ (refused = {} => r = {})
  OBVIOUS
<1>4. EventsOK' /\ happened \subseteq happened' /\ ("delete" \notin happened' => refused = {})
  BY <1>1, <1>2, HappenType DEF Happen, RefusalEvent, IfSo
<1>5. /\ bucket' \in BOOLEAN /\ objects' \in SUBSET Jobs /\ code_bucket' \in BOOLEAN
      /\ owns_bucket' = FALSE /\ objects' \subseteq objects
      /\ bucket' => bucket
      /\ owns_bucket /\ code_bucket /\ r = {} => ~bucket'
  BY <1>1, <1>2, <1>3 DEF DeleteBucket, AwsOK, ModeOK
<1>6. /\ fleet' \in [Jobs -> {"none", "active", "deleted", "forgotten"}]
      /\ work' \in [Jobs -> {"none", "stopped"} \cup Live]
      /\ \A j \in Jobs :
           \/ fleet'[j] = fleet[j] /\ work'[j] = work[j]
           \/ fleet[j] = "active" /\ fleet'[j] = "deleted" /\ work'[j] \notin Live
  BY <1>1, <1>2 DEF DeleteFleets, AwsOK, Live
<1>7. /\ frame[t].pc = "sweep" /\ ~initialized' /\ registered' = {} /\ initialized' \in BOOLEAN
      /\ UNCHANGED <<config, stack, template, ran, timed_out, resources, submits>>
  BY DEF Sweep
<1>8. FramesOK' /\ Ends(t)
  BY <1>1, StepsOut DEF Sweep
<1>9. BooksOK' /\ \A j \in Jobs : reported'[j] = IF j \in Recorded THEN "collected" ELSE reported[j]
  BY <1>1, <1>7 DEF Sweep, BooksOK
<1>10. ConfigOK' /\ AwsOK' /\ ModeOK'
  BY <1>1, <1>5, <1>6, <1>7 DEF ConfigOK, AwsOK, ModeOK, config
<1>11. /\ StoreOK' /\ mode_store'.resources = resources /\ mode_store'.code_bucket = code_bucket'
       /\ mode_store'.owns_bucket = owns_bucket'
  BY <1>7, <1>10, Saves DEF Sweep
<1>12. QED
  BY <1>3, <1>4, <1>5, <1>6, <1>7, <1>8, <1>9, <1>10, <1>11, TypeParts

-----------------------------------------------------------------------------
(* What AWS, the clock and the monitor do.                                 *)

\* A stack comes into being or is gone, ...
StackMoves(k) ==
  \/ stack'[k] = stack[k]
  \/ /\ stack[k].state = "creating" /\ stack'[k].job = stack[k].job
     /\ \/ stack'[k].state = "rollback"
        \/ stack'[k].state = "complete" /\ (k = "ecs" /\ stack[k].job \in Jobs => work'[stack[k].job] = "running")
  \/ stack[k].state = "deleting" /\ stack'[k] = NoStack
  \/ /\ stack[k].state = "deleting" /\ stack'[k].job = stack[k].job
     /\ stack'[k].state = "delete_failed" /\ "delete_failed" \in happened'

\* ... a fleet is forgotten, ...
FleetMoves(j) ==
  \/ fleet'[j] = fleet[j]
  \/ fleet[j] \in {"active", "deleted"} /\ fleet'[j] = "forgotten" /\ work[j] \notin Live /\ work'[j] = work[j]

\* ... and the work of a job begins, is warned, or ends.
WorkMoves(j) ==
  \/ work'[j] = work[j]
  \/ /\ work'[j] = "running"
     /\ stack["ecs"].job = j /\ stack["ecs"].state \in {"creating", "complete"}
  \/ work'[j] = "warned" /\ work[j] = "running" /\ "reclaim" \in happened'
  \/ /\ work'[j] = "stopped" /\ work[j] \in Live
     /\ \/ j \in ran'
        \/ "reclaim" \in happened'
        \/ work[j] = "warned"
        \/ \E k \in Stacks : stack[k].state = "deleting" /\ stack[k].job = j /\ stack'[k] = NoStack

\* What the environment leaves alone.
WorldKeeps ==
  UNCHANGED <<config, code_bucket, owns_bucket, initialized, registered, mode_store, template,
              bucket, objects, callVars>>

WorldMoves ==
  /\ WorldKeeps
  /\ happened \subseteq happened' /\ ran \subseteq ran'
  /\ \A k \in Stacks : StackMoves(k)
  /\ \A j \in Jobs : FleetMoves(j) /\ WorkMoves(j)
  /\ \A j \in Jobs : \/ resources'[j] = resources[j]
                     \/ /\ Tracked(j) /\ SameNames(resources'[j], resources[j])
                        /\ resources'[j].status = "INTERRUPTED"

\* A step of CloudFormation, ECS or EC2 that changes the state of AWS only.
LEMMA AwsStep ==
  ASSUME TypeOK, NEW K, Happen(K), AwsUnchanged,
         stack' \in [Stacks -> Stack],
         fleet' \in [Jobs -> {"none", "active", "deleted", "forgotten"}],
         work' \in [Jobs -> {"none", "stopped"} \cup Live],
         ran' \in SUBSET Jobs
  PROVE  /\ TypeOK' /\ WorldKeeps /\ resources' = resources /\ happened' = happened \cup K
<1>1. ConfigOK /\ ModeOK /\ StoreOK /\ AwsOK /\ BooksOK /\ FramesOK /\ EventsOK
  BY TypeParts
<1>2. EventsOK' /\ happened' = happened \cup K
  BY <1>1, HappenType DEF Happen
<1>3. WorldKeeps /\ resources' = resources /\ timed_out' = timed_out
  BY DEF AwsUnchanged, WorldKeeps, modeVars
<1>4. ConfigOK' /\ StoreOK' /\ AwsOK' /\ BooksOK' /\ ModeOK' /\ FramesOK'
  BY <1>1, <1>3 DEF ConfigOK, StoreOK, AwsOK, BooksOK, ModeOK, FramesOK, WorldKeeps, config, callVars
<1>5. QED
  BY <1>2, <1>3, <1>4, TypeParts

\* A stack takes another state.
LEMMA StackTakes ==
  ASSUME AwsOK, NEW k \in Stacks, NEW s \in Standing, stack' = [stack EXCEPT ![k].state = s]
  PROVE  /\ stack' \in [Stacks -> Stack]
         /\ stack'[k].state = s /\ stack'[k].job = stack[k].job
         /\ \A i \in Stacks : i # k => stack'[i] = stack[i]
<1>1. PICK r \in Stack : r = stack[k]
  BY DEF AwsOK
<1>2. PICK q : q = [r EXCEPT !.state = s]
  OBVIOUS
<1>3. q \in Stack /\ q.state = s /\ q.job = r.job
  BY <1>2 DEF Stack
<1>4. stack' = [stack EXCEPT ![k] = q]
  BY <1>1, <1>2
<1>5. QED
  BY <1>1, <1>3, <1>4 DEF AwsOK

\* A step of CloudFormation moves the stack it is about, and its work.
LEMMA StacksMove ==
  ASSUME TypeOK, NEW k \in Stacks,
         StackComplete(k) \/ StackRollback(k) \/ StackGone(k) \/ StackDeleteFails(k)
  PROVE  TypeOK' /\ WorldMoves
<1>1. AwsOK /\ ModeOK
  BY TypeParts
<1>2. stack[k] \in Stack
  BY <1>1 DEF AwsOK
<1>3. ASSUME NEW K, Happen(K), AwsUnchanged, UNCHANGED <<fleet, ran>>,
             stack' \in [Stacks -> Stack],
             work' \in [Jobs -> {"none", "stopped"} \cup Live],
             \A i \in Stacks : i # k => stack'[i] = stack[i],
             StackMoves(k),
             \A j \in Jobs : WorkMoves(j)
      PROVE  TypeOK' /\ WorldMoves
  <2>1. /\ fleet' \in [Jobs -> {"none", "active", "deleted", "forgotten"}]
        /\ ran' \in SUBSET Jobs
    BY <1>1, <1>3 DEF AwsOK
  <2>2. TypeOK' /\ WorldKeeps /\ resources' = resources /\ happened' = happened \cup K
    BY <1>3, <2>1, AwsStep
  <2>3. \A j \in Jobs : FleetMoves(j)
    BY <1>3 DEF FleetMoves
  <2>4. \A i \in Stacks : StackMoves(i)
    BY <1>3, <2>2 DEF StackMoves
  <2>5. QED
    BY <1>3, <2>2, <2>3, <2>4 DEF WorldMoves
<1>4. CASE StackComplete(k)
  <2>1. "complete" \in Standing
    BY DEF Standing
  <2>2. /\ stack' \in [Stacks -> Stack]
        /\ stack'[k].state = "complete" /\ stack'[k].job = stack[k].job
        /\ \A i \in Stacks : i # k => stack'[i] = stack[i]
    BY <1>1, <1>4, <2>1, StackTakes DEF StackComplete
  <2>3. /\ work' \in [Jobs -> {"none", "stopped"} \cup Live]
        /\ \A j \in Jobs : \/ work'[j] = work[j]
                           \/ k = "ecs" /\ stack[k].job = j /\ work'[j] = "running"
        /\ k = "ecs" /\ stack[k].job \in Jobs => work'[stack[k].job] = "running"
    BY <1>1, <1>4 DEF StackComplete, AwsOK, Live
  <2>4. StackMoves(k) /\ \A j \in Jobs : WorkMoves(j)
    BY <1>4, <2>2, <2>3 DEF StackComplete, StackMoves, WorkMoves
  <2>5. Happen({}) /\ AwsUnchanged /\ UNCHANGED <<fleet, ran>>
    BY <1>4 DEF StackComplete
  <2>6. QED
    BY <1>3, <2>2, <2>3, <2>4, <2>5
<1>5. CASE StackRollback(k)
  <2>1. "rollback" \in Standing
    BY DEF Standing
  <2>2. /\ stack' \in [Stacks -> Stack]
        /\ stack'[k].state = "rollback" /\ stack'[k].job = stack[k].job
        /\ \A i \in Stacks : i # k => stack'[i] = stack[i]
    BY <1>1, <1>5, <2>1, StackTakes DEF StackRollback
  <2>3. Happen({"rollback"}) /\ AwsUnchanged /\ UNCHANGED <<fleet, ran>> /\ work' = work
    BY <1>5 DEF StackRollback
  <2>4. StackMoves(k) /\ \A j \in Jobs : WorkMoves(j)
    BY <1>5, <2>2, <2>3 DEF StackRollback, StackMoves, WorkMoves
  <2>5. QED
    BY <1>1, <1>3, <2>2, <2>3, <2>4 DEF AwsOK
<1>6. CASE StackGone(k)
  <2>1. NoStack \in Stack
    BY DEF NoStack, Stack
  <2>2. /\ stack' \in [Stacks -> Stack] /\ stack'[k] = NoStack
        /\ \A i \in Stacks : i # k => stack'[i] = stack[i]
    BY <1>1, <1>6, <2>1 DEF StackGone, AwsOK
  <2>3. /\ work' \in [Jobs -> {"none", "stopped"} \cup Live]
        /\ \A j \in Jobs : \/ work'[j] = work[j]
                           \/ stack[k].job = j /\ work'[j] = "stopped" /\ work[j] \in Live
    BY <1>1, <1>6 DEF StackGone, AwsOK
  <2>4. StackMoves(k) /\ \A j \in Jobs : WorkMoves(j)
    BY <1>6, <2>2, <2>3 DEF StackGone, StackMoves, WorkMoves
  <2>5. Happen({}) /\ AwsUnchanged /\ UNCHANGED <<fleet, ran>>
    BY <1>6 DEF StackGone
  <2>6. QED
    BY <1>3, <2>2, <2>3, <2>4, <2>5
<1>7. CASE StackDeleteFails(k)
  <2>1. "delete_failed" \in Standing
    BY DEF Standing
  <2>2. /\ stack' \in [Stacks -> Stack]
        /\ stack'[k].state = "delete_failed" /\ stack'[k].job = stack[k].job
        /\ \A i \in Stacks : i # k => stack'[i] = stack[i]
    BY <1>1, <1>7, <2>1, StackTakes DEF StackDeleteFails
  <2>3. Happen({"delete_failed"}) /\ AwsUnchanged /\ UNCHANGED <<fleet, ran>> /\ work' = work
    BY <1>7 DEF StackDeleteFails
  <2>4. StackMoves(k) /\ \A j \in Jobs : WorkMoves(j)
    <3>1. "delete_failed" \in happened'
      BY <2>3 DEF Happen
    <3>2. QED
      BY <1>7, <2>2, <2>3, <3>1 DEF StackDeleteFails, StackMoves, WorkMoves
  <2>5. QED
    BY <1>1, <1>3, <2>2, <2>3, <2>4 DEF AwsOK
<1>8. QED
  BY <1>4, <1>5, <1>6, <1>7

\* A step of EC2 or ECS moves the fleet or the work of the job it is about.
LEMMA JobsMove ==
  ASSUME TypeOK, NEW j \in Jobs,
         \/ Finish(j) \/ ReplaceTask(j) \/ Reclaim(j) \/ Reclaimed(j)
         \/ ForgetFleet(j)
  PROVE  TypeOK' /\ WorldMoves
<1>1. AwsOK /\ ModeOK
  BY TypeParts
<1>2. PICK K : Happen(K) /\ (Reclaim(j) => "reclaim" \in K)
  BY DEF Finish, ReplaceTask, Reclaim, Reclaimed, ForgetFleet
<1>3. AwsUnchanged /\ stack' = stack
  BY DEF Finish, ReplaceTask, Reclaim, Reclaimed, ForgetFleet
<1>4. /\ fleet' \in [Jobs -> {"none", "active", "deleted", "forgotten"}]
      /\ work' \in [Jobs -> {"none", "stopped"} \cup Live]
      /\ ran' \in SUBSET Jobs /\ ran \subseteq ran'
  BY <1>1 DEF Finish, ReplaceTask, Reclaim, Reclaimed, ForgetFleet, AwsOK, Live
<1>5. TypeOK' /\ WorldKeeps /\ resources' = resources /\ happened' = happened \cup K
  <2>1. stack' \in [Stacks -> Stack]
    BY <1>1, <1>3 DEF AwsOK
  <2>2. QED
    BY <1>2, <1>3, <1>4, <2>1, AwsStep
<1>6. Reclaim(j) => "reclaim" \in happened'
  BY <1>2, <1>5
<1>7. \A i \in Jobs : FleetMoves(i)
  BY <1>1 DEF Finish, ReplaceTask, Reclaim, Reclaimed, ForgetFleet, AwsOK, FleetMoves
<1>8. \A i \in Jobs : WorkMoves(i)
  <2>1. CASE Finish(j)
    BY <1>1, <2>1 DEF Finish, AwsOK, WorkMoves
  <2>2. CASE ReplaceTask(j)
    BY <1>1, <2>2 DEF ReplaceTask, AwsOK, WorkMoves
  <2>3. CASE Reclaim(j)
    BY <1>1, <1>6, <2>3 DEF Reclaim, AwsOK, WorkMoves, Live
  <2>4. CASE Reclaimed(j)
    BY <1>1, <2>4 DEF Reclaimed, AwsOK, WorkMoves, Live
  <2>5. CASE ForgetFleet(j)
    BY <1>1, <2>5 DEF ForgetFleet, WorkMoves
  <2>6. QED
    BY <2>1, <2>2, <2>3, <2>4, <2>5
<1>9. \A k \in Stacks : StackMoves(k)
  BY <1>3 DEF StackMoves
<1>10. QED
  BY <1>4, <1>5, <1>7, <1>8, <1>9 DEF WorldMoves

\* Every step of the environment moves the world by these rules.
LEMMA WorldSteps ==
  ASSUME TypeOK, Environment
  PROVE  TypeOK' /\ WorldMoves
<1>1. ConfigOK /\ ModeOK /\ StoreOK /\ AwsOK /\ BooksOK /\ FramesOK /\ EventsOK
  BY TypeParts
<1>2. CASE \E k \in Stacks : StackComplete(k) \/ StackRollback(k) \/ StackGone(k) \/ StackDeleteFails(k)
  BY <1>2, StacksMove
<1>3. CASE \E j \in Jobs : Finish(j) \/ ReplaceTask(j) \/ Reclaim(j) \/ Reclaimed(j) \/ ForgetFleet(j)
  BY <1>3, JobsMove
<1>4. ASSUME NEW j \in Jobs, MarkInterrupted(j) PROVE TypeOK' /\ WorldMoves
  <2>1. EventsOK' /\ happened' = happened
    BY <1>1, <1>4, HappenType DEF MarkInterrupted, Happen
  <2>2. PICK q : q = [resources[j] EXCEPT !.status = "INTERRUPTED"]
    OBVIOUS
  <2>3. q \in Record /\ SameNames(q, resources[j]) /\ q.status = "INTERRUPTED"
    <3>1. "INTERRUPTED" \in Status
      BY DEF Status
    <3>2. QED
      BY <1>1, <2>2, <3>1, RecordTakes DEF ModeOK
  <2>4. resources' = [resources EXCEPT ![j] = q]
    BY <1>4, <2>2 DEF MarkInterrupted
  <2>5. Tracked(j) /\ WorldKeeps /\ UNCHANGED <<stack, fleet, work, ran, timed_out>>
    BY <1>4 DEF MarkInterrupted, WorldKeeps, awsVars, workVars, callVars
  <2>6. ConfigOK' /\ StoreOK' /\ AwsOK' /\ BooksOK' /\ ModeOK' /\ FramesOK'
    BY <1>1, <2>3, <2>4, <2>5 DEF ConfigOK, StoreOK, AwsOK, BooksOK, ModeOK, FramesOK, WorldKeeps, config, callVars
  <2>7. WorldMoves
    BY <1>1, <2>1, <2>3, <2>4, <2>5 DEF WorldMoves, StackMoves, FleetMoves, WorkMoves, ModeOK
  <2>8. QED
    BY <2>1, <2>6, <2>7, TypeParts
<1>5. ASSUME NEW j \in Jobs, ClockPasses(j) PROVE TypeOK' /\ WorldMoves
  <2>1. EventsOK' /\ happened' = happened
    BY <1>1, <1>5, HappenType DEF ClockPasses, Happen
  <2>2. WorldKeeps /\ UNCHANGED <<stack, fleet, work, ran, resources>> /\ timed_out' = timed_out \cup {j}
    BY <1>5 DEF ClockPasses, WorldKeeps, awsVars, modeVars, callVars
  <2>3. ConfigOK' /\ StoreOK' /\ AwsOK' /\ BooksOK' /\ ModeOK' /\ FramesOK'
    BY <1>1, <2>2 DEF ConfigOK, StoreOK, AwsOK, BooksOK, ModeOK, FramesOK, WorldKeeps, config, callVars
  <2>4. WorldMoves
    BY <2>1, <2>2 DEF WorldMoves, StackMoves, FleetMoves, WorkMoves
  <2>5. QED
    BY <2>1, <2>3, <2>4, TypeParts
<1>6. QED
  BY <1>2, <1>3, <1>4, <1>5 DEF Environment

\* The successor of a process that died has the records of the document, and
\* nobody is in the middle of anything.
LEMMA RestartDoes ==
  ASSUME TypeOK, Restart
  PROVE  /\ TypeOK' /\ initialized
         /\ resources' = mode_store.resources /\ code_bucket' = mode_store.code_bucket
         /\ owns_bucket' = mode_store.owns_bucket
         /\ \A t \in Threads : frame'[t] = Idle
         /\ \A j \in Jobs : submits'[j] = IF submits[j] = "called" THEN "raised" ELSE submits[j]
         /\ happened \subseteq happened' /\ (KnowsMore => "unsaved" \in happened')
         /\ UNCHANGED <<config, initialized, mode_store, awsVars, workVars, reported>>
<1>1. ConfigOK /\ ModeOK /\ StoreOK /\ AwsOK /\ BooksOK /\ FramesOK /\ EventsOK
  BY TypeParts
<1>2. EventsOK' /\ happened \subseteq happened' /\ (KnowsMore => "unsaved" \in happened')
  BY <1>1, HappenType DEF Restart, Happen, IfSo
<1>3. FramesOK' /\ \A t \in Threads : frame'[t] = Idle
  BY IdleFrame DEF Restart, FramesOK
<1>4. /\ BooksOK'
      /\ \A j \in Jobs : submits'[j] = IF submits[j] = "called" THEN "raised" ELSE submits[j]
  BY <1>1 DEF Restart, BooksOK
<1>5. /\ mode_store.resources \in [Jobs -> Record] /\ mode_store.code_bucket \in BOOLEAN
      /\ mode_store.owns_bucket \in BOOLEAN
  BY <1>1 DEF StoreOK, Document
<1>6. /\ resources' = mode_store.resources /\ code_bucket' = mode_store.code_bucket
      /\ owns_bucket' = mode_store.owns_bucket /\ registered' \subseteq Jobs /\ initialized
      /\ UNCHANGED <<config, initialized, mode_store, awsVars, workVars, reported>>
  BY DEF Restart
<1>7. ConfigOK' /\ StoreOK' /\ AwsOK' /\ ModeOK'
  BY <1>1, <1>5, <1>6 DEF ConfigOK, StoreOK, AwsOK, ModeOK, config, awsVars, workVars
<1>8. QED
  BY <1>2, <1>3, <1>4, <1>6, <1>7, TypeParts

-----------------------------------------------------------------------------
(* The base of the inductive invariants: what the frames of the threads,   *)
(* the books and the records agree on, whatever goes wrong.                *)

\* A job is on the list of a thread, or the thread has an answer for it.
Asks(r, j) == j \in r.todo \/ r.answers[j] # Absent

\* A thread that submits is the one that called; a thread that asks, or has an
\* answer, does so for jobs that were accepted.
Sound(r) ==
  /\ r.pc \in Submitting => submits[r.job] = "called"
  /\ r.pc \in {"bucket", "stage"} => kind[r.job] = "lambda"
  /\ r.pc = "stack" => kind[r.job] \in Stacks
  /\ r.pc \in {"template", "fleet", "unfilled"} => kind[r.job] = "fleet"
  /\ r.pc = "fleet" => r.template # NoJob
  /\ \A j \in Jobs : Asks(r, j) => submits[j] = "accepted"
  /\ r.shutdown => r.pc \in {"cleanup", "clear", "sweep"}
  /\ r.pc \in {"clear", "sweep"} => r.shutdown

FramesSound == \A t \in Threads : Sound(frame[t])

\* No two threads submit the same job.
Apart ==
  \A t, u \in Threads :
    t # u /\ frame[t].pc \in Submitting /\ frame[u].pc \in Submitting => frame[t].job # frame[u].job

\* A submission under way is some thread's, and the provider knows the accepted ones.
BooksAgree ==
  /\ \A j \in Jobs : submits[j] = "called" => \E t \in Threads : frame[t].pc \in Submitting /\ frame[t].job = j
  /\ \A j \in Jobs : reported[j] = "none" <=> submits[j] # "accepted"

BookInv == TypeOK /\ Placed /\ Kinded /\ FramesSound /\ Apart /\ BooksAgree

\* A thread submits exactly when it is at one of the labels.
LEMMA MiddleOfSubmit ==
  ASSUME TypeOK, Placed
  PROVE  InMiddleOfSubmit <=> \E t \in Threads : frame[t].pc \in Submitting
BY ServerlessAssumption DEF InMiddleOfSubmit, Placed, Submitting

\* What happens to the submissions: one begins, or the thread's own ends.
SubmitsMove(t) ==
  \A j \in Jobs : \/ submits'[j] = submits[j]
                  \/ submits[j] = "none"
                  \/ frame[t].pc \in Submitting /\ j = frame[t].job

\* The other threads are not concerned.
LEMMA OthersSound ==
  ASSUME BookInv, NEW t \in Threads, Others(t), SubmitsMove(t), kind' = kind
  PROVE  \A u \in Threads : u # t => Sound(frame[u])'
<1> TAKE u \in Threads
<1> HAVE u # t
<1>1. frame'[u] = frame[u] /\ Sound(frame[u])
  BY DEF Others, BookInv, FramesSound
<1>2. PICK r \in Frame : r = frame[u]
  BY TypeParts DEF BookInv, FramesOK
<1>3. r.pc \in Submitting => r.job \in Jobs /\ submits[r.job] = "called" /\ submits'[r.job] = "called"
  BY <1>1, <1>2 DEF BookInv, Placed, Sound, Apart, SubmitsMove
<1>4. \A j \in Jobs : submits[j] = "accepted" => submits'[j] = "accepted"
  BY <1>1 DEF BookInv, FramesSound, Placed, Sound, SubmitsMove
<1>5. QED
  BY <1>1, <1>2, <1>3, <1>4 DEF Sound, Asks

\* A step of a thread keeps the base when it leaves its own frame sound, and its
\* submission, if it has one, its own.
LEMMA ThreadKeepsBooks ==
  ASSUME BookInv, NEW t \in Threads, Others(t), SubmitsMove(t), kind' = kind,
         TypeOK', Kinded', Sound(frame[t])',
         /\ frame'[t].pc \in Submitting => /\ frame'[t].job \in Jobs
                                           /\ \/ submits[frame'[t].job] = "none"
                                              \/ frame[t].pc \in Submitting /\ frame'[t].job = frame[t].job
         /\ frame'[t].pc = "write" => /\ frame'[t].job \in frame'[t].todo
                                      /\ frame'[t].answers[frame'[t].job] # Absent
         /\ frame'[t].pc \notin Submitting \cup {"write"} => frame'[t].job = NoJob,
         \A j \in Jobs : submits'[j] = "called" => \/ submits[j] = "called"
                                                   \/ frame'[t].pc \in Submitting /\ frame'[t].job = j,
         frame[t].pc \in Submitting =>
           \/ frame'[t].pc \in Submitting /\ frame'[t].job = frame[t].job
           \/ submits'[frame[t].job] # "called",
         \A j \in Jobs : reported'[j] = "none" <=> submits'[j] # "accepted"
  PROVE  BookInv'
<1>1. FramesSound'
  BY OthersSound DEF FramesSound
<1>2. Placed'
  BY DEF BookInv, Placed, Others
<1>3. Apart'
  <2> SUFFICES ASSUME NEW u \in Threads, u # t, frame'[t].pc \in Submitting, frame'[u].pc \in Submitting
               PROVE  frame'[t].job # frame'[u].job
    BY DEF BookInv, Apart, Others
  <2>1. frame'[u] = frame[u] /\ submits[frame[u].job] = "called"
    BY DEF BookInv, FramesSound, Sound, Others
  <2>2. QED
    BY <2>1 DEF BookInv, Apart
<1>4. BooksAgree'
  <2> SUFFICES ASSUME NEW j \in Jobs, submits'[j] = "called"
               PROVE  \E u \in Threads : frame'[u].pc \in Submitting /\ frame'[u].job = j
    BY DEF BooksAgree
  <2>1. CASE frame'[t].pc \in Submitting /\ frame'[t].job = j
    BY <2>1
  <2>2. CASE submits[j] = "called"
    <3>1. PICK u \in Threads : frame[u].pc \in Submitting /\ frame[u].job = j
      BY <2>2 DEF BookInv, BooksAgree
    <3>2. QED
      BY <3>1 DEF Others
  <2>3. QED
    BY <2>1, <2>2
<1>5. QED
  BY <1>1, <1>2, <1>3, <1>4 DEF BookInv

\* The records keep to their kinds.
LEMMA KindsKept ==
  ASSUME Kinded, TypeOK, kind' = kind,
         \A j \in Jobs : \/ resources'[j] = resources[j]
                         \/ SameNames(resources'[j], resources[j]) /\ resources'[j].status # Absent
                         \/ resources'[j] = NoRecord
                         \/ resources'[j] = mode_store.resources[j],
         mode_store' = mode_store \/ mode_store'.resources = resources'
  PROVE  Kinded'
<1>1. \A j \in Jobs : RecordKinds(resources[j], j)'
  BY NoRecords DEF Kinded, RecordKinds, SameNames
<1>2. QED
  BY <1>1 DEF Kinded, RecordKinds

\* A step of submit_job() that goes on to one of its labels, with what it holds.
LEMMA GoingOnKeepsBooks ==
  ASSUME BookInv, NEW t \in Threads, NEW l \in Submitting, GoesOn(t, l), frame[t].pc \in Submitting,
         TypeOK', Kinded', SubmitKeeps,
         l \in {"undo", "save"} \/ (l \in {"stage", "stack"} /\ kind[frame[t].job] = "lambda")
                                \/ (l = "unfilled" /\ kind[frame[t].job] = "fleet")
  PROVE  BookInv'
<1>1. PICK j \in Jobs : j = frame[t].job
  BY DEF BookInv, Placed
<1>2. SubmitsMove(t) /\ kind' = kind /\ submits' = submits /\ reported' = reported /\ Others(t)
  BY DEF SubmitKeeps, SubmitsMove, config, GoesOn
<1>3. Sound(frame[t])
  BY DEF BookInv, FramesSound
<1>4. Sound(frame[t])'
  <2>1. /\ frame'[t].pc = l /\ frame'[t].job = j /\ ~frame'[t].shutdown
        /\ \A i \in Jobs : Asks(frame'[t], i) <=> Asks(frame[t], i)
    BY <1>1, <1>3 DEF GoesOn, Asks, Sound, Submitting
  <2>2. QED
    BY <1>1, <1>2, <1>3, <2>1 DEF Sound, Submitting, Stacks
<1>5. QED
  BY <1>1, <1>2, <1>4, ThreadKeepsBooks DEF GoesOn, Submitting, BookInv, BooksAgree

\* A thread that is done keeps the base.
LEMMA EndingKeepsBooks ==
  ASSUME BookInv, NEW t \in Threads, Ends(t), TypeOK', Kinded', kind' = kind,
         SubmitsMove(t),
         \A j \in Jobs : submits'[j] = "called" => submits[j] = "called",
         frame[t].pc \in Submitting => submits'[frame[t].job] # "called",
         \A j \in Jobs : reported'[j] = "none" <=> submits'[j] # "accepted"
  PROVE  BookInv'
<1>1. Others(t) /\ frame'[t] = Idle
  BY DEF Ends
<1>2. Sound(frame[t])'
  BY <1>1, IdleFrame DEF Sound, Submitting, Asks
<1>3. /\ frame'[t].pc \notin Submitting /\ frame'[t].pc # "write" /\ frame'[t].job = NoJob
  BY <1>1, IdleFrame DEF Submitting
<1>4. QED
  BY <1>1, <1>2, <1>3, ThreadKeepsBooks

\* So does one that does not submit.
LEMMA OtherCallsKeepBooks ==
  ASSUME BookInv, NEW t \in Threads, Others(t), TypeOK', Kinded', kind' = kind, submits' = submits,
         frame[t].pc \notin Submitting, frame'[t].pc \notin Submitting, Sound(frame[t])',
         /\ frame'[t].pc = "write" => /\ frame'[t].job \in frame'[t].todo
                                      /\ frame'[t].answers[frame'[t].job] # Absent
         /\ frame'[t].pc # "write" => frame'[t].job = NoJob,
         \A j \in Jobs : reported'[j] = "none" <=> reported[j] = "none"
  PROVE  BookInv'
<1>1. SubmitsMove(t)
  BY DEF SubmitsMove
<1>2. \A j \in Jobs : reported'[j] = "none" <=> submits'[j] # "accepted"
  BY DEF BookInv, BooksAgree
<1>3. QED
  BY <1>1, <1>2, ThreadKeepsBooks

\* Each step of submit_job() keeps the base.
LEMMA SubmitKeepsBooks ==
  ASSUME BookInv, NEW t \in Threads, (\E j \in Jobs : Submit(t, j)) \/ SubmitStep(t)
  PROVE  BookInv'
<1> USE DEF SubmitStep
<1>1. TypeOK /\ Placed /\ Kinded
  BY DEF BookInv
<1>2. ASSUME NEW j \in Jobs, Submit(t, j) PROVE BookInv'
  <2>1. PICK k : k = kind[j] /\ k \in Kinds
    BY <1>1, TypeParts DEF ConfigOK
  <2>2. /\ TypeOK' /\ Others(t) /\ frame[t] = Idle
        /\ submits[j] = "none" /\ submits'[j] = "called"
        /\ \A i \in Jobs : i # j => submits'[i] = submits[i]
        /\ frame'[t].job = j /\ frame'[t].todo = {} /\ ~frame'[t].shutdown
        /\ \A i \in Jobs : frame'[t].answers[i] = Absent
        /\ kind' = kind /\ mode_store' = mode_store /\ reported' = reported
    BY <1>1, <1>2, SubmitDoes DEF config
  <2>3. /\ SameNames(resources'[j], resources[j]) /\ resources'[j].status # Absent
        /\ \A i \in Jobs : i # j => resources'[i] = resources[i]
    BY <1>1, <1>2, SubmitDoes DEF Absent
  <2>4. /\ k = "ecs" => frame'[t].pc = "stack"
        /\ k = "fleet" => frame'[t].pc = "template"
        /\ k = "lambda" => frame'[t].pc \in {"stage", "bucket"}
    BY <1>1, <1>2, <2>1, SubmitDoes
  <2>5. \/ k = "ecs" /\ frame'[t].pc = "stack"
        \/ k = "fleet" /\ frame'[t].pc = "template"
        \/ k = "lambda" /\ frame'[t].pc \in {"stage", "bucket"}
    BY <2>1, <2>4 DEF Kinds
  <2>6. Kinded'
    BY <1>1, <2>2, <2>3, KindsKept
  <2>7. Sound(frame[t])'
    BY <2>1, <2>2, <2>5 DEF Sound, Submitting, Asks, Stacks
  <2>8. frame'[t].pc \in Submitting /\ frame[t].pc \notin Submitting /\ SubmitsMove(t)
    BY <2>2, <2>5, IdleFrame DEF Submitting, SubmitsMove
  <2>9. \A i \in Jobs : reported'[i] = "none" <=> submits'[i] # "accepted"
    BY <2>2 DEF BookInv, BooksAgree
  <2>10. QED
    BY <2>2, <2>6, <2>7, <2>8, <2>9, ThreadKeepsBooks DEF Submitting
<1>3. CASE EnsureBucket(t)
  <2>1. /\ TypeOK' /\ SubmitKeeps /\ resources' = resources /\ frame[t].pc = "bucket"
        /\ GoesOn(t, "stage") \/ GoesOn(t, "undo")
    BY <1>1, <1>3, EnsureBucketDoes
  <2>2. Kinded' /\ kind[frame[t].job] = "lambda"
    BY <1>1, <2>1, KindsKept DEF SubmitKeeps, config, BookInv, FramesSound, Sound
  <2>3. QED
    BY <2>1, <2>2, GoingOnKeepsBooks DEF Submitting
<1>4. CASE Stage(t)
  <2>1. /\ TypeOK' /\ SubmitKeeps /\ resources' = resources /\ frame[t].pc = "stage"
        /\ GoesOn(t, "stack") \/ GoesOn(t, "undo")
    BY <1>1, <1>4, StageDoes
  <2>2. Kinded' /\ kind[frame[t].job] = "lambda"
    BY <1>1, <2>1, KindsKept DEF SubmitKeeps, config, BookInv, FramesSound, Sound
  <2>3. QED
    BY <2>1, <2>2, GoingOnKeepsBooks DEF Submitting
<1>5. CASE CreateLambdaStack(t) \/ CreateEcsStack(t)
  <2>1. /\ TypeOK' /\ SubmitKeeps /\ frame[t].pc = "stack"
        /\ GoesOn(t, "save") \/ GoesOn(t, "undo")
        /\ kind[frame[t].job] \in {"lambda", "ecs"}
    BY <1>1, <1>5, CreateStackDoes
  <2>2. \/ resources' = resources
        \/ /\ Tracked(frame[t].job)
           /\ resources'[frame[t].job].stack
           /\ resources'[frame[t].job].code <=> kind[frame[t].job] = "lambda"
           /\ resources'[frame[t].job].fleet = resources[frame[t].job].fleet
           /\ resources'[frame[t].job].status = resources[frame[t].job].status
           /\ \A i \in Jobs : i # frame[t].job => resources'[i] = resources[i]
    BY <1>1, <1>5, CreateStackDoes
  <2>3. Kinded'
    <3>1. kind' = kind /\ mode_store' = mode_store
      BY <2>1 DEF SubmitKeeps, config
    <3>2. \A j \in Jobs : RecordKinds(resources[j], j)'
      BY <1>1, <2>1, <2>2, <3>1 DEF Kinded, RecordKinds, Stacks, Tracked
    <3>3. QED
      BY <1>1, <3>1, <3>2 DEF Kinded, RecordKinds
  <2>4. QED
    BY <2>1, <2>3, GoingOnKeepsBooks DEF Submitting
<1>6. CASE CreateTemplate(t)
  <2>1. /\ TypeOK' /\ SubmitKeeps /\ resources' = resources /\ frame[t].pc = "template"
        /\ \/ /\ template' = IF template = NoJob THEN frame[t].job ELSE template
              /\ Others(t)
              /\ frame'[t].pc = "fleet" /\ frame'[t].job = frame[t].job /\ frame'[t].template = template'
              /\ frame'[t].todo = frame[t].todo /\ frame'[t].answers = frame[t].answers
              /\ frame'[t].shutdown = frame[t].shutdown
           \/ GoesOn(t, "undo")
    BY <1>1, <1>6, CreateTemplateDoes
  <2>2. Kinded' /\ Sound(frame[t])
    BY <1>1, <2>1, KindsKept DEF SubmitKeeps, config, BookInv, FramesSound
  <2>3. CASE GoesOn(t, "undo")
    BY <2>1, <2>2, <2>3, GoingOnKeepsBooks DEF Submitting
  <2>4. CASE ~GoesOn(t, "undo")
    <3>1. /\ Others(t) /\ SubmitsMove(t) /\ kind' = kind /\ submits' = submits /\ reported' = reported
          /\ frame'[t].job = frame[t].job /\ frame[t].job \in Jobs /\ frame'[t].pc = "fleet"
      BY <1>1, <2>1, <2>4 DEF SubmitKeeps, SubmitsMove, config, Placed, Submitting
    <3>2. frame'[t].template # NoJob
      BY <2>1, <2>4, <3>1, ServerlessAssumption
    <3>3. Sound(frame[t])'
      BY <2>1, <2>2, <2>4, <3>1, <3>2 DEF Sound, Submitting, Asks
    <3>4. QED
      BY <2>1, <2>2, <3>1, <3>3, ThreadKeepsBooks DEF Submitting, BookInv, BooksAgree
  <2>5. QED
    BY <2>3, <2>4
<1>7. CASE CreateFleet(t)
  <2>1. /\ TypeOK' /\ SubmitKeeps /\ frame[t].pc = "fleet"
        /\ GoesOn(t, "save") \/ GoesOn(t, "unfilled") \/ GoesOn(t, "undo")
        /\ resources' = resources \/ Notes(frame[t].job, template)
    BY <1>1, <1>7, CreateFleetDoes
  <2>2. kind[frame[t].job] = "fleet"
    BY <2>1 DEF BookInv, FramesSound, Sound
  <2>3. Kinded'
    <3>1. kind' = kind /\ mode_store' = mode_store
      BY <2>1 DEF SubmitKeeps, config
    <3>2. \A j \in Jobs : RecordKinds(resources[j], j)'
      BY <1>1, <2>1, <2>2, <3>1 DEF Kinded, RecordKinds, Notes, Tracked
    <3>3. QED
      BY <1>1, <3>1, <3>2 DEF Kinded, RecordKinds
  <2>4. QED
    BY <2>1, <2>2, <2>3, GoingOnKeepsBooks DEF Submitting
<1>8. CASE Unfilled(t)
  <2>1. TypeOK' /\ SubmitKeeps /\ resources' = resources /\ frame[t].pc = "unfilled" /\ GoesOn(t, "undo")
    BY <1>1, <1>8, UnfilledDoes
  <2>2. Kinded'
    BY <1>1, <2>1, KindsKept DEF SubmitKeeps, config
  <2>3. QED
    BY <2>1, <2>2, GoingOnKeepsBooks DEF Submitting
<1>9. CASE SaveJob(t)
  <2>1. /\ TypeOK' /\ frame[t].pc = "save" /\ frame[t].job \in Jobs /\ Ends(t)
        /\ submits'[frame[t].job] = "accepted" /\ reported'[frame[t].job] = "PENDING"
        /\ \A i \in Jobs : i # frame[t].job => submits'[i] = submits[i] /\ reported'[i] = reported[i]
        /\ mode_store'.resources = resources /\ resources' = resources /\ kind' = kind
    BY <1>1, <1>9, SaveJobDoes DEF config
  <2>2. Kinded'
    BY <1>1, <2>1, KindsKept
  <2>3. SubmitsMove(t)
    BY <2>1 DEF SubmitsMove, Submitting
  <2>4. \A j \in Jobs : reported'[j] = "none" <=> submits'[j] # "accepted"
    BY <2>1 DEF BookInv, BooksAgree
  <2>5. QED
    BY <2>1, <2>2, <2>3, <2>4, EndingKeepsBooks
<1>10. CASE Undo(t)
  <2>1. /\ TypeOK' /\ frame[t].pc = "undo" /\ frame[t].job \in Jobs /\ Ends(t)
        /\ Dropping({frame[t].job})
        /\ submits'[frame[t].job] = "raised"
        /\ \A i \in Jobs : i # frame[t].job => submits'[i] = submits[i]
        /\ reported' = reported /\ kind' = kind
    BY <1>1, <1>10, UndoDoes DEF config
  <2>2. Kinded'
    <3>1. mode_store' = mode_store \/ mode_store'.resources = resources'
      BY <2>1 DEF Dropping, Save
    <3>2. QED
      BY <1>1, <2>1, <3>1, KindsKept DEF Dropping
  <2>3. SubmitsMove(t)
    BY <2>1 DEF SubmitsMove, Submitting
  <2>4. submits[frame[t].job] = "called"
    BY <2>1 DEF BookInv, FramesSound, Sound, Submitting
  <2>5. \A j \in Jobs : reported'[j] = "none" <=> submits'[j] # "accepted"
    BY <2>1, <2>4 DEF BookInv, BooksAgree
  <2>6. QED
    BY <2>1, <2>2, <2>3, <2>5, EndingKeepsBooks
<1>11. QED
  BY <1>2, <1>3, <1>4, <1>5, <1>6, <1>7, <1>8, <1>9, <1>10

\* A thread that hears an answer is as sound as before.
LEMMA HearingIsSound ==
  ASSUME BookInv, NEW t \in Threads, NEW j \in Jobs, NEW a, Hears(t, j, a), j \in frame[t].todo,
         frame[t].pc \in {"ask", "write"}, UNCHANGED <<kind, submits>>
  PROVE  Sound(frame[t])' /\ Others(t)
<1>1. Sound(frame[t]) /\ submits[j] = "accepted"
  BY DEF BookInv, FramesSound, Sound, Asks
<1>2. \A i \in Jobs : Asks(frame'[t], i) => Asks(frame[t], i)
  BY DEF Hears, Asks
<1>3. frame'[t].pc = "ask" /\ frame'[t].shutdown = frame[t].shutdown /\ ~frame[t].shutdown
  BY <1>1 DEF Hears, Sound
<1>4. QED
  BY <1>1, <1>2, <1>3 DEF Sound, Submitting, Hears

\* Each step of get_job_status() keeps the base.
LEMMA StatusKeepsBooks ==
  ASSUME BookInv, NEW t \in Threads, StatusBegin(t) \/ StatusStep(t)
  PROVE  BookInv'
<1> USE DEF StatusStep
<1>1. TypeOK /\ Placed /\ Kinded
  BY DEF BookInv
<1>2. ASSUME AskKeeps, TypeOK',
             \A j \in Jobs : \/ resources'[j] = resources[j]
                             \/ SameNames(resources'[j], resources[j]) /\ resources'[j].status # Absent
      PROVE  Kinded' /\ UNCHANGED <<kind, submits, reported>>
  BY <1>1, <1>2, KindsKept DEF AskKeeps, config
<1>3. CASE StatusBegin(t)
  <2>1. /\ TypeOK' /\ AskKeeps /\ resources' = resources
        /\ Others(t) /\ frame[t] = Idle
        /\ frame'[t].pc = "ask" /\ frame'[t].job = NoJob /\ frame'[t].todo = Unsettled
        /\ ~frame'[t].shutdown
        /\ \A j \in Jobs : frame'[t].answers[j] = Absent
    BY <1>1, <1>3, StatusBeginDoes
  <2>2. \A j \in Unsettled : j \in Jobs /\ submits[j] = "accepted"
    BY DEF Unsettled, Recorded, BookInv, BooksAgree
  <2>3. Sound(frame[t])'
    BY <1>2, <2>1, <2>2 DEF Sound, Submitting, Asks
  <2>4. QED
    BY <1>2, <2>1, <2>3, IdleFrame, OtherCallsKeepBooks DEF Submitting
<1>4. CASE AskLocally(t)
  <2>1. /\ TypeOK' /\ AskKeeps /\ resources' = resources /\ frame[t].pc = "ask"
        /\ \E j \in frame[t].todo : j \in Jobs /\ \E a : Hears(t, j, a)
    BY <1>1, <1>4, AskLocallyDoes
  <2>2. /\ Sound(frame[t])' /\ Others(t)
        /\ frame'[t].pc = "ask" /\ frame'[t].job = NoJob
    BY <1>2, <2>1, HearingIsSound DEF Hears
  <2>3. QED
    BY <1>2, <2>1, <2>2, OtherCallsKeepBooks DEF Submitting
<1>5. CASE Ask(t)
  <2>1. /\ TypeOK' /\ AskKeeps /\ resources' = resources
        /\ frame[t].pc = "ask"
    BY <1>1, <1>5, AskDoes
  <2>2. PICK j \in frame[t].todo, a \in Answer \ {Absent} :
          /\ j \in Jobs
          /\ Others(t)
          /\ frame'[t].pc = "write" /\ frame'[t].job = j
          /\ frame'[t].todo = frame[t].todo /\ frame'[t].shutdown = frame[t].shutdown
          /\ frame'[t].answers[j] = a
          /\ \A i \in Jobs : i # j => frame'[t].answers[i] = frame[t].answers[i]
    BY <1>1, <1>5, AskDoes
  <2>3. Sound(frame[t])'
    BY <1>2, <2>1, <2>2 DEF BookInv, FramesSound, Sound, Submitting, Asks
  <2>4. QED
    BY <1>2, <2>1, <2>2, <2>3, OtherCallsKeepBooks DEF Submitting
<1>6. CASE Write(t)
  <2>1. PICK j : j = frame[t].job
    OBVIOUS
  <2>2. /\ TypeOK' /\ AskKeeps /\ frame[t].pc = "write" /\ j \in Jobs /\ j \in frame[t].todo
        /\ \A i \in Jobs : i # j => resources'[i] = resources[i]
        /\ \/ /\ SameNames(resources'[j], resources[j])
              /\ resources'[j].status \in Status
              /\ \E a : Hears(t, j, a)
           \/ resources' = resources /\ Hears(t, j, "ERROR")
           \/ resources' = resources /\ Ends(t)
    BY <1>1, <1>6, <2>1, WriteDoes
  <2>3. Kinded' /\ UNCHANGED <<kind, submits, reported>>
    BY <1>2, <2>2, NoRecords
  <2>4. CASE Ends(t)
    <3>1. SubmitsMove(t)
      BY <2>3 DEF SubmitsMove
    <3>2. QED
      BY <2>2, <2>3, <2>4, <3>1, EndingKeepsBooks DEF Submitting, BookInv, BooksAgree
  <2>5. ASSUME NEW a, Hears(t, j, a) PROVE BookInv'
    <3>1. Sound(frame[t])' /\ Others(t) /\ frame'[t].pc = "ask" /\ frame'[t].job = NoJob
      BY <2>2, <2>3, <2>5, HearingIsSound DEF Hears
    <3>2. QED
      BY <2>2, <2>3, <3>1, OtherCallsKeepBooks DEF Submitting
  <2>6. QED
    BY <2>2, <2>4, <2>5
<1>7. CASE StatusUpdate(t)
  <2>1. /\ TypeOK' /\ frame[t].pc = "ask" /\ Ends(t) /\ resources' = resources
        /\ mode_store'.resources = resources /\ kind' = kind /\ submits' = submits
        /\ \A j \in Jobs : \/ reported'[j] = reported[j]
                           \/ j \in Recorded /\ reported'[j] \in Status
    BY <1>1, <1>7, StatusUpdateDoes DEF config
  <2>2. Kinded'
    BY <1>1, <2>1, KindsKept
  <2>3. SubmitsMove(t)
    BY <2>1 DEF SubmitsMove
  <2>4. \A j \in Jobs : reported'[j] = "none" <=> submits'[j] # "accepted"
    BY <2>1 DEF BookInv, BooksAgree, Recorded, Status
  <2>5. QED
    BY <2>1, <2>2, <2>3, <2>4, EndingKeepsBooks DEF Submitting
<1>8. QED
  BY <1>3, <1>4, <1>5, <1>6, <1>7

\* Each step of cancel() and shutdown() keeps the base.
LEMMA CancelKeepsBooks ==
  ASSUME BookInv, NEW t \in Threads,
         (\E j \in Jobs : Cancel(t, j)) \/ Cleanup(t) \/ Shutdown(t) \/ Clear(t) \/ Sweep(t)
  PROVE  BookInv'
<1>1. TypeOK /\ Placed /\ Kinded
  BY DEF BookInv
<1>2. ASSUME NEW J, J \subseteq Recorded, Cancelling(J), CancelUnchanged, TypeOK',
             mode_store'.resources = resources'
      PROVE  /\ Kinded' /\ UNCHANGED <<kind, submits>>
             /\ \A j \in Jobs : reported'[j] = "none" <=> reported[j] = "none"
  <2>1. \A j \in Jobs : \/ resources'[j] = resources[j]
                        \/ SameNames(resources'[j], resources[j]) /\ resources'[j].status # Absent
    BY <1>2 DEF Cancelling, Absent
  <2>2. UNCHANGED <<kind, submits>>
    BY <1>2 DEF CancelUnchanged, config
  <2>3. QED
    BY <1>1, <1>2, <2>1, <2>2, KindsKept DEF Cancelling, Recorded
<1>3. ASSUME NEW j \in Jobs, Cancel(t, j) PROVE BookInv'
  <2>1. /\ TypeOK' /\ CancelUnchanged /\ frame[t] = Idle /\ j \in Recorded
        /\ Others(t) /\ frame'[t] = At("cleanup") /\ Cancelling({j})
        /\ mode_store'.resources = resources'
    BY <1>1, <1>3, CancelDoes
  <2>2. /\ Kinded' /\ UNCHANGED <<kind, submits>>
        /\ \A i \in Jobs : reported'[i] = "none" <=> reported[i] = "none"
    BY <1>2, <2>1
  <2>3. /\ frame'[t].pc = "cleanup" /\ frame'[t].job = NoJob /\ ~frame'[t].shutdown /\ frame'[t].todo = {}
        /\ \A i \in Jobs : frame'[t].answers[i] = Absent
    <3>1. PICK l \in Labels : l = "cleanup"
      BY DEF Labels
    <3>2. PICK a : a = At(l)
      OBVIOUS
    <3>3. /\ a.pc = l /\ a.job = NoJob /\ a.todo = {} /\ a.shutdown = FALSE
          /\ \A i \in Jobs : a.answers[i] = Absent
      BY <3>2, AtLabel
    <3>4. QED
      BY <2>1, <3>1, <3>2, <3>3
  <2>4. Sound(frame[t])'
    BY <2>3 DEF Sound, Submitting, Asks
  <2>5. QED
    BY <2>1, <2>2, <2>3, <2>4, IdleFrame, OtherCallsKeepBooks DEF Submitting
<1>4. CASE Shutdown(t)
  <2>1. /\ TypeOK' /\ CancelUnchanged /\ frame[t] = Idle /\ Others(t)
        /\ frame'[t].pc = "cleanup" /\ frame'[t].job = NoJob /\ frame'[t].todo = {}
        /\ \A i \in Jobs : frame'[t].answers[i] = Absent
        /\ Cancelling(Recorded) /\ mode_store'.resources = resources'
    BY <1>1, <1>4, ShutdownDoes
  <2>2. /\ Kinded' /\ UNCHANGED <<kind, submits>>
        /\ \A i \in Jobs : reported'[i] = "none" <=> reported[i] = "none"
    BY <1>2, <2>1
  <2>3. Sound(frame[t])'
    BY <2>1 DEF Sound, Submitting, Asks
  <2>4. QED
    BY <2>1, <2>2, <2>3, IdleFrame, OtherCallsKeepBooks DEF Submitting
<1>5. CASE Cleanup(t)
  <2>1. PICK ended : ended = {j \in Recorded : reported[j] \in Terminal}
    OBVIOUS
  <2>2. /\ TypeOK' /\ CancelUnchanged /\ frame[t].pc = "cleanup" /\ Others(t)
        /\ frame'[t].pc = IF frame[t].shutdown THEN "clear" ELSE "idle"
        /\ frame'[t].job = NoJob /\ frame'[t].todo = {} /\ frame'[t].shutdown = frame[t].shutdown
        /\ \A i \in Jobs : frame'[t].answers[i] = Absent
        /\ Dropping(ended)
        /\ \A j \in Jobs : reported'[j] = IF j \in ended THEN "collected" ELSE reported[j]
    BY <1>1, <1>5, <2>1, CleanupDoes
  <2>3. kind' = kind /\ submits' = submits
    BY <2>2 DEF CancelUnchanged, config
  <2>4. Kinded'
    <3>1. mode_store' = mode_store \/ mode_store'.resources = resources'
      BY <2>2 DEF Dropping, Save
    <3>2. QED
      BY <1>1, <2>2, <2>3, <3>1, KindsKept DEF Dropping
  <2>5. frame[t].shutdown \in BOOLEAN
    BY <1>1, TypeParts DEF FramesOK, Frame
  <2>6. Sound(frame[t])'
    BY <2>2, <2>5 DEF Sound, Submitting, Asks
  <2>7. \A j \in Jobs : reported'[j] = "none" <=> reported[j] = "none"
    BY <2>1, <2>2 DEF Recorded
  <2>8. frame'[t].pc \in {"clear", "idle"}
    BY <2>2, <2>5
  <2>9. QED
    BY <2>2, <2>3, <2>4, <2>6, <2>7, <2>8, OtherCallsKeepBooks DEF Submitting
<1>6. CASE Clear(t)
  <2>1. /\ TypeOK' /\ CancelUnchanged /\ frame[t].pc = "clear" /\ GoesOn(t, "sweep")
        /\ Dropping(TrackedJobs) /\ reported' = reported
    BY <1>1, <1>6, ClearDoes
  <2>2. kind' = kind /\ submits' = submits
    BY <2>1 DEF CancelUnchanged, config
  <2>3. Kinded'
    <3>1. mode_store' = mode_store \/ mode_store'.resources = resources'
      BY <2>1 DEF Dropping, Save
    <3>2. QED
      BY <1>1, <2>1, <2>2, <3>1, KindsKept DEF Dropping
  <2>4. Sound(frame[t])'
    BY <2>1, <2>2 DEF BookInv, FramesSound, GoesOn, Sound, Submitting, Asks
  <2>5. frame'[t].job = NoJob
    BY <1>1, <2>1 DEF GoesOn, Placed, Submitting
  <2>6. QED
    BY <2>1, <2>2, <2>3, <2>4, <2>5, OtherCallsKeepBooks DEF Submitting, GoesOn
<1>7. CASE Sweep(t)
  <2>1. /\ TypeOK' /\ frame[t].pc = "sweep" /\ Ends(t)
        /\ \A j \in Jobs : reported'[j] = IF j \in Recorded THEN "collected" ELSE reported[j]
        /\ mode_store'.resources = resources /\ resources' = resources
        /\ kind' = kind /\ submits' = submits
    BY <1>1, <1>7, SweepDoes DEF config
  <2>2. Kinded'
    BY <1>1, <2>1, KindsKept
  <2>3. SubmitsMove(t)
    BY <2>1 DEF SubmitsMove
  <2>4. \A j \in Jobs : reported'[j] = "none" <=> submits'[j] # "accepted"
    BY <2>1 DEF BookInv, BooksAgree, Recorded
  <2>5. QED
    BY <2>1, <2>2, <2>3, <2>4, EndingKeepsBooks DEF Submitting
<1>8. QED
  BY <1>3, <1>4, <1>5, <1>6, <1>7

\* The base holds initially, ...
LEMMA BooksInitially ==
  ASSUME Init
  PROVE  BookInv
<1>1. TypeOK
  <2>1. ConfigOK
    BY ServerlessAssumption DEF Init, ConfigOK, Kinds
  <2>2. ModeOK
    BY <2>1, NoRecords DEF Init, Constructed, ModeOK, ConfigOK
  <2>3. StoreOK
    BY <2>2 DEF Init, StoreOK, ModeOK, Document
  <2>4. AwsOK
    <3>1. NoStack \in Stack
      BY DEF NoStack, Stack
    <3>2. QED
      BY <3>1 DEF Init, AwsOK
  <2>5. BooksOK /\ EventsOK
    BY DEF Init, BooksOK, EventsOK
  <2>6. FramesOK
    BY IdleFrame DEF Init, FramesOK
  <2>7. QED
    BY <2>1, <2>2, <2>3, <2>4, <2>5, <2>6, TypeParts
<1>2. Placed /\ FramesSound /\ Apart
  BY IdleFrame DEF Init, Placed, FramesSound, Sound, Apart, Submitting, Asks
<1>3. Kinded
  BY NoRecords DEF Init, Constructed, Kinded, RecordKinds
<1>4. BooksAgree
  BY DEF Init, BooksAgree
<1>5. QED
  BY <1>1, <1>2, <1>3, <1>4 DEF BookInv

\* ... and every step keeps it.
LEMMA BookStep ==
  ASSUME BookInv, [Next]_vars
  PROVE  BookInv'
<1>1. TypeOK /\ Placed /\ Kinded
  BY DEF BookInv
<1>2. ASSUME NEW t \in Threads, ThreadStep(t) PROVE BookInv'
  BY <1>2, SubmitKeepsBooks, StatusKeepsBooks, CancelKeepsBooks DEF ThreadStep
<1>3. CASE Environment
  <2>1. TypeOK' /\ WorldMoves
    BY <1>1, <1>3, WorldSteps
  <2>2. UNCHANGED <<kind, frame, submits, reported, mode_store>>
    BY <2>1 DEF WorldMoves, WorldKeeps, config, callVars
  <2>3. Kinded'
    <3>1. \A j \in Jobs : \/ resources'[j] = resources[j]
                          \/ SameNames(resources'[j], resources[j]) /\ resources'[j].status # Absent
      BY <2>1 DEF WorldMoves, Absent
    <3>2. QED
      BY <1>1, <2>1, <2>2, <3>1, KindsKept
  <2>4. Placed' /\ FramesSound' /\ Apart' /\ BooksAgree'
    BY <2>2 DEF BookInv, Placed, FramesSound, Sound, Asks, Apart, BooksAgree
  <2>5. QED
    BY <2>1, <2>3, <2>4 DEF BookInv
<1>4. CASE Restart
  <2>1. /\ TypeOK' /\ resources' = mode_store.resources /\ mode_store' = mode_store
        /\ \A t \in Threads : frame'[t] = Idle
        /\ \A j \in Jobs : submits'[j] = IF submits[j] = "called" THEN "raised" ELSE submits[j]
        /\ kind' = kind /\ reported' = reported
    BY <1>1, <1>4, RestartDoes DEF config
  <2>2. Kinded'
    BY <1>1, <2>1, KindsKept
  <2>3. Placed' /\ FramesSound' /\ Apart'
    BY <2>1, IdleFrame DEF Placed, FramesSound, Sound, Apart, Submitting, Asks
  <2>4. BooksAgree'
    BY <2>1 DEF BookInv, BooksAgree
  <2>5. QED
    BY <2>1, <2>2, <2>3, <2>4 DEF BookInv
<1>5. CASE UNCHANGED vars
  <2>1. UNCHANGED <<kind, bucket_given, resources, code_bucket, owns_bucket, initialized, registered,
                    mode_store, stack, fleet, template, bucket, objects, work, ran, timed_out,
                    reported, submits, frame, happened, events>>
    BY <1>5 DEF vars, config, modeVars, awsVars, workVars, callVars, eventVars
  <2>2. TypeOK'
    BY <1>1, <2>1 DEF TypeOK
  <2>3. Placed' /\ Kinded' /\ FramesSound' /\ Apart' /\ BooksAgree'
    BY <2>1 DEF BookInv, Placed, Kinded, RecordKinds, FramesSound, Sound, Asks, Apart, BooksAgree
  <2>4. QED
    BY <2>2, <2>3 DEF BookInv
<1>6. QED
  BY <1>2, <1>3, <1>4, <1>5 DEF Next

\* Every reachable state is well typed, whatever fails, for any jobs, threads and bounds.
THEOREM TypeCorrect == Spec => []TypeOK
<1>1. Init => BookInv
  BY BooksInitially
<1>2. BookInv /\ [Next]_vars => BookInv'
  BY BookStep
<1>3. BookInv => TypeOK
  BY DEF BookInv
<1>4. QED
  BY <1>1, <1>2, <1>3, PTL DEF Spec

-----------------------------------------------------------------------------
(* What a step does, seen from each stack, fleet, record and thread.       *)

\* Why what a record of the job names may be deleted: its submission failed, the
\* provider settled it, or the mode is being shut down.
LetGo(j) ==
  \/ \E t \in Threads : frame[t].pc = "undo" /\ frame[t].job = j /\ submits'[j] = "raised"
  \/ j \in Recorded /\ reported'[j] \in Terminal \cup {"collected"}
  \/ \E t \in Threads : frame[t].pc = "clear" /\ (InMiddleOfSubmit => "late_submit" \in happened')

\* What is left of a job whose deletions were not refused.
TornDown(j) ==
  /\ resources[j].stack => stack'[kind[j]].state \notin Standing
  /\ resources[j].fleet => fleet'[j] # "active"
  /\ resources[j].fleet /\ resources[j].template = template => template' = NoJob

StackCreated(t, k) ==
  /\ frame[t].pc = "stack" /\ kind[frame[t].job] = k /\ stack[k].state = "none"
  /\ stack'[k] = [state |-> "creating", job |-> frame[t].job]
  /\ Stale(k) => "stale" \in happened'
  /\ resources'[frame[t].job].stack \/ ~Tracked(frame[t].job) \/ "lost" \in happened'

StackEffects(k) ==
  \/ StackMoves(k)
  \/ \E t \in Threads : StackCreated(t, k)
  \/ /\ stack[k].state \in Standing /\ stack'[k].state = "deleting"
     /\ stack'[k].job = stack[k].job
     /\ \E j \in Jobs : resources[j].stack /\ kind[j] = k /\ LetGo(j)

FleetCreated(t, j) ==
  /\ frame[t].pc = "fleet" /\ frame[t].job = j
  /\ fleet'[j] = "active" /\ work'[j] \in {"none", "running"}
  /\ resources'[j].fleet \/ ~Tracked(j) \/ "lost" \in happened'

FleetEffects(j) ==
  \/ FleetMoves(j) /\ WorkMoves(j)
  \/ \E t \in Threads : FleetCreated(t, j)
  \/ /\ fleet[j] = "active" /\ fleet'[j] = "deleted" /\ work'[j] \notin Live
     /\ \/ resources[j].fleet /\ LetGo(j)
        \/ \E t \in Threads : frame[t].pc = "unfilled" /\ frame[t].job = j
        \/ \E t \in Threads : frame[t].pc = "sweep"

\* A record is begun, has something noted in it, takes a status, or goes.
Begun(j) ==
  /\ submits[j] = "none" /\ submits'[j] = "called"
  /\ SameNames(resources'[j], resources[j]) /\ resources'[j].status = "PENDING"

Noted(j) ==
  /\ \E t \in Threads : frame[t].pc \in {"stack", "fleet"} /\ frame[t].job = j
  /\ Tracked(j) /\ resources'[j].status = resources[j].status
  /\ resources[j].stack => resources'[j].stack
  /\ resources[j].fleet => resources'[j].fleet
  /\ resources'[j].stack => \/ resources[j].stack
                            \/ stack'[kind[j]] = [state |-> "creating", job |-> j]
  /\ resources[j].code => resources'[j].code
  /\ resources'[j].template \in {resources[j].template, template}

Restated(j) ==
  /\ Tracked(j) /\ SameNames(resources'[j], resources[j])
  /\ resources'[j].status \in Status
  /\ \/ \E t \in Threads : /\ frame[t].pc = "write" /\ frame[t].job = j
                           /\ resources'[j].status = Meaning(frame[t].answers[j])
     \/ resources'[j].status = "CANCELED" /\ j \in Recorded /\ reported'[j] = "CANCELED"
     \/ resources'[j].status = "INTERRUPTED"

Dropped(j) ==
  /\ resources'[j] = NoRecord /\ mode_store'.resources = resources'
  /\ LetGo(j)
  /\ j \in Recorded => reported'[j] = "collected" \/ \E t \in Threads : frame[t].pc = "clear"
  /\ "delete" \notin happened' => TornDown(j) /\ (resources[j].code => j \notin objects')

RecordEffects(j) ==
  \/ resources'[j] = resources[j]
  \/ Begun(j) \/ Noted(j) \/ Restated(j) \/ Dropped(j)

StoreEffects ==
  \/ mode_store' = mode_store
  \/ /\ mode_store'.resources = resources'
     /\ mode_store'.code_bucket = code_bucket' /\ mode_store'.owns_bucket = owns_bucket'

\* What the provider knows of a job changes when its submission ends, with an
\* answer, or when the job is cancelled or collected.
Cancelled(j) ==
  /\ j \in Recorded /\ submits'[j] = submits[j]
  /\ reported'[j] \in {"CANCELED", "FAILED", "UNKNOWN"}
  /\ resources[j].fleet \/ resources[j].stack => reported'[j] \in {"CANCELED", "FAILED"}
  /\ "delete" \notin happened' => TornDown(j)

Collected(j) ==
  /\ j \in Recorded /\ submits'[j] = submits[j] /\ reported'[j] = "collected"
  /\ \/ reported[j] \in Terminal /\ resources'[j] = NoRecord
     \/ \E t \in Threads : frame[t].pc = "sweep"

Heard(j) ==
  /\ j \in Recorded /\ submits'[j] = submits[j]
  /\ reported[j] \in Terminal => "late_answer" \in happened'
  /\ \E t \in Threads : /\ frame[t].pc = "ask" /\ frame[t].answers[j] # Absent
                        /\ reported'[j] = Meaning(frame[t].answers[j])

Ended(j) ==
  \E t \in Threads :
    /\ frame[t].job = j /\ submits[j] = "called"
    /\ \/ /\ frame[t].pc = "save" /\ submits'[j] = "accepted" /\ reported'[j] = "PENDING"
          /\ mode_store'.resources = resources /\ resources' = resources
       \/ /\ frame[t].pc = "undo" /\ submits'[j] = "raised" /\ reported'[j] = reported[j]
          /\ resources'[j] = NoRecord

ReportEffects(j) ==
  \/ reported'[j] = reported[j] /\ submits'[j] = submits[j]
  \/ reported'[j] = reported[j] /\ Begun(j)
  \/ Ended(j) \/ Heard(j) \/ Cancelled(j) \/ Collected(j)

\* A thread that comes to submit begins, one that shuts down cancels every job, and
\* one that is about to save has created what it was to create.
Begins(t) ==
  /\ Others(t) /\ frame'[t].job \in Jobs /\ Begun(frame'[t].job)
  /\ initialized
  /\ (\E u \in Threads : frame[u].shutdown) => "late_submit" \in happened'

ShutsDown(t) ==
  /\ frame'[t].pc = "cleanup"
  /\ InMiddleOfSubmit => "late_submit" \in happened'
  /\ \A j \in Recorded : Cancelled(j)

Built(j) ==
  \/ resources'[j].stack /\ kind[j] \in Stacks /\ stack'[kind[j]] = [state |-> "creating", job |-> j]
  \/ resources'[j].fleet /\ kind[j] = "fleet" /\ fleet'[j] = "active" /\ work'[j] = "running"

\* What a thread may hear of a job.
MayHear(j, a) ==
  \/ a \in {"UNKNOWN", "ERROR"}
  \/ a = resources[j].status
  \/ resources[j].fleet /\ a = FleetAnswer(j)
  \/ resources[j].stack /\ a \in StackAnswers(j)
  \/ a \in FailureAnswers(j) /\ "describe" \in happened'

FrameEffects(t) ==
  /\ frame'[t].pc \in Submitting =>
       Begins(t) \/ (frame[t].pc \in Submitting /\ frame'[t].job = frame[t].job)
  /\ frame'[t].shutdown => frame[t].shutdown \/ ShutsDown(t)
  /\ frame[t].shutdown /\ frame'[t].shutdown =>
       \/ frame'[t].pc = frame[t].pc
       \/ /\ frame[t].pc = "cleanup" /\ frame'[t].pc = "clear"
          /\ \A j \in Recorded : reported[j] \in Terminal => reported'[j] = "collected"
       \/ /\ frame[t].pc = "clear" /\ frame'[t].pc = "sweep"
          /\ \A j \in Jobs : ~Tracked(j)'
  /\ frame'[t].pc = "save" => frame'[t] = frame[t] \/ Built(frame'[t].job)
  /\ \A j \in Jobs : \/ frame'[t].answers[j] = frame[t].answers[j]
                     \/ frame'[t].answers[j] = Absent
                     \/ submits[j] = "accepted" /\ MayHear(j, frame'[t].answers[j])

Effects ==
  /\ kind' = kind /\ happened \subseteq happened' /\ ran \subseteq ran'
  /\ \A k \in Stacks : StackEffects(k)
  /\ \A j \in Jobs : FleetEffects(j) /\ RecordEffects(j) /\ ReportEffects(j)
  /\ \A t \in Threads : FrameEffects(t)
  /\ StoreEffects

\* A step that leaves AWS alone.
WorldRests == UNCHANGED <<kind, stack, fleet, work, ran>>

\* Then nothing changes for any stack or fleet either.
LEMMA WorldAtRest ==
  ASSUME WorldRests
  PROVE  /\ kind' = kind /\ ran \subseteq ran'
         /\ \A k \in Stacks : StackEffects(k)
         /\ \A j \in Jobs : FleetEffects(j)
BY DEF WorldRests, StackEffects, StackMoves, FleetEffects, FleetMoves, WorkMoves

\* A thread that stays where it is, or is done.
LEMMA FrameAtRest ==
  ASSUME NEW t \in Threads, frame'[t] = frame[t] \/ frame'[t] = Idle
  PROVE  FrameEffects(t)
<1>1. CASE frame'[t] = frame[t]
  BY <1>1 DEF FrameEffects
<1>2. CASE frame'[t] = Idle
  BY <1>2, IdleFrame DEF FrameEffects, Submitting
<1>3. QED
  BY <1>1, <1>2

\* A thread that goes on with submit_job() to another label but "save".
LEMMA FrameGoingOn ==
  ASSUME BookInv, NEW t \in Threads, Others(t), frame[t].pc \in Submitting, frame'[t].pc \in Submitting,
         frame'[t].pc # "save" \/ Built(frame[t].job),
         frame'[t].job = frame[t].job, frame'[t].answers = frame[t].answers,
         frame'[t].shutdown = frame[t].shutdown
  PROVE  \A u \in Threads : FrameEffects(u)
<1>1. ~frame[t].shutdown
  BY DEF BookInv, FramesSound, Sound, Submitting
<1>2. FrameEffects(t)
  BY <1>1 DEF FrameEffects
<1>3. QED
  BY <1>2, FrameAtRest DEF Others

\* The deletions of the jobs in J, seen from a stack or a fleet.
LEMMA ReclaimingEffects ==
  ASSUME BookInv, NEW J \in SUBSET Jobs, Reclaiming(J),
         \A j \in J : resources[j].stack \/ resources[j].fleet => LetGo(j)
  PROVE  /\ \A k \in Stacks : StackEffects(k)
         /\ \A j \in Jobs : FleetEffects(j)
         /\ AllReclaimed(J) => \A j \in J : TornDown(j)
<1>1. ASSUME NEW k \in Stacks PROVE StackEffects(k)
  <2>1. CASE stack'[k] = stack[k]
    BY <2>1 DEF StackEffects, StackMoves
  <2>2. CASE /\ stack[k].state \in Standing /\ stack'[k].state = "deleting"
             /\ stack'[k].job = stack[k].job /\ k \in StackNames(J)
    <3>1. PICK j \in J : resources[j].stack /\ kind[j] = k
      BY <2>2 DEF StackNames
    <3>2. QED
      BY <2>2, <3>1 DEF StackEffects
  <2>3. QED
    BY <2>1, <2>2 DEF Reclaiming
<1>2. ASSUME NEW j \in Jobs PROVE FleetEffects(j)
  <2>1. CASE fleet'[j] = fleet[j] /\ work'[j] = work[j]
    BY <2>1 DEF FleetEffects, FleetMoves, WorkMoves
  <2>2. CASE fleet[j] = "active" /\ fleet'[j] = "deleted" /\ work'[j] \notin Live /\ j \in J /\ resources[j].fleet
    BY <2>2 DEF FleetEffects
  <2>3. QED
    BY <2>1, <2>2 DEF Reclaiming
<1>3. ASSUME AllReclaimed(J), NEW j \in J PROVE TornDown(j)
  <2>1. resources[j].stack => kind[j] \in StackNames(J) \cap Stacks
    BY DEF StackNames, BookInv, Kinded, RecordKinds
  <2>2. QED
    BY <1>3, <2>1 DEF AllReclaimed, TornDown
<1>4. QED
  BY <1>1, <1>2, <1>3

\* The books and the records of a step that touches neither.
LEMMA BooksAtRest ==
  ASSUME UNCHANGED <<resources, mode_store, reported, submits>>
  PROVE  StoreEffects /\ \A j \in Jobs : RecordEffects(j) /\ ReportEffects(j)
BY DEF StoreEffects, RecordEffects, ReportEffects

\* The steps of submit_job(), seen from everything.
LEMMA SubmitEffects ==
  ASSUME BookInv, BookInv', NEW t \in Threads, (\E j \in Jobs : Submit(t, j)) \/ SubmitStep(t)
  PROVE  Effects
<1> USE DEF SubmitStep
<1>1. TypeOK /\ Placed /\ Kinded /\ Sound(frame[t])
  BY DEF BookInv, FramesSound
<1>2. ASSUME NEW j \in Jobs, Submit(t, j) PROVE Effects
  <2>1. /\ Others(t) /\ frame[t] = Idle /\ initialized
        /\ submits[j] = "none" /\ submits'[j] = "called"
        /\ \A i \in Jobs : i # j => submits'[i] = submits[i]
        /\ frame'[t].job = j /\ ~frame'[t].shutdown
        /\ \A i \in Jobs : frame'[t].answers[i] = Absent
        /\ kind' = kind /\ mode_store' = mode_store /\ reported' = reported /\ happened \subseteq happened'
        /\ WorldRests
    BY <1>1, <1>2, SubmitDoes DEF config, awsVars, workVars, WorldRests
  <2>2. /\ SameNames(resources'[j], resources[j]) /\ resources'[j].status = "PENDING"
        /\ \A i \in Jobs : i # j => resources'[i] = resources[i]
        /\ (\E u \in Threads : frame[u].shutdown) => "late_submit" \in happened'
    BY <1>1, <1>2, SubmitDoes
  <2>3. frame'[t].pc # "save"
    <3>1. kind[j] \in Kinds
      BY <1>1, TypeParts DEF ConfigOK
    <3>2. /\ kind[j] = "ecs" => frame'[t].pc = "stack"
          /\ kind[j] = "fleet" => frame'[t].pc = "template"
          /\ kind[j] = "lambda" => frame'[t].pc \in {"stage", "bucket"}
      BY <1>1, <1>2, SubmitDoes
    <3>3. QED
      BY <3>1, <3>2 DEF Kinds
  <2>4. Begun(j)
    BY <2>1, <2>2 DEF Begun
  <2>5. \A i \in Jobs : RecordEffects(i) /\ ReportEffects(i)
    BY <2>1, <2>2, <2>4 DEF RecordEffects, ReportEffects
  <2>6. FrameEffects(t)
    BY <2>1, <2>2, <2>3, <2>4 DEF FrameEffects, Begins
  <2>7. \A u \in Threads : FrameEffects(u)
    BY <2>1, <2>6, FrameAtRest DEF Others
  <2>8. QED
    BY <2>1, <2>5, <2>7, WorldAtRest DEF Effects, StoreEffects
<1>3. CASE EnsureBucket(t)
  <2>1. /\ SubmitKeeps /\ UNCHANGED <<stack, fleet, work, resources>> /\ happened \subseteq happened'
        /\ frame[t].pc = "bucket"
        /\ GoesOn(t, "stage") \/ GoesOn(t, "undo")
    BY <1>1, <1>3, EnsureBucketDoes
  <2>2. WorldRests /\ UNCHANGED <<mode_store, reported, submits>>
    BY <2>1 DEF SubmitKeeps, WorldRests, config
  <2>3. \A u \in Threads : FrameEffects(u)
    BY <2>1, FrameGoingOn DEF GoesOn, Submitting
  <2>4. QED
    BY <2>1, <2>2, <2>3, WorldAtRest, BooksAtRest DEF Effects
<1>4. CASE Stage(t)
  <2>1. /\ SubmitKeeps /\ UNCHANGED <<stack, fleet, work, resources>> /\ happened \subseteq happened'
        /\ frame[t].pc = "stage"
        /\ GoesOn(t, "stack") \/ GoesOn(t, "undo")
    BY <1>1, <1>4, StageDoes
  <2>2. WorldRests /\ UNCHANGED <<mode_store, reported, submits>>
    BY <2>1 DEF SubmitKeeps, WorldRests, config
  <2>3. \A u \in Threads : FrameEffects(u)
    BY <2>1, FrameGoingOn DEF GoesOn, Submitting
  <2>4. QED
    BY <2>1, <2>2, <2>3, WorldAtRest, BooksAtRest DEF Effects
<1>5. CASE CreateLambdaStack(t) \/ CreateEcsStack(t)
  <2>1. PICK j : j = frame[t].job
    OBVIOUS
  <2>2. /\ SubmitKeeps /\ frame[t].pc = "stack" /\ UNCHANGED <<fleet, work>>
        /\ kind[j] \in {"lambda", "ecs"} /\ happened \subseteq happened' /\ j \in Jobs
        /\ \/ /\ Creates(j) /\ Tracked(j)
              /\ resources'[j].stack
              /\ resources'[j].code <=> kind[j] = "lambda"
              /\ resources'[j].fleet = resources[j].fleet
              /\ resources'[j].template = resources[j].template
              /\ resources'[j].status = resources[j].status
              /\ \A i \in Jobs : i # j => resources'[i] = resources[i]
              /\ GoesOn(t, "save")
              /\ Stale(kind[j]) => "stale" \in happened'
           \/ /\ Creates(j) /\ resources' = resources /\ GoesOn(t, "undo")
              /\ ~Tracked(j) \/ "lost" \in happened'
              /\ Stale(kind[j]) => "stale" \in happened'
           \/ UNCHANGED <<stack, resources>> /\ GoesOn(t, "undo")
    BY <1>1, <1>5, <2>1, CreateStackDoes DEF Placed, Submitting
  <2>3. UNCHANGED <<kind, ran, mode_store, reported, submits>>
    BY <2>2 DEF SubmitKeeps, config
  <2>4. \A i \in Jobs : RecordEffects(i) /\ ReportEffects(i)
    BY <1>1, <2>1, <2>2, <2>3 DEF RecordEffects, ReportEffects, Noted, Creates, Kinded, RecordKinds
  <2>5. \A k \in Stacks : StackEffects(k)
    BY <2>1, <2>2 DEF StackEffects, StackMoves, StackCreated, Creates, Stacks
  <2>6. \A i \in Jobs : FleetEffects(i)
    BY <2>2 DEF FleetEffects, FleetMoves, WorkMoves
  <2>7. GoesOn(t, "save") => Built(j)
    BY <2>2 DEF Built, Creates, Stacks, GoesOn
  <2>8. \A u \in Threads : FrameEffects(u)
    BY <2>1, <2>2, <2>7, FrameGoingOn DEF GoesOn, Submitting
  <2>9. QED
    BY <2>2, <2>3, <2>4, <2>5, <2>6, <2>8 DEF Effects, StoreEffects
<1>6. CASE CreateTemplate(t)
  <2>1. /\ SubmitKeeps /\ UNCHANGED <<stack, fleet, work, resources>> /\ happened \subseteq happened'
        /\ frame[t].pc = "template" /\ Others(t)
        /\ frame'[t].pc \in {"fleet", "undo"} /\ frame'[t].job = frame[t].job
        /\ frame'[t].answers = frame[t].answers /\ frame'[t].shutdown = frame[t].shutdown
    BY <1>1, <1>6, CreateTemplateDoes DEF GoesOn
  <2>2. WorldRests /\ UNCHANGED <<mode_store, reported, submits>>
    BY <2>1 DEF SubmitKeeps, WorldRests, config
  <2>3. \A u \in Threads : FrameEffects(u)
    BY <2>1, FrameGoingOn DEF Submitting
  <2>4. QED
    BY <2>1, <2>2, <2>3, WorldAtRest, BooksAtRest DEF Effects
<1>7. CASE CreateFleet(t)
  <2>1. PICK j : j = frame[t].job
    OBVIOUS
  <2>2. /\ SubmitKeeps /\ frame[t].pc = "fleet" /\ stack' = stack
        /\ happened \subseteq happened' /\ j \in Jobs /\ kind[j] = "fleet"
        /\ \/ /\ Launches(j) /\ Notes(j, template)
              /\ \/ work'[j] = "running" /\ GoesOn(t, "save")
                 \/ work'[j] = "none" /\ GoesOn(t, "unfilled")
           \/ /\ Launches(j) /\ GoesOn(t, "undo") /\ work'[j] = "running"
              /\ resources' = resources
              /\ ~Tracked(j) \/ "lost" \in happened'
           \/ UNCHANGED <<fleet, work, resources>> /\ GoesOn(t, "undo")
    BY <1>1, <1>7, <2>1, CreateFleetDoes DEF Placed, Submitting, Sound
  <2>3. UNCHANGED <<kind, ran, mode_store, reported, submits>>
    BY <2>2 DEF SubmitKeeps, config
  <2>4. \A i \in Jobs : RecordEffects(i) /\ ReportEffects(i)
    BY <2>1, <2>2, <2>3 DEF RecordEffects, ReportEffects, Noted, Notes
  <2>5. \A k \in Stacks : StackEffects(k)
    BY <2>2 DEF StackEffects, StackMoves
  <2>6. \A i \in Jobs : FleetEffects(i)
    BY <2>1, <2>2 DEF FleetEffects, FleetMoves, WorkMoves, FleetCreated, Launches, Notes
  <2>7. GoesOn(t, "save") => Built(j)
    BY <2>2 DEF Built, Launches, Notes, GoesOn
  <2>8. \A u \in Threads : FrameEffects(u)
    BY <2>1, <2>2, <2>7, FrameGoingOn DEF GoesOn, Submitting
  <2>9. QED
    BY <2>2, <2>3, <2>4, <2>5, <2>6, <2>8 DEF Effects, StoreEffects
<1>8. CASE Unfilled(t)
  <2>1. /\ SubmitKeeps /\ UNCHANGED <<stack, resources>> /\ happened \subseteq happened'
        /\ frame[t].pc = "unfilled" /\ GoesOn(t, "undo")
        /\ \A j \in Jobs :
              \/ fleet'[j] = fleet[j] /\ work'[j] = work[j]
              \/ /\ j = frame[t].job
                 /\ fleet[j] = "active" /\ fleet'[j] = "deleted"
                 /\ work'[j] \notin Live
    BY <1>1, <1>8, UnfilledDoes
  <2>2. UNCHANGED <<kind, ran, mode_store, reported, submits>>
    BY <2>1 DEF SubmitKeeps, config
  <2>3. \A u \in Threads : FrameEffects(u)
    BY <2>1, FrameGoingOn DEF GoesOn, Submitting
  <2>4. \A k \in Stacks : StackEffects(k)
    BY <2>1 DEF StackEffects, StackMoves
  <2>5. \A i \in Jobs : FleetEffects(i)
    BY <2>1 DEF FleetEffects, FleetMoves, WorkMoves
  <2>6. QED
    BY <2>1, <2>2, <2>3, <2>4, <2>5, BooksAtRest DEF Effects
<1>9. CASE SaveJob(t)
  <2>1. PICK j : j = frame[t].job
    OBVIOUS
  <2>2. /\ frame[t].pc = "save" /\ j \in Jobs /\ Ends(t)
        /\ submits'[j] = "accepted" /\ reported'[j] = "PENDING"
        /\ \A i \in Jobs : i # j => submits'[i] = submits[i] /\ reported'[i] = reported[i]
        /\ mode_store'.resources = resources /\ mode_store'.code_bucket = code_bucket
        /\ mode_store'.owns_bucket = owns_bucket
        /\ happened \subseteq happened' /\ UNCHANGED <<resources, code_bucket, owns_bucket>> /\ WorldRests
    BY <1>1, <1>9, <2>1, SaveJobDoes DEF config, awsVars, workVars, WorldRests
  <2>3. Ended(j)
    BY <1>1, <2>1, <2>2 DEF Ended, Sound, Submitting
  <2>4. \A i \in Jobs : RecordEffects(i) /\ ReportEffects(i)
    BY <2>2, <2>3 DEF RecordEffects, ReportEffects
  <2>5. \A u \in Threads : FrameEffects(u)
    BY <2>2, FrameAtRest DEF Ends, Others
  <2>6. QED
    BY <2>2, <2>4, <2>5, WorldAtRest DEF Effects, StoreEffects
<1>10. CASE Undo(t)
  <2>1. PICK j : j = frame[t].job
    OBVIOUS
  <2>2. /\ frame[t].pc = "undo" /\ j \in Jobs /\ Ends(t)
        /\ Reclaiming({j}) /\ Dropping({j})
        /\ "delete" \notin happened' =>
              /\ AllReclaimed({j})
              /\ resources[j].code => j \notin objects'
        /\ submits'[j] = "raised" /\ reported' = reported
        /\ \A i \in Jobs : i # j => submits'[i] = submits[i]
        /\ happened \subseteq happened' /\ UNCHANGED <<kind, ran>>
    BY <1>1, <1>10, <2>1, UndoDoes DEF config
  <2>3. LetGo(j)
    BY <2>1, <2>2 DEF LetGo
  <2>4. /\ \A k \in Stacks : StackEffects(k)
        /\ \A i \in Jobs : FleetEffects(i)
        /\ AllReclaimed({j}) => TornDown(j)
    BY <2>2, <2>3, ReclaimingEffects
  <2>5. /\ resources'[j] = NoRecord
        /\ \A i \in Jobs : i # j => resources'[i] = resources[i]
    BY <2>2 DEF Dropping
  <2>6. RecordEffects(j)
    <3>1. j \notin Recorded
      BY <1>1, <2>1, <2>2 DEF BookInv, BooksAgree, Recorded, Sound, Submitting
    <3>2. QED
      BY <2>2, <2>3, <2>4, <2>5, <3>1 DEF RecordEffects, Dropped, Dropping, Save
  <2>7. ReportEffects(j)
    BY <1>1, <2>1, <2>2, <2>5 DEF ReportEffects, Ended, Sound, Submitting
  <2>8. \A i \in Jobs : RecordEffects(i) /\ ReportEffects(i)
    BY <2>2, <2>5, <2>6, <2>7 DEF RecordEffects, ReportEffects
  <2>9. \A u \in Threads : FrameEffects(u)
    BY <2>2, FrameAtRest DEF Ends, Others
  <2>10. StoreEffects
    BY <2>2 DEF StoreEffects, Dropping, Save
  <2>11. QED
    BY <2>2, <2>4, <2>8, <2>9, <2>10 DEF Effects
<1>11. QED
  BY <1>2, <1>3, <1>4, <1>5, <1>6, <1>7, <1>8, <1>9, <1>10

\* The steps of get_job_status(), seen from everything.
LEMMA StatusEffects ==
  ASSUME BookInv, BookInv', NEW t \in Threads, StatusBegin(t) \/ StatusStep(t)
  PROVE  Effects
<1> USE DEF StatusStep
<1>1. TypeOK /\ Placed /\ Kinded /\ Sound(frame[t])
  BY DEF BookInv, FramesSound
<1>2. ASSUME AskKeeps
      PROVE  WorldRests /\ UNCHANGED <<mode_store, reported, submits>>
  BY <1>2 DEF AskKeeps, WorldRests, config, awsVars, workVars
<1>3. ASSUME Others(t), ~frame'[t].shutdown, frame'[t].pc \in {"ask", "write"},
             \A j \in Jobs : \/ frame'[t].answers[j] = frame[t].answers[j]
                             \/ frame'[t].answers[j] = Absent
                             \/ submits[j] = "accepted" /\ MayHear(j, frame'[t].answers[j])
      PROVE  \A u \in Threads : FrameEffects(u)
  <2>1. FrameEffects(t)
    BY <1>3 DEF FrameEffects, Submitting
  <2>2. QED
    BY <1>3, <2>1, FrameAtRest DEF Others
<1>4. CASE StatusBegin(t)
  <2>1. /\ AskKeeps /\ resources' = resources /\ happened \subseteq happened'
        /\ Others(t) /\ frame'[t].pc = "ask" /\ ~frame'[t].shutdown
        /\ \A j \in Jobs : frame'[t].answers[j] = Absent
    BY <1>1, <1>4, StatusBeginDoes
  <2>2. QED
    BY <1>2, <1>3, <2>1, WorldAtRest, BooksAtRest DEF Effects
<1>5. CASE AskLocally(t)
  <2>1. AskKeeps /\ resources' = resources /\ happened \subseteq happened' /\ frame[t].pc = "ask"
    BY <1>1, <1>5, AskLocallyDoes
  <2>2. PICK j \in frame[t].todo : /\ j \in Jobs
                                   /\ Hears(t, j, IF Tracked(j) THEN resources[j].status ELSE "UNKNOWN")
    BY <1>1, <1>5, AskLocallyDoes
  <2>3. submits[j] = "accepted" /\ ~frame[t].shutdown
    BY <1>1, <2>1, <2>2 DEF Sound, Asks
  <2>4. MayHear(j, frame'[t].answers[j])
    BY <2>2 DEF MayHear, Hears
  <2>5. \A u \in Threads : FrameEffects(u)
    BY <1>3, <2>2, <2>3, <2>4 DEF Hears
  <2>6. QED
    BY <1>2, <2>1, <2>5, WorldAtRest, BooksAtRest DEF Effects
<1>6. CASE Ask(t)
  <2>1. AskKeeps /\ resources' = resources /\ happened \subseteq happened' /\ frame[t].pc = "ask"
    BY <1>1, <1>6, AskDoes
  <2>2. PICK j \in frame[t].todo, a \in Answer \ {Absent} :
          /\ j \in Jobs
          /\ resources[j].fleet \/ resources[j].stack
          /\ Others(t)
          /\ frame'[t].pc = "write" /\ frame'[t].shutdown = frame[t].shutdown
          /\ frame'[t].answers[j] = a
          /\ \A i \in Jobs : i # j => frame'[t].answers[i] = frame[t].answers[i]
          /\ \/ resources[j].fleet /\ a = FleetAnswer(j)
             \/ ~resources[j].fleet /\ a \in StackAnswers(j)
             \/ a \in FailureAnswers(j) /\ "describe" \in happened'
    BY <1>1, <1>6, AskDoes
  <2>3. submits[j] = "accepted" /\ ~frame[t].shutdown
    BY <1>1, <2>1, <2>2 DEF Sound, Asks
  <2>4. MayHear(j, frame'[t].answers[j])
    BY <2>2 DEF MayHear
  <2>5. \A u \in Threads : FrameEffects(u)
    BY <1>3, <2>2, <2>3, <2>4
  <2>6. QED
    BY <1>2, <2>1, <2>5, WorldAtRest, BooksAtRest DEF Effects
<1>7. CASE Write(t)
  <2>1. PICK j : j = frame[t].job
    OBVIOUS
  <2>2. PICK a : a = frame[t].answers[j]
    OBVIOUS
  <2>3. /\ AskKeeps /\ happened \subseteq happened' /\ frame[t].pc = "write" /\ j \in Jobs /\ j \in frame[t].todo
        /\ \A i \in Jobs : i # j => resources'[i] = resources[i]
        /\ \/ /\ Tracked(j) /\ SameNames(resources'[j], resources[j])
              /\ resources'[j].status = Meaning(a) /\ Meaning(a) \in Status
              /\ Hears(t, j, a)
           \/ resources' = resources /\ Hears(t, j, "ERROR")
           \/ resources' = resources /\ Ends(t)
    BY <1>1, <1>7, <2>1, <2>2, WriteDoes
  <2>4. submits[j] = "accepted" /\ ~frame[t].shutdown
    BY <1>1, <2>3 DEF Sound, Asks
  <2>5. \A i \in Jobs : RecordEffects(i) /\ ReportEffects(i)
    <3>1. RecordEffects(j)
      BY <2>1, <2>2, <2>3 DEF RecordEffects, Restated
    <3>2. QED
      BY <1>2, <2>3, <3>1 DEF RecordEffects, ReportEffects
  <2>6. \A u \in Threads : FrameEffects(u)
    <3>1. CASE Ends(t)
      BY <3>1, FrameAtRest DEF Ends, Others
    <3>2. CASE Hears(t, j, a)
      BY <1>3, <2>2, <2>4, <3>2 DEF Hears
    <3>3. CASE Hears(t, j, "ERROR")
      BY <1>3, <2>4, <3>3 DEF Hears, MayHear
    <3>4. QED
      BY <2>3, <3>1, <3>2, <3>3
  <2>7. QED
    BY <1>2, <2>3, <2>5, <2>6, WorldAtRest DEF Effects, StoreEffects
<1>8. CASE StatusUpdate(t)
  <2>1. /\ frame[t].pc = "ask" /\ Ends(t) /\ happened \subseteq happened'
        /\ resources' = resources /\ WorldRests
        /\ mode_store'.resources = resources /\ mode_store'.code_bucket = code_bucket
        /\ mode_store'.owns_bucket = owns_bucket
        /\ \A j \in Jobs :
              \/ reported'[j] = reported[j]
              \/ /\ j \in Recorded /\ frame[t].answers[j] # Absent
                 /\ reported'[j] = Meaning(frame[t].answers[j])
                 /\ reported[j] \in Terminal => "late_answer" \in happened'
        /\ UNCHANGED <<code_bucket, owns_bucket, submits>>
    BY <1>1, <1>8, StatusUpdateDoes DEF config, awsVars, workVars, WorldRests
  <2>2. \A j \in Jobs : RecordEffects(j) /\ ReportEffects(j)
    BY <2>1 DEF RecordEffects, ReportEffects, Heard
  <2>3. \A u \in Threads : FrameEffects(u)
    BY <2>1, FrameAtRest DEF Ends, Others
  <2>4. QED
    BY <2>1, <2>2, <2>3, WorldAtRest DEF Effects, StoreEffects
<1>9. QED
  BY <1>4, <1>5, <1>6, <1>7, <1>8

\* The deletions of a cancellation, seen from everything but the thread.
LEMMA CancellingEffects ==
  ASSUME BookInv, NEW J \in SUBSET Recorded, Reclaiming(J), Cancelling(J), CancelUnchanged,
         "delete" \notin happened' => AllReclaimed(J)
  PROVE  /\ kind' = kind /\ ran \subseteq ran'
         /\ \A k \in Stacks : StackEffects(k)
         /\ \A j \in Jobs : FleetEffects(j) /\ RecordEffects(j) /\ ReportEffects(j)
         /\ \A j \in J : Cancelled(j)
<1>1. kind' = kind /\ ran' = ran /\ submits' = submits /\ J \in SUBSET Jobs
  BY DEF CancelUnchanged, config, Recorded
<1>2. \A j \in J : resources[j].stack \/ resources[j].fleet => reported'[j] \in {"CANCELED", "FAILED"}
  BY <1>1 DEF Cancelling, BookInv, Kinded, RecordKinds, Tracked
<1>3. \A j \in J : resources[j].stack \/ resources[j].fleet => LetGo(j)
  BY <1>2 DEF LetGo, Terminal
<1>4. /\ \A k \in Stacks : StackEffects(k)
      /\ \A j \in Jobs : FleetEffects(j)
      /\ AllReclaimed(J) => \A j \in J : TornDown(j)
  BY <1>1, <1>3, ReclaimingEffects
<1>5. \A j \in J : Cancelled(j)
  BY <1>1, <1>2, <1>4 DEF Cancelled, Cancelling
<1>6. \A j \in Jobs : ReportEffects(j)
  BY <1>1, <1>5 DEF ReportEffects, Cancelling
<1>7. \A j \in Jobs : RecordEffects(j)
  BY DEF RecordEffects, Cancelling, Restated, Status
<1>8. QED
  BY <1>1, <1>4, <1>5, <1>6, <1>7

\* The steps of cancel() and shutdown(), seen from everything.
LEMMA CancelEffects ==
  ASSUME BookInv, BookInv', NEW t \in Threads,
         (\E j \in Jobs : Cancel(t, j)) \/ Cleanup(t) \/ Shutdown(t) \/ Clear(t) \/ Sweep(t)
  PROVE  Effects
<1>1. TypeOK /\ Placed /\ Kinded /\ Sound(frame[t])
  BY DEF BookInv, FramesSound
<1>2. ASSUME NEW j \in Jobs, Cancel(t, j) PROVE Effects
  <2>1. /\ CancelUnchanged /\ j \in Recorded /\ Others(t) /\ frame'[t] = At("cleanup")
        /\ Reclaiming({j}) /\ Cancelling({j})
        /\ mode_store'.resources = resources' /\ mode_store'.code_bucket = code_bucket
        /\ mode_store'.owns_bucket = owns_bucket
        /\ "delete" \notin happened' => AllReclaimed({j})
        /\ happened \subseteq happened'
    BY <1>1, <1>2, CancelDoes
  <2>2. {j} \in SUBSET Recorded
    BY <2>1
  <2>3. /\ kind' = kind /\ ran \subseteq ran'
        /\ \A k \in Stacks : StackEffects(k)
        /\ \A i \in Jobs : FleetEffects(i) /\ RecordEffects(i) /\ ReportEffects(i)
    BY <2>1, <2>2, CancellingEffects
  <2>4. StoreEffects
    BY <2>1 DEF StoreEffects, CancelUnchanged
  <2>5. /\ frame'[t].pc = "cleanup" /\ ~frame'[t].shutdown
        /\ \A i \in Jobs : frame'[t].answers[i] = Absent
    <3>1. PICK l \in Labels : l = "cleanup"
      BY DEF Labels
    <3>2. PICK a : a = At(l)
      OBVIOUS
    <3>3. a.pc = l /\ a.shutdown = FALSE /\ \A i \in Jobs : a.answers[i] = Absent
      BY <3>2, AtLabel
    <3>4. QED
      BY <2>1, <3>1, <3>2, <3>3
  <2>6. FrameEffects(t)
    BY <2>5 DEF FrameEffects, Submitting
  <2>7. \A u \in Threads : FrameEffects(u)
    BY <2>1, <2>6, FrameAtRest DEF Others
  <2>8. QED
    BY <2>1, <2>3, <2>4, <2>7 DEF Effects
<1>3. CASE Shutdown(t)
  <2>1. /\ CancelUnchanged /\ frame[t] = Idle /\ Others(t)
        /\ frame'[t].pc = "cleanup" /\ frame'[t].shutdown
        /\ \A i \in Jobs : frame'[t].answers[i] = Absent
        /\ Reclaiming(Recorded) /\ Cancelling(Recorded)
        /\ mode_store'.resources = resources' /\ mode_store'.code_bucket = code_bucket
        /\ mode_store'.owns_bucket = owns_bucket
        /\ "delete" \notin happened' => AllReclaimed(Recorded)
        /\ InMiddleOfSubmit => "late_submit" \in happened'
        /\ happened \subseteq happened'
    BY <1>1, <1>3, ShutdownDoes
  <2>2. /\ kind' = kind /\ ran \subseteq ran'
        /\ \A k \in Stacks : StackEffects(k)
        /\ \A i \in Jobs : FleetEffects(i) /\ RecordEffects(i) /\ ReportEffects(i)
        /\ \A i \in Recorded : Cancelled(i)
    BY <2>1, CancellingEffects
  <2>3. StoreEffects
    BY <2>1 DEF StoreEffects, CancelUnchanged
  <2>4. FrameEffects(t)
    BY <2>1, <2>2, IdleFrame DEF FrameEffects, Submitting, ShutsDown
  <2>5. \A u \in Threads : FrameEffects(u)
    BY <2>1, <2>4, FrameAtRest DEF Others
  <2>6. QED
    BY <2>1, <2>2, <2>3, <2>5 DEF Effects
<1>4. CASE Cleanup(t)
  <2>1. PICK ended : ended = {j \in Recorded : reported[j] \in Terminal}
    OBVIOUS
  <2>2. /\ CancelUnchanged /\ frame[t].pc = "cleanup" /\ Others(t)
        /\ frame'[t].pc = IF frame[t].shutdown THEN "clear" ELSE "idle"
        /\ frame'[t].shutdown = frame[t].shutdown
        /\ \A i \in Jobs : frame'[t].answers[i] = Absent
        /\ Reclaiming(ended) /\ Dropping(ended)
        /\ "delete" \notin happened' =>
              AllReclaimed(ended) /\ \A j \in ended : resources[j].code => j \notin objects'
        /\ \A j \in Jobs : reported'[j] = IF j \in ended THEN "collected" ELSE reported[j]
        /\ happened \subseteq happened'
    BY <1>1, <1>4, <2>1, CleanupDoes
  <2>3. kind' = kind /\ ran' = ran /\ submits' = submits
    BY <2>2 DEF CancelUnchanged, config
  <2>4. ended \in SUBSET Jobs /\ ended \subseteq Recorded
    BY <2>1 DEF Recorded
  <2>5. \A j \in ended : LetGo(j)
    BY <2>2, <2>4 DEF LetGo
  <2>6. /\ \A k \in Stacks : StackEffects(k)
        /\ \A i \in Jobs : FleetEffects(i)
        /\ AllReclaimed(ended) => \A j \in ended : TornDown(j)
    BY <2>2, <2>4, <2>5, ReclaimingEffects
  <2>7. ASSUME NEW j \in Jobs PROVE RecordEffects(j) /\ ReportEffects(j)
    <3>1. CASE j \notin ended
      BY <2>2, <2>3, <3>1 DEF RecordEffects, ReportEffects, Dropping
    <3>2. CASE j \in ended
      <4>1. ReportEffects(j)
        BY <2>1, <2>2, <2>3, <3>2 DEF ReportEffects, Collected, Dropping
      <4>2. resources'[j] = NoRecord
        BY <2>2, <3>2 DEF Dropping
      <4>3. RecordEffects(j)
        BY <2>2, <2>5, <2>6, <3>2, <4>2 DEF RecordEffects, Dropped, Dropping, Save
      <4>4. QED
        BY <4>1, <4>3
    <3>3. QED
      BY <3>1, <3>2
  <2>8. StoreEffects
    BY <2>2 DEF StoreEffects, Dropping, Save
  <2>9. FrameEffects(t)
    <3>1. frame[t].shutdown \in BOOLEAN
      BY <1>1, TypeParts DEF FramesOK, Frame
    <3>2. \A j \in Recorded : reported[j] \in Terminal => reported'[j] = "collected"
      BY <2>1, <2>2 DEF Recorded
    <3>3. QED
      BY <2>2, <3>1, <3>2 DEF FrameEffects, Submitting
  <2>10. \A u \in Threads : FrameEffects(u)
    BY <2>2, <2>9, FrameAtRest DEF Others
  <2>11. QED
    BY <2>2, <2>3, <2>6, <2>7, <2>8, <2>10 DEF Effects
<1>5. CASE Clear(t)
  <2>1. /\ CancelUnchanged /\ frame[t].pc = "clear" /\ GoesOn(t, "sweep")
        /\ Reclaiming(TrackedJobs) /\ Dropping(TrackedJobs)
        /\ "delete" \notin happened' =>
              AllReclaimed(TrackedJobs) /\ \A j \in TrackedJobs : resources[j].code => j \notin objects'
        /\ reported' = reported
        /\ InMiddleOfSubmit => "late_submit" \in happened'
        /\ happened \subseteq happened'
    BY <1>1, <1>5, ClearDoes
  <2>2. kind' = kind /\ ran' = ran /\ submits' = submits
    BY <2>1 DEF CancelUnchanged, config
  <2>3. \A j \in Jobs : LetGo(j)
    BY <2>1 DEF LetGo
  <2>4. /\ \A k \in Stacks : StackEffects(k)
        /\ \A i \in Jobs : FleetEffects(i)
        /\ AllReclaimed(TrackedJobs) => \A j \in TrackedJobs : TornDown(j)
    BY <2>1, <2>3, ReclaimingEffects DEF TrackedJobs
  <2>5. ASSUME NEW j \in Jobs PROVE RecordEffects(j) /\ ReportEffects(j)
    <3>1. ReportEffects(j)
      BY <2>1, <2>2 DEF ReportEffects
    <3>2. CASE j \notin TrackedJobs
      BY <2>1, <3>1, <3>2 DEF RecordEffects, Dropping
    <3>3. CASE j \in TrackedJobs
      BY <2>1, <2>3, <2>4, <3>1, <3>3 DEF RecordEffects, Dropped, Dropping, Save
    <3>4. QED
      BY <3>2, <3>3
  <2>6. StoreEffects
    BY <2>1 DEF StoreEffects, Dropping, Save
  <2>7. FrameEffects(t)
    <3>1. \A j \in Jobs : ~Tracked(j)'
      BY <2>1, NoRecords DEF Dropping, Tracked, TrackedJobs
    <3>2. QED
      BY <2>1, <3>1 DEF FrameEffects, Submitting, GoesOn
  <2>8. \A u \in Threads : FrameEffects(u)
    BY <2>1, <2>7, FrameAtRest DEF GoesOn, Others
  <2>9. QED
    BY <2>1, <2>2, <2>4, <2>5, <2>6, <2>8 DEF Effects
<1>6. CASE Sweep(t)
  <2>1. /\ frame[t].pc = "sweep" /\ Ends(t)
        /\ \A j \in Jobs :
              \/ fleet'[j] = fleet[j] /\ work'[j] = work[j]
              \/ fleet[j] = "active" /\ fleet'[j] = "deleted" /\ work'[j] \notin Live
        /\ \A j \in Jobs : reported'[j] = IF j \in Recorded THEN "collected" ELSE reported[j]
        /\ mode_store'.resources = resources /\ mode_store'.code_bucket = code_bucket'
        /\ mode_store'.owns_bucket = owns_bucket'
        /\ happened \subseteq happened'
        /\ UNCHANGED <<kind, stack, ran, resources, submits>>
    BY <1>1, <1>6, SweepDoes DEF config
  <2>2. \A i \in Jobs : FleetEffects(i)
    BY <2>1 DEF FleetEffects, FleetMoves, WorkMoves
  <2>3. \A k \in Stacks : StackEffects(k)
    BY <2>1 DEF StackEffects, StackMoves
  <2>4. \A j \in Jobs : RecordEffects(j) /\ ReportEffects(j)
    BY <2>1 DEF RecordEffects, ReportEffects, Collected
  <2>5. \A u \in Threads : FrameEffects(u)
    BY <2>1, FrameAtRest DEF Ends, Others
  <2>6. QED
    BY <2>1, <2>2, <2>3, <2>4, <2>5 DEF Effects, StoreEffects
<1>7. QED
  BY <1>2, <1>3, <1>4, <1>5, <1>6

\* A step is the restart, or has those effects.
LEMMA StepEffects ==
  ASSUME BookInv, [Next]_vars
  PROVE  BookInv' /\ (Effects \/ Restart)
<1>1. TypeOK /\ BookInv'
  BY BookStep DEF BookInv
<1>2. ASSUME NEW t \in Threads, ThreadStep(t) PROVE Effects
  BY <1>1, <1>2, SubmitEffects, StatusEffects, CancelEffects DEF ThreadStep
<1>3. CASE Environment
  <2>1. WorldMoves
    BY <1>1, <1>3, WorldSteps
  <2>2. UNCHANGED <<kind, frame, submits, reported, mode_store>>
    BY <2>1 DEF WorldMoves, WorldKeeps, config, callVars
  <2>3. \A j \in Jobs : RecordEffects(j) /\ ReportEffects(j) /\ FleetEffects(j)
    BY <2>1, <2>2 DEF WorldMoves, RecordEffects, ReportEffects, FleetEffects, Restated, Status
  <2>4. \A k \in Stacks : StackEffects(k)
    BY <2>1 DEF WorldMoves, StackEffects
  <2>5. \A t \in Threads : FrameEffects(t)
    BY <2>2, FrameAtRest
  <2>6. happened \subseteq happened' /\ ran \subseteq ran' /\ kind' = kind /\ StoreEffects
    BY <2>1, <2>2 DEF WorldMoves, StoreEffects
  <2>7. QED
    BY <1>1, <2>3, <2>4, <2>5, <2>6 DEF Effects
<1>4. CASE UNCHANGED vars
  <2>1. UNCHANGED <<kind, bucket_given, resources, code_bucket, owns_bucket, initialized, registered,
                    mode_store, stack, fleet, template, bucket, objects, work, ran, timed_out,
                    reported, submits, frame, happened, events>>
    BY <1>4 DEF vars, config, modeVars, awsVars, workVars, callVars, eventVars
  <2>2. WorldRests
    BY <2>1 DEF WorldRests
  <2>3. \A t \in Threads : FrameEffects(t)
    BY <2>1, FrameAtRest
  <2>4. happened \subseteq happened' /\ UNCHANGED <<resources, mode_store, reported, submits>>
    BY <2>1
  <2>5. QED
    BY <1>1, <2>2, <2>3, <2>4, WorldAtRest, BooksAtRest DEF Effects
<1>5. QED
  BY <1>1, <1>2, <1>3, <1>4 DEF Next

-----------------------------------------------------------------------------
(* Whose the stacks and the fleets are.                                    *)

\* A stack is that of a job of its kind, only fleet jobs have a fleet, and only a
\* reclaim warns.
Sited ==
  /\ \A k \in Stacks : stack[k].state # "none" => stack[k].job \in Jobs /\ kind[stack[k].job] = k
  /\ \A j \in Jobs : fleet[j] # "none" => kind[j] = "fleet"
  /\ \A j \in Jobs : work[j] = "warned" => "reclaim" \in happened

\* The document names no stack and no fleet that the records do not name.
Covered ==
  \A j \in Jobs : LET saved == mode_store.resources[j] IN
    /\ saved.stack => resources[j].stack
    /\ saved.fleet => resources[j].fleet

\* No record of a job that was not submitted yet, or is being submitted, is cancelled.
Uncancelled ==
  \A j \in Jobs :
    submits[j] \in {"none", "called"} =>
      resources[j].status # "CANCELED" /\ mode_store.resources[j].status # "CANCELED"

\* Unless a submission and a shutdown overtake each other, nobody submits while
\* somebody shuts down.
Ordered ==
  "late_submit" \notin happened =>
    \A t, u \in Threads : frame[t].shutdown => frame[u].pc \notin Submitting

\* A record with the name of a stack that exists is that of the stack's job, unless
\* the stack was created while an older job's record still had the name.
OneHolder ==
  "stale" \notin happened =>
    \A j \in Jobs :
      resources[j].stack /\ stack[kind[j]].state # "none" => stack[kind[j]].job = j

NameInv == BookInv /\ Sited /\ Covered /\ Uncancelled /\ Ordered /\ OneHolder

\* A submission begins once and ends once.
LEMMA SubmissionEnds ==
  ASSUME Effects, NEW j \in Jobs
  PROVE  /\ submits'[j] = "none" => submits[j] = "none"
         /\ submits'[j] = "called" => submits[j] \in {"none", "called"}
         /\ submits[j] = "accepted" => submits'[j] = "accepted"
BY DEF Effects, ReportEffects, Begun, Ended, Heard, Cancelled, Collected

\* What no step but a restart may do to the names.
LEMMA NamesKept ==
  ASSUME NameInv, Effects, BookInv'
  PROVE  NameInv'
<1>1. TypeOK /\ Placed /\ BooksAgree /\ FramesSound
  BY DEF NameInv, BookInv
<1>2. Sited'
  <2>1. ASSUME NEW k \in Stacks, stack'[k].state # "none"
        PROVE  stack'[k].job \in Jobs /\ kind'[stack'[k].job] = k
    <3>1. StackEffects(k)
      BY DEF Effects
    <3>2. CASE StackMoves(k)
      BY <2>1, <3>2 DEF StackMoves, NoStack, NameInv, Sited, Effects
    <3>3. ASSUME NEW t \in Threads, StackCreated(t, k) PROVE stack'[k].job \in Jobs /\ kind'[stack'[k].job] = k
      BY <1>1, <3>3 DEF StackCreated, Placed, Submitting, Effects
    <3>4. CASE stack[k].state \in Standing /\ stack'[k].job = stack[k].job
      BY <3>4 DEF NameInv, Sited, Effects, Standing
    <3>5. QED
      BY <3>1, <3>2, <3>3, <3>4 DEF StackEffects
  <2>2. ASSUME NEW j \in Jobs PROVE /\ fleet'[j] # "none" => kind'[j] = "fleet"
                                    /\ work'[j] = "warned" => "reclaim" \in happened'
    <3>1. FleetEffects(j)
      BY DEF Effects
    <3>2. CASE FleetMoves(j) /\ WorkMoves(j)
      BY <3>2 DEF FleetMoves, WorkMoves, NameInv, Sited, Effects
    <3>3. ASSUME NEW t \in Threads, FleetCreated(t, j)
          PROVE  kind[j] = "fleet" /\ work'[j] # "warned"
      BY <1>1, <3>3 DEF FleetCreated, FramesSound, Sound
    <3>4. CASE fleet[j] = "active" /\ work'[j] \notin Live
      BY <3>4 DEF NameInv, Sited, Effects, Live
    <3>5. QED
      BY <3>1, <3>2, <3>3, <3>4 DEF FleetEffects, Effects
  <2>3. QED
    BY <2>1, <2>2 DEF Sited
<1>3. Covered'
  <2> SUFFICES ASSUME NEW j \in Jobs
               PROVE  /\ mode_store'.resources[j].stack => resources'[j].stack
                      /\ mode_store'.resources[j].fleet => resources'[j].fleet
    BY DEF Covered
  <2>1. CASE mode_store'.resources = resources'
    BY <2>1
  <2>2. CASE mode_store' = mode_store
    <3>1. RecordEffects(j)
      BY DEF Effects
    <3>2. QED
      BY <2>2, <3>1 DEF RecordEffects, Begun, Noted, Restated, Dropped, SameNames, NameInv, Covered
  <2>3. QED
    BY <2>1, <2>2 DEF Effects, StoreEffects
<1>4. Uncancelled'
  <2> SUFFICES ASSUME NEW j \in Jobs, submits'[j] \in {"none", "called"}
               PROVE  resources'[j].status # "CANCELED" /\ mode_store'.resources[j].status # "CANCELED"
    BY DEF Uncancelled
  <2>1. submits[j] \in {"none", "called"}
    BY SubmissionEnds
  <2>2. resources'[j].status # "CANCELED"
    <3>1. RecordEffects(j)
      BY DEF Effects
    <3>2. CASE Restated(j)
      <4>1. \A t \in Threads : frame[t].pc = "write" => frame[t].job # j
        BY <1>1, <2>1 DEF Placed, FramesSound, Sound, Asks
      <4>2. j \notin Recorded
        BY <1>1, <2>1 DEF Recorded, BooksAgree
      <4>3. QED
        BY <3>2, <4>1, <4>2 DEF Restated
    <3>3. CASE Begun(j) \/ Noted(j) \/ Dropped(j) \/ resources'[j] = resources[j]
      BY <2>1, <3>3, NoRecords DEF Begun, Noted, Dropped, Absent, NameInv, Uncancelled
    <3>4. QED
      BY <3>1, <3>2, <3>3 DEF RecordEffects
  <2>3. QED
    BY <2>1, <2>2 DEF Effects, StoreEffects, NameInv, Uncancelled
<1>5. Ordered'
  <2> SUFFICES ASSUME "late_submit" \notin happened', NEW t \in Threads, NEW u \in Threads,
                      frame'[t].shutdown, frame'[u].pc \in Submitting
               PROVE  FALSE
    BY DEF Ordered
  <2>1. "late_submit" \notin happened /\ FrameEffects(t) /\ FrameEffects(u)
    BY DEF Effects
  <2>2. t # u
    BY DEF BookInv, FramesSound, Sound, Submitting
  <2>3. InMiddleOfSubmit <=> \E v \in Threads : frame[v].pc \in Submitting
    BY <1>1, MiddleOfSubmit
  <2>4. CASE Begins(u)
    <3>1. frame'[t] = frame[t]
      BY <2>2, <2>4 DEF Begins, Others
    <3>2. QED
      BY <2>4, <3>1 DEF Begins
  <2>5. CASE frame[u].pc \in Submitting
    BY <2>1, <2>3, <2>5 DEF FrameEffects, ShutsDown, NameInv, Ordered
  <2>6. QED
    BY <2>1, <2>4, <2>5 DEF FrameEffects
<1>6. OneHolder'
  <2> SUFFICES ASSUME "stale" \notin happened', NEW j \in Jobs,
                      resources'[j].stack, stack'[kind'[j]].state # "none"
               PROVE  stack'[kind'[j]].job = j
    BY DEF OneHolder
  <2>1. "stale" \notin happened /\ kind' = kind
    BY DEF Effects
  <2>2. PICK k \in Stacks : k = kind[j]
    BY <2>1 DEF BookInv, Kinded, RecordKinds
  <2>3. StackEffects(k) /\ RecordEffects(j)
    BY DEF Effects
  <2>4. resources[j].stack \/ stack'[k].job = j
    <3>1. CASE Noted(j)
      <4>1. resources[j].stack \/ stack'[k] = [state |-> "creating", job |-> j]
        BY <2>2, <3>1 DEF Noted
      <4>2. QED
        BY <4>1
    <3>2. CASE Begun(j) \/ Restated(j) \/ resources'[j] = resources[j]
      BY <3>2 DEF Begun, Restated, SameNames
    <3>3. CASE Dropped(j)
      BY <3>3, NoRecords DEF Dropped
    <3>4. QED
      BY <2>3, <3>1, <3>2, <3>3 DEF RecordEffects
  <2>5. ASSUME resources[j].stack PROVE stack'[k].job = j
    <3>1. stack[k].state # "none" => stack[k].job = j
      BY <2>1, <2>2, <2>5 DEF NameInv, OneHolder
    <3>2. \A t \in Threads : ~StackCreated(t, k)
      BY <2>2, <2>5 DEF StackCreated, Stale, StackNames
    <3>3. QED
      BY <2>1, <2>2, <2>3, <3>1, <3>2 DEF StackEffects, StackMoves, NoStack, Standing
  <2>6. QED
    BY <2>1, <2>2, <2>4, <2>5
<1>7. QED
  BY <1>2, <1>3, <1>4, <1>5, <1>6 DEF NameInv

\* A restart takes the names from the document, and leaves AWS alone.
LEMMA RestartNames ==
  ASSUME NameInv, Restart, BookInv'
  PROVE  NameInv'
<1>1. TypeOK /\ BooksAgree
  BY DEF NameInv, BookInv
<1>2. /\ resources' = mode_store.resources /\ mode_store' = mode_store
      /\ \A t \in Threads : frame'[t] = Idle
      /\ \A j \in Jobs : submits'[j] = IF submits[j] = "called" THEN "raised" ELSE submits[j]
      /\ happened \subseteq happened' /\ UNCHANGED <<kind, stack, fleet, work>>
  BY <1>1, RestartDoes DEF config, awsVars, workVars
<1>3. Sited' /\ Covered'
  BY <1>2 DEF NameInv, Sited, Covered
<1>4. Uncancelled' /\ Ordered'
  BY <1>2, IdleFrame DEF NameInv, Uncancelled, Ordered, Submitting
<1>5. OneHolder'
  BY <1>2 DEF NameInv, Covered, OneHolder
<1>6. QED
  BY <1>3, <1>4, <1>5 DEF NameInv

\* Every step keeps the invariant.
LEMMA NameStep ==
  ASSUME NameInv, [Next]_vars
  PROVE  NameInv'
BY StepEffects, NamesKept, RestartNames DEF NameInv

\* It holds at the start, where nothing exists.
LEMMA NamesInitially ==
  ASSUME Init
  PROVE  NameInv
<1>1. BookInv
  BY BooksInitially
<1>2. Sited
  BY DEF Init, Sited, NoStack
<1>3. Covered /\ Uncancelled /\ OneHolder
  BY NoRecords DEF Init, Constructed, Covered, Uncancelled, OneHolder, Absent
<1>4. Ordered
  BY IdleFrame DEF Init, Ordered, Submitting
<1>5. QED
  BY <1>1, <1>2, <1>3, <1>4 DEF NameInv

\* What happened is not forgotten.
LEMMA HappenedGrows ==
  ASSUME NameInv, [Next]_vars
  PROVE  happened \subseteq happened'
BY StepEffects, RestartDoes DEF NameInv, BookInv, Effects

\* A stack on its way out was named by a record of a job that ended, or of one
\* whose submission failed, unless the mode is being shut down.
LEMMA DeletedByName ==
  ASSUME NameInv, [Next]_vars, NEW k \in Stacks,
         stack[k].state \in Standing, stack'[k].state = "deleting"
  PROVE  \E j \in Jobs : resources[j].stack /\ kind[j] = k /\ LetGo(j)
<1>1. TypeOK
  BY DEF NameInv, BookInv
<1>2. stack[k].state # "deleting"
  BY DEF Standing
<1>3. CASE Effects
  <2>1. StackEffects(k)
    BY <1>3 DEF Effects
  <2>2. ~StackMoves(k)
    BY <1>2 DEF StackMoves, NoStack
  <2>3. \A t \in Threads : ~StackCreated(t, k)
    BY DEF StackCreated
  <2>4. QED
    BY <2>1, <2>2, <2>3 DEF StackEffects
<1>4. CASE Restart
  BY <1>1, <1>2, <1>4, RestartDoes DEF awsVars
<1>5. QED
  BY <1>3, <1>4, StepEffects DEF NameInv

\* No job takes down the stack of another: a standing stack is deleted only when
\* its own job ended or its submission failed, or in a shutdown -- although all jobs
\* of the provider share the name it is deleted by -- unless a record of an older
\* job still has the name.
THEOREM DeletesOwnStack == Spec => NoCollateralDelete
<1>1. NameInv /\ [Next]_vars =>
        [\A k \in Stacks :
           LET j == stack[k].job IN
           stack[k].state \in Standing /\ stack'[k].state = "deleting"
             => \/ reported'[j] \in Terminal \cup {"collected"}
                \/ submits'[j] = "raised"
                \/ \E t \in Threads : frame[t].pc \in {"clear", "sweep"}
                \/ "stale" \in happened']_vars
  <2> SUFFICES ASSUME NameInv, [Next]_vars, NEW k \in Stacks,
                      stack[k].state \in Standing, stack'[k].state = "deleting",
                      "stale" \notin happened'
               PROVE  \/ reported'[stack[k].job] \in Terminal \cup {"collected"}
                      \/ submits'[stack[k].job] = "raised"
                      \/ \E t \in Threads : frame[t].pc \in {"clear", "sweep"}
    OBVIOUS
  <2>1. PICK j \in Jobs : resources[j].stack /\ kind[j] = k /\ LetGo(j)
    BY DeletedByName
  <2>2. stack[k].job = j
    <3>1. "stale" \notin happened
      BY HappenedGrows
    <3>2. QED
      BY <2>1, <3>1 DEF NameInv, OneHolder, Standing
  <2>3. QED
    BY <2>1, <2>2 DEF LetGo
<1>2. Init => NameInv
  BY NamesInitially
<1>3. NameInv /\ [Next]_vars => NameInv'
  BY NameStep
<1>4. QED
  BY <1>1, <1>2, <1>3, PTL DEF Spec, NoCollateralDelete

-----------------------------------------------------------------------------
(* A job that was released runs nothing.                                   *)

\* Nothing that may leave something running has happened.
Undisturbed == happened \cap {"delete", "delete_failed", "lost", "late_submit", "unsaved"} = {}

\* What stands is named by the record of its job, and a job whose submission is
\* under way has a record.
Held ==
  /\ \A k \in Stacks : stack[k].state \in Standing => resources[stack[k].job].stack
  /\ \A j \in Jobs : fleet[j] = "active" /\ work[j] \in Live => resources[j].fleet
  /\ \A t \in Threads : frame[t].pc \in Submitting => Tracked(frame[t].job)

\* Nothing runs for the job.
Stopped(j) ==
  /\ \A k \in Stacks : stack[k].job = j => stack[k].state \notin Standing
  /\ ~(fleet[j] = "active" /\ work[j] \in Live)

\* The provider or the mode have released the job, some thread knows that it was,
\* or it is about to be forgotten in a shutdown.
Released(j) ==
  \/ reported[j] \in {"CANCELED", "collected"}
  \/ submits[j] = "raised"
  \/ resources[j].status = "CANCELED" \/ mode_store.resources[j].status = "CANCELED"
  \/ \E t \in Threads : frame[t].answers[j] = "CANCELED"
  \/ j \in Recorded /\ \E t \in Threads : frame[t].shutdown

ReleaseInv ==
  /\ NameInv
  /\ Undisturbed => Held /\ \A j \in Jobs : Released(j) => Stopped(j)

\* Nothing disturbed the mode so far if nothing has after the step.
LEMMA CalmBefore ==
  ASSUME Effects, Undisturbed'
  PROVE  Undisturbed
BY DEF Effects, Undisturbed

\* A stack that stands after a step stood before, or was created for a job whose
\* submission is under way.
LEMMA StackStood ==
  ASSUME NameInv, Effects, Undisturbed', Held, NEW k \in Stacks, stack'[k].state \in Standing
  PROVE  \/ /\ stack[k].state \in Standing /\ stack[k].job = stack'[k].job
         \/ /\ stack'[k].job \in Jobs /\ kind[stack'[k].job] = k
            /\ submits[stack'[k].job] = "called"
            /\ resources'[stack'[k].job].stack
<1>1. StackEffects(k)
  BY DEF Effects
<1>2. CASE StackMoves(k)
  BY <1>2 DEF StackMoves, NoStack, Standing, Undisturbed
<1>3. ASSUME NEW t \in Threads, StackCreated(t, k)
      PROVE  /\ stack'[k].job \in Jobs /\ kind[stack'[k].job] = k
             /\ submits[stack'[k].job] = "called"
             /\ resources'[stack'[k].job].stack
  <2>1. PICK j : j = frame[t].job
    OBVIOUS
  <2>2. stack'[k].job = j /\ frame[t].pc = "stack" /\ kind[j] = k
    BY <1>3, <2>1 DEF StackCreated
  <2>3. j \in Jobs /\ submits[j] = "called" /\ Tracked(j)
    BY <2>1, <2>2 DEF NameInv, BookInv, Placed, FramesSound, Sound, Submitting, Held
  <2>4. resources'[j].stack
    BY <1>3, <2>1, <2>3 DEF StackCreated, Undisturbed
  <2>5. QED
    BY <2>2, <2>3, <2>4
<1>4. CASE stack[k].state \in Standing /\ stack'[k].job = stack[k].job
  BY <1>4
<1>5. QED
  BY <1>1, <1>2, <1>3, <1>4 DEF StackEffects

\* So with the instances of a fleet.
LEMMA FleetLived ==
  ASSUME NameInv, Effects, Undisturbed', Held, NEW j \in Jobs,
         fleet'[j] = "active", work'[j] \in Live
  PROVE  \/ fleet[j] = "active" /\ work[j] \in Live
         \/ submits[j] = "called" /\ resources'[j].fleet
<1>1. FleetEffects(j)
  BY DEF Effects
<1>2. CASE FleetMoves(j) /\ WorkMoves(j)
  <2>1. fleet[j] = "active"
    BY <1>2 DEF FleetMoves
  <2>2. kind[j] = "fleet"
    BY <2>1 DEF NameInv, Sited
  <2>3. ~(stack["ecs"].job = j /\ stack["ecs"].state \in {"creating", "complete"})
    BY <2>2 DEF NameInv, Sited, Stacks
  <2>4. QED
    BY <1>2, <2>1, <2>3 DEF WorkMoves, Live
<1>3. ASSUME NEW t \in Threads, FleetCreated(t, j)
      PROVE  submits[j] = "called" /\ resources'[j].fleet
  <2>1. frame[t].pc = "fleet" /\ frame[t].job = j
    BY <1>3 DEF FleetCreated
  <2>2. submits[j] = "called" /\ Tracked(j)
    BY <2>1 DEF NameInv, BookInv, FramesSound, Sound, Submitting, Held
  <2>3. QED
    BY <1>3, <2>2 DEF FleetCreated, Undisturbed
<1>4. CASE work'[j] \notin Live
  BY <1>4
<1>5. QED
  BY <1>1, <1>2, <1>3, <1>4 DEF FleetEffects

\* A job that is not being submitted is as stopped as before.
LEMMA StaysStopped ==
  ASSUME NameInv, Effects, Undisturbed', Held, NEW j \in Jobs, submits[j] # "called", Stopped(j)
  PROVE  Stopped(j)'
BY StackStood, FleetLived DEF Stopped

\* It is stopped when what its record names is torn down.
LEMMA TornDownStops ==
  ASSUME NameInv, Effects, Undisturbed', Held, NEW j \in Jobs, submits[j] # "called", TornDown(j)
  PROVE  Stopped(j)'
<1>1. ASSUME NEW k \in Stacks, stack'[k].job = j, stack'[k].state \in Standing PROVE FALSE
  <2>1. stack[k].state \in Standing /\ stack[k].job = j
    BY <1>1, StackStood
  <2>2. resources[j].stack /\ kind[j] = k
    BY <2>1 DEF Held, NameInv, Sited, Standing
  <2>3. QED
    BY <1>1, <2>2 DEF TornDown
<1>2. ASSUME fleet'[j] = "active", work'[j] \in Live PROVE FALSE
  <2>1. resources[j].fleet
    BY <1>2, FleetLived DEF Held
  <2>2. QED
    BY <1>2, <2>1 DEF TornDown
<1>3. QED
  BY <1>1, <1>2 DEF Stopped

\* A step keeps the records of what stands.
LEMMA HeldKept ==
  ASSUME NameInv, Effects, BookInv', Undisturbed', Held
  PROVE  Held'
<1>1. TypeOK /\ Placed /\ BooksAgree /\ FramesSound
  BY DEF NameInv, BookInv
<1>2. ASSUME NEW k \in Stacks, stack'[k].state \in Standing PROVE resources'[stack'[k].job].stack
  <2>1. CASE stack[k].state \in Standing /\ stack[k].job = stack'[k].job
    <3>1. PICK j \in Jobs : j = stack[k].job /\ kind[j] = k /\ resources[j].stack
      BY <2>1 DEF Held, NameInv, Sited, Standing
    <3>2. RecordEffects(j)
      BY DEF Effects
    <3>3. ~Dropped(j)
      BY <1>2, <3>1 DEF Dropped, TornDown, Undisturbed
    <3>4. resources'[j].stack
      BY <3>1, <3>2, <3>3 DEF RecordEffects, Begun, Noted, Restated, SameNames
    <3>5. QED
      BY <2>1, <3>1, <3>4
  <2>2. QED
    BY <1>2, <2>1, StackStood
<1>3. ASSUME NEW j \in Jobs, fleet'[j] = "active", work'[j] \in Live PROVE resources'[j].fleet
  <2>1. CASE fleet[j] = "active" /\ work[j] \in Live
    <3>1. resources[j].fleet /\ RecordEffects(j)
      BY <2>1 DEF Held, Effects
    <3>2. ~Dropped(j)
      BY <1>3, <3>1 DEF Dropped, TornDown, Undisturbed
    <3>3. QED
      BY <3>1, <3>2 DEF RecordEffects, Begun, Noted, Restated, SameNames
  <2>2. QED
    BY <1>3, <2>1, FleetLived
<1>4. ASSUME NEW t \in Threads, frame'[t].pc \in Submitting PROVE Tracked(frame[t].job)'
  <2>1. PICK j : j = frame'[t].job
    OBVIOUS
  <2>2. j \in Jobs /\ submits'[j] = "called"
    BY <1>4, <2>1 DEF BookInv, Placed, FramesSound, Sound
  <2>3. CASE Begins(t)
    BY <2>1, <2>3 DEF Begins, Begun, Tracked, Absent
  <2>4. CASE frame[t].pc \in Submitting /\ frame[t].job = j
    <3>1. Tracked(j) /\ submits[j] = "called" /\ RecordEffects(j)
      BY <1>1, <2>2, <2>4 DEF Held, FramesSound, Sound, Effects
    <3>2. ~Dropped(j)
      <4>1. InMiddleOfSubmit
        BY <1>1, <2>4, MiddleOfSubmit
      <4>2. ~LetGo(j)
        BY <1>1, <2>2, <3>1, <4>1 DEF LetGo, Recorded, BooksAgree, Undisturbed
      <4>3. QED
        BY <4>2 DEF Dropped
    <3>3. resources'[j].status # Absent
      BY <3>1, <3>2, NoRecords DEF RecordEffects, Begun, Noted, Restated, Tracked, Absent
    <3>4. QED
      BY <2>1, <3>3 DEF Tracked
  <2>5. QED
    BY <1>4, <2>1, <2>3, <2>4 DEF Effects, FrameEffects
<1>5. QED
  BY <1>2, <1>3, <1>4 DEF Held

\* What a thread hears of a job, it is stopped if that is that it was cancelled.
LEMMA HearsCancelled ==
  ASSUME NameInv, \A i \in Jobs : Released(i) => Stopped(i), NEW j \in Jobs, MayHear(j, "CANCELED")
  PROVE  Stopped(j)
<1>1. FailureAnswers(j) \subseteq {"UNKNOWN", "COMPLETED", "ERROR"}
  <2>1. kind[j] \in {"lambda", "ecs", "fleet"}
    BY TypeParts DEF NameInv, BookInv, ConfigOK, Kinds
  <2>2. QED
    BY <2>1 DEF FailureAnswers
<1>2. CASE resources[j].status = "CANCELED"
  BY <1>2 DEF Released
<1>3. CASE resources[j].fleet /\ FleetAnswer(j) = "CANCELED"
  <2>1. fleet[j] = "deleted"
    BY <1>3 DEF FleetAnswer
  <2>2. kind[j] = "fleet"
    BY <1>3 DEF NameInv, BookInv, Kinded, RecordKinds
  <2>3. QED
    BY <2>1, <2>2 DEF Stopped, NameInv, Sited, Standing, Stacks
<1>4. CASE resources[j].stack /\ "CANCELED" \in StackAnswers(j)
  <2>1. PICK k \in Stacks : k = kind[j]
    BY <1>4 DEF NameInv, BookInv, Kinded, RecordKinds
  <2>2. stack[k].state \in {"none", "creating", "rollback", "delete_failed", "deleting", "complete"}
    BY TypeParts DEF NameInv, BookInv, AwsOK, Stack, Standing
  <2>3. stack[k].state = "deleting"
    BY <1>4, <2>1, <2>2 DEF StackAnswers, LambdaAnswer, EcsAnswers, IfSo
  <2>4. QED
    BY <2>1, <2>3 DEF Stopped, NameInv, Sited, Standing, Stacks
<1>5. QED
  BY <1>1, <1>2, <1>3, <1>4 DEF MayHear

\* Every step but a restart keeps the released jobs stopped.
LEMMA ReleasedKept ==
  ASSUME ReleaseInv, Effects, NameInv', Undisturbed', NEW j \in Jobs, Released(j)'
  PROVE  Stopped(j)'
<1>1. /\ Undisturbed /\ NameInv /\ Held /\ (\A i \in Jobs : Released(i) => Stopped(i))
      /\ BookInv' /\ Held'
  BY CalmBefore, HeldKept DEF ReleaseInv, NameInv
<1>2. TypeOK /\ Placed /\ BooksAgree /\ FramesSound /\ Uncancelled /\ Ordered
  BY <1>1 DEF NameInv, BookInv
<1>3. ASSUME Released(j), submits[j] # "called" PROVE Stopped(j)'
  BY <1>1, <1>3, StaysStopped
<1>4. ASSUME TornDown(j), submits[j] # "called" PROVE Stopped(j)'
  BY <1>1, <1>4, TornDownStops
<1>5. ASSUME resources'[j] = NoRecord PROVE Stopped(j)'
  <2>1. \A k \in Stacks : stack'[k].state \in Standing => stack'[k].job # j
    BY <1>1, <1>5, NoRecords DEF Held
  <2>2. QED
    BY <1>1, <1>5, <2>1, NoRecords DEF Held, Stopped
<1>6. \A t \in Threads : frame[t].answers[j] \in Answer
  BY <1>2, TypeParts DEF FramesOK, Frame
<1>7. /\ j \in Recorded => submits[j] = "accepted"
      /\ reported[j] # "none" => submits[j] = "accepted"
      /\ \A t \in Threads : frame[t].answers[j] # Absent => submits[j] = "accepted"
      /\ \A t \in Threads : frame[t].pc = "write" /\ frame[t].job = j => submits[j] = "accepted"
  BY <1>2 DEF Recorded, BooksAgree, FramesSound, Sound, Asks, Placed
<1>8. \A a \in Answer : /\ Meaning(a) = "CANCELED" => a = "CANCELED"
                        /\ Meaning(a) # "collected"
  BY DEF Meaning, Answer, Status, Absent
<1>9. ASSUME reported'[j] \in {"CANCELED", "collected"} PROVE Stopped(j)'
  <2>1. ReportEffects(j)
    BY DEF Effects
  <2>2. CASE reported'[j] = reported[j]
    BY <1>3, <1>7, <1>9, <2>2 DEF Released
  <2>3. CASE Ended(j)
    <3>1. reported[j] = "none"
      BY <1>2, <2>3 DEF Ended, BooksAgree
    <3>2. QED
      BY <1>9, <2>3, <3>1 DEF Ended
  <2>4. CASE Heard(j)
    <3>1. PICK t \in Threads : frame[t].answers[j] # Absent /\ reported'[j] = Meaning(frame[t].answers[j])
      BY <2>4 DEF Heard
    <3>2. frame[t].answers[j] = "CANCELED"
      BY <1>6, <1>8, <1>9, <3>1
    <3>3. QED
      BY <1>3, <1>7, <3>1, <3>2 DEF Released
  <2>5. CASE Cancelled(j)
    BY <1>4, <1>7, <2>5 DEF Cancelled, Undisturbed
  <2>6. CASE Collected(j)
    <3>1. ASSUME NEW t \in Threads, frame[t].pc = "sweep" PROVE Stopped(j)'
      BY <1>2, <1>3, <1>7, <2>6, <3>1 DEF Collected, Released, FramesSound, Sound
    <3>2. QED
      BY <1>5, <2>6, <3>1 DEF Collected
  <2>7. QED
    BY <2>1, <2>2, <2>3, <2>4, <2>5, <2>6 DEF ReportEffects
<1>10. ASSUME submits'[j] = "raised" PROVE Stopped(j)'
  <2>1. ReportEffects(j)
    BY DEF Effects
  <2>2. CASE submits'[j] = submits[j]
    BY <1>3, <1>10, <2>2 DEF Released
  <2>3. CASE Ended(j)
    BY <1>5, <1>10, <2>3 DEF Ended
  <2>4. QED
    BY <1>10, <2>1, <2>2, <2>3 DEF ReportEffects, Begun, Heard, Cancelled, Collected
<1>11. ASSUME resources'[j].status = "CANCELED" PROVE Stopped(j)'
  <2>1. RecordEffects(j)
    BY DEF Effects
  <2>2. CASE resources[j].status = "CANCELED"
    BY <1>2, <1>3, <2>2 DEF Released, Uncancelled
  <2>3. CASE Restated(j)
    <3>1. ASSUME NEW t \in Threads, frame[t].pc = "write", frame[t].job = j,
                 resources'[j].status = Meaning(frame[t].answers[j])
          PROVE  Stopped(j)'
      <4>1. frame[t].answers[j] = "CANCELED"
        BY <1>6, <1>8, <1>11, <3>1
      <4>2. QED
        BY <1>3, <1>7, <3>1, <4>1 DEF Released
    <3>2. CASE reported'[j] = "CANCELED"
      BY <1>9, <3>2
    <3>3. QED
      BY <1>11, <2>3, <3>1, <3>2 DEF Restated
  <2>4. QED
    BY <1>11, <2>1, <2>2, <2>3, NoRecords DEF RecordEffects, Begun, Noted, Dropped, Absent
<1>12. ASSUME mode_store'.resources[j].status = "CANCELED" PROVE Stopped(j)'
  <2>1. CASE mode_store' = mode_store
    BY <1>2, <1>3, <1>12, <2>1 DEF Released, Uncancelled
  <2>2. CASE mode_store'.resources = resources'
    BY <1>11, <1>12, <2>2
  <2>3. QED
    BY <2>1, <2>2 DEF Effects, StoreEffects
<1>13. ASSUME NEW t \in Threads, frame'[t].answers[j] = "CANCELED" PROVE Stopped(j)'
  <2>1. FrameEffects(t)
    BY DEF Effects
  <2>2. CASE frame[t].answers[j] = "CANCELED"
    BY <1>3, <1>7, <2>2 DEF Released, Absent
  <2>3. CASE submits[j] = "accepted" /\ MayHear(j, "CANCELED")
    BY <1>1, <2>3, HearsCancelled, StaysStopped
  <2>4. QED
    BY <1>13, <2>1, <2>2, <2>3 DEF FrameEffects, Absent
<1>14. ASSUME NEW t \in Threads, frame'[t].shutdown, reported'[j] \notin {"none", "collected"}
       PROVE  Stopped(j)'
  <2>1. FrameEffects(t) /\ ReportEffects(j)
    BY DEF Effects
  <2>2. InMiddleOfSubmit <=> \E u \in Threads : frame[u].pc \in Submitting
    BY <1>2, MiddleOfSubmit
  <2>3. \A u \in Threads : frame[u].pc \notin Submitting
    <3>1. CASE frame[t].shutdown
      BY <1>1, <1>2, <3>1 DEF Ordered, Undisturbed
    <3>2. CASE ShutsDown(t)
      BY <2>2, <3>2 DEF ShutsDown, Undisturbed
    <3>3. QED
      BY <1>14, <2>1, <3>1, <3>2 DEF FrameEffects
  <2>4. j \in Recorded
    <3>1. ~Ended(j)
      BY <2>3 DEF Ended, Submitting
    <3>2. QED
      BY <1>14, <2>1, <3>1 DEF ReportEffects, Heard, Cancelled, Collected, Recorded
  <2>5. CASE frame[t].shutdown
    BY <1>3, <1>7, <2>4, <2>5 DEF Released
  <2>6. CASE ShutsDown(t)
    BY <1>4, <1>7, <2>4, <2>6 DEF ShutsDown, Cancelled, Undisturbed
  <2>7. QED
    BY <1>14, <2>1, <2>5, <2>6 DEF FrameEffects
<1>15. QED
  BY <1>9, <1>10, <1>11, <1>12, <1>13, <1>14 DEF Released, Recorded

\* So does a restart.
LEMMA RestartReleases ==
  ASSUME ReleaseInv, Restart, Undisturbed'
  PROVE  Held' /\ \A j \in Jobs : Released(j)' => Stopped(j)'
<1>1. TypeOK /\ Placed /\ BooksAgree
  BY DEF ReleaseInv, NameInv, BookInv
<1>2. /\ resources' = mode_store.resources /\ mode_store' = mode_store
      /\ \A t \in Threads : frame'[t] = Idle
      /\ \A j \in Jobs : submits'[j] = IF submits[j] = "called" THEN "raised" ELSE submits[j]
      /\ happened \subseteq happened' /\ (KnowsMore => "unsaved" \in happened')
      /\ UNCHANGED <<kind, stack, fleet, work, reported>>
  BY <1>1, RestartDoes DEF config, awsVars, workVars
<1>3. Undisturbed /\ ~KnowsMore
  BY <1>2 DEF Undisturbed
<1>4. Held /\ \A j \in Jobs : Released(j) => Stopped(j)
  BY <1>3 DEF ReleaseInv
<1>5. \A j \in Jobs : /\ resources'[j].stack = resources[j].stack
                      /\ resources'[j].fleet = resources[j].fleet
  BY <1>2, <1>3 DEF KnowsMore, Names
<1>6. \A j \in Jobs : submits'[j] = submits[j]
  <2>1. \A t \in Threads : frame[t].pc \notin Submitting
    BY <1>1, <1>3, MiddleOfSubmit DEF KnowsMore
  <2>2. QED
    BY <1>1, <1>2, <2>1 DEF BooksAgree
<1>7. Held'
  <2>1. \A k \in Stacks : stack[k].state \in Standing => stack[k].job \in Jobs
    BY DEF ReleaseInv, NameInv, Sited, Standing
  <2>2. QED
    BY <1>2, <1>4, <1>5, <2>1, IdleFrame DEF Held, Submitting
<1>8. ASSUME NEW j \in Jobs, Released(j)' PROVE Stopped(j)'
  <2>1. Released(j)
    BY <1>2, <1>6, <1>8, IdleFrame DEF Released, Absent
  <2>2. QED
    BY <1>2, <1>4, <2>1 DEF Stopped
<1>9. QED
  BY <1>7, <1>8

\* Every step keeps the invariant.
LEMMA ReleaseStep ==
  ASSUME ReleaseInv, [Next]_vars
  PROVE  ReleaseInv'
<1>1. NameInv' /\ (Effects \/ Restart)
  BY NameStep, StepEffects DEF ReleaseInv, NameInv
<1>2. CASE Effects
  <2>1. Undisturbed' => Undisturbed
    BY <1>2, CalmBefore
  <2>2. Undisturbed' => Held'
    BY <1>1, <1>2, <2>1, HeldKept DEF ReleaseInv, NameInv
  <2>3. Undisturbed' => \A j \in Jobs : Released(j)' => Stopped(j)'
    BY <1>1, <1>2, ReleasedKept
  <2>4. QED
    BY <1>1, <2>2, <2>3 DEF ReleaseInv
<1>3. CASE Restart
  BY <1>1, <1>3, RestartReleases DEF ReleaseInv
<1>4. QED
  BY <1>1, <1>2, <1>3

\* It holds at the start, where no job is released.
LEMMA ReleasedInitially ==
  ASSUME Init
  PROVE  ReleaseInv
<1>1. NameInv
  BY NamesInitially
<1>2. Held
  BY IdleFrame DEF Init, Held, NoStack, Standing, Submitting
<1>3. \A j \in Jobs : ~Released(j)
  <2>1. \A j \in Jobs : resources[j].status = Absent /\ mode_store.resources[j].status = Absent
    BY NoRecords DEF Init, Constructed
  <2>2. QED
    BY <2>1, IdleFrame DEF Init, Released, Absent
<1>4. QED
  BY <1>1, <1>2, <1>3 DEF ReleaseInv

\* It holds in every reachable state.
LEMMA ReleaseInvariant == Spec => []ReleaseInv
BY ReleasedInitially, ReleaseStep, PTL DEF Spec

\* Whatever is interleaved, however often the process dies, and whatever AWS takes
\* back: nothing runs for a job the provider reported as cancelled or forgot, nor
\* for one whose submission failed -- unless a deletion is refused or fails, a
\* create call takes effect and raises, a submission overtakes a shutdown, or a
\* dying process had not saved what it knew.
THEOREM ReleasedJobsStop == Spec => []ReleasedJobStops
<1>1. ReleaseInv => ReleasedJobStops
  BY DEF ReleaseInv, ReleasedJobStops, Unless, Undisturbed, Released, Stopped
<1>2. QED
  BY <1>1, ReleaseInvariant, PTL

-----------------------------------------------------------------------------
(* What a step does to the template, the bucket and the packages.          *)

\* A template is created for a thread that will launch a fleet with it.  When that
\* thread goes on, the template is in the record of the job, or gone.
TemplateEffects ==
  /\ \/ template' \in {template, NoJob}
     \/ \E t \in Threads : frame'[t].pc = "fleet" /\ frame'[t].template = template'
  /\ \A t \in Threads : LET j == frame[t].job IN
       frame[t].pc = "fleet" =>
         \/ frame'[t] = frame[t]
         \/ resources'[j].fleet /\ resources'[j].template = template
         \/ template = frame[t].template => template' = NoJob
         \/ ~Tracked(j) \/ happened' \cap {"lost", "delete"} # {}

\* A bucket is created for a Lambda job, and deleted in a shutdown.
BucketEffects ==
  \/ UNCHANGED <<bucket, code_bucket, owns_bucket, initialized>>
  \/ /\ \E t \in Threads : frame[t].pc = "bucket"
     /\ bucket' /\ code_bucket' /\ owns_bucket' = (owns_bucket \/ ~bucket)
     /\ initialized' = initialized
  \/ /\ \E t \in Threads : frame[t].pc = "sweep"
     /\ owns_bucket /\ code_bucket /\ "delete" \notin happened' => ~bucket'
     /\ bucket' => bucket
     /\ ~owns_bucket'

\* A package is staged for a thread that will create a stack.  When that thread
\* goes on, the package is in the record of the job.
ObjectEffects ==
  /\ \A j \in objects' :
       \/ j \in objects
       \/ \E t \in Threads : /\ frame[t].pc = "stage" /\ frame[t].job = j
                             /\ frame'[t].pc = "stack" /\ frame'[t].job = j
  /\ \A t \in Threads : LET j == frame[t].job IN
       frame[t].pc = "stack" =>
         \/ frame'[t] = frame[t]
         \/ kind[j] = "lambda" => resources'[j].code
         \/ ~Tracked(j) \/ happened' \cap {"lost", "taken", "refused"} # {}

ThingEffects == TemplateEffects /\ BucketEffects /\ ObjectEffects

\* A thread that launches no fleet and creates no stack.
LEMMA ThingsOfOthers ==
  ASSUME NEW t \in Threads, Others(t), frame[t].pc \notin {"stack", "fleet"},
         template' \in {template, NoJob} \/ (frame'[t].pc = "fleet" /\ frame'[t].template = template'),
         \A j \in objects' :
           \/ j \in objects
           \/ /\ frame[t].pc = "stage" /\ frame[t].job = j
              /\ frame'[t].pc = "stack" /\ frame'[t].job = j
  PROVE  TemplateEffects /\ ObjectEffects
BY DEF Others, TemplateEffects, ObjectEffects

\* The steps of submit_job()
LEMMA SubmitThings ==
  ASSUME BookInv, NEW t \in Threads, (\E j \in Jobs : Submit(t, j)) \/ SubmitStep(t)
  PROVE  ThingEffects
<1> USE DEF SubmitStep
<1>1. TypeOK /\ Placed /\ Kinded /\ Sound(frame[t])
  BY DEF BookInv, FramesSound
<1>2. ASSUME NEW j \in Jobs, Submit(t, j) PROVE ThingEffects
  <2>1. /\ Others(t) /\ frame[t] = Idle
        /\ UNCHANGED <<template, bucket, objects, code_bucket, owns_bucket, initialized>>
    BY <1>1, <1>2, SubmitDoes DEF awsVars
  <2>2. QED
    BY <2>1, IdleFrame, ThingsOfOthers DEF ThingEffects, BucketEffects
<1>3. CASE EnsureBucket(t)
  <2>1. /\ SubmitKeeps /\ UNCHANGED <<template, objects>> /\ frame[t].pc = "bucket" /\ Others(t)
        /\ \/ bucket' /\ code_bucket' /\ owns_bucket' = (owns_bucket \/ ~bucket)
           \/ UNCHANGED <<bucket, code_bucket, owns_bucket>>
    BY <1>1, <1>3, EnsureBucketDoes DEF GoesOn
  <2>2. QED
    BY <2>1, ThingsOfOthers DEF ThingEffects, BucketEffects, SubmitKeeps
<1>4. CASE Stage(t)
  <2>1. /\ SubmitKeeps /\ UNCHANGED <<template, bucket, code_bucket, owns_bucket>>
        /\ frame[t].pc = "stage" /\ Others(t)
        /\ \/ /\ objects' = objects \cup {frame[t].job}
              /\ frame'[t].pc = "stack" /\ frame'[t].job = frame[t].job
           \/ objects' = objects
    BY <1>1, <1>4, StageDoes DEF GoesOn
  <2>2. QED
    BY <2>1, ThingsOfOthers DEF ThingEffects, BucketEffects, SubmitKeeps
<1>5. CASE CreateLambdaStack(t) \/ CreateEcsStack(t)
  <2>1. PICK j : j = frame[t].job
    OBVIOUS
  <2>2. /\ SubmitKeeps /\ UNCHANGED <<template, bucket, objects, code_bucket, owns_bucket>>
        /\ frame[t].pc = "stack" /\ Others(t)
        /\ \/ resources'[j].code <=> kind[j] = "lambda"
           \/ ~Tracked(j) \/ "lost" \in happened'
           \/ "taken" \in happened' \/ "refused" \in happened'
    BY <1>1, <1>5, <2>1, CreateStackDoes DEF GoesOn
  <2>3. TemplateEffects /\ ObjectEffects
    BY <2>1, <2>2 DEF Others, TemplateEffects, ObjectEffects
  <2>4. QED
    BY <2>2, <2>3 DEF ThingEffects, BucketEffects, SubmitKeeps
<1>6. CASE CreateTemplate(t)
  <2>1. /\ SubmitKeeps /\ UNCHANGED <<bucket, objects, code_bucket, owns_bucket>>
        /\ frame[t].pc = "template" /\ Others(t)
        /\ \/ template' = template
           \/ frame'[t].pc = "fleet" /\ frame'[t].template = template'
    BY <1>1, <1>6, CreateTemplateDoes DEF GoesOn
  <2>2. QED
    BY <2>1, ThingsOfOthers DEF ThingEffects, BucketEffects, SubmitKeeps
<1>7. CASE CreateFleet(t)
  <2>1. PICK j : j = frame[t].job
    OBVIOUS
  <2>2. /\ SubmitKeeps /\ UNCHANGED <<bucket, objects, code_bucket, owns_bucket>>
        /\ frame[t].pc = "fleet" /\ Others(t)
        /\ template' \in {template, NoJob}
        /\ \/ resources'[j].fleet /\ resources'[j].template = template
           \/ ~Tracked(j) \/ "lost" \in happened'
           \/ template = frame[t].template => template' = NoJob \/ "delete" \in happened'
    BY <1>1, <1>7, <2>1, CreateFleetDoes DEF GoesOn, Notes
  <2>3. TemplateEffects /\ ObjectEffects
    BY <2>1, <2>2 DEF Others, TemplateEffects, ObjectEffects
  <2>4. QED
    BY <2>2, <2>3 DEF ThingEffects, BucketEffects, SubmitKeeps
<1>8. CASE Unfilled(t)
  <2>1. /\ SubmitKeeps /\ UNCHANGED <<template, bucket, objects, code_bucket, owns_bucket>>
        /\ frame[t].pc = "unfilled" /\ Others(t)
    BY <1>1, <1>8, UnfilledDoes DEF GoesOn
  <2>2. QED
    BY <2>1, ThingsOfOthers DEF ThingEffects, BucketEffects, SubmitKeeps
<1>9. CASE SaveJob(t)
  <2>1. /\ frame[t].pc = "save" /\ Others(t)
        /\ UNCHANGED <<template, bucket, objects, code_bucket, owns_bucket, initialized>>
    BY <1>1, <1>9, SaveJobDoes DEF Ends, awsVars
  <2>2. QED
    BY <2>1, ThingsOfOthers DEF ThingEffects, BucketEffects
<1>10. CASE Undo(t)
  <2>1. /\ frame[t].pc = "undo" /\ Others(t) /\ objects' \subseteq objects
        /\ template' \in {template, NoJob}
        /\ UNCHANGED <<bucket, code_bucket, owns_bucket, initialized>>
    BY <1>1, <1>10, UndoDoes DEF Ends, Reclaiming, Dropping
  <2>2. QED
    BY <2>1, ThingsOfOthers DEF ThingEffects, BucketEffects
<1>11. QED
  BY <1>2, <1>3, <1>4, <1>5, <1>6, <1>7, <1>8, <1>9, <1>10

\* The steps of get_job_status()
LEMMA StatusThings ==
  ASSUME BookInv, NEW t \in Threads, StatusBegin(t) \/ StatusStep(t)
  PROVE  ThingEffects
<1>1. TypeOK /\ Placed /\ Kinded
  BY DEF BookInv
<1>2. /\ frame[t] = Idle \/ frame[t].pc \in {"ask", "write"}
      /\ Others(t)
      /\ UNCHANGED <<template, bucket, objects, code_bucket, owns_bucket, initialized>>
  <2>1. ASSUME AskKeeps
        PROVE  UNCHANGED <<template, bucket, objects, code_bucket, owns_bucket, initialized>>
    BY <2>1 DEF AskKeeps, awsVars
  <2>2. CASE StatusBegin(t)
    BY <1>1, <2>1, <2>2, StatusBeginDoes
  <2>3. CASE AskLocally(t)
    BY <1>1, <2>1, <2>3, AskLocallyDoes DEF Hears
  <2>4. CASE Ask(t)
    BY <1>1, <2>1, <2>4, AskDoes
  <2>5. CASE Write(t)
    BY <1>1, <2>1, <2>5, WriteDoes DEF Hears, Ends
  <2>6. CASE StatusUpdate(t)
    BY <1>1, <2>6, StatusUpdateDoes DEF Ends, awsVars
  <2>7. QED
    BY <2>2, <2>3, <2>4, <2>5, <2>6 DEF StatusStep
<1>3. frame[t].pc \notin {"stack", "fleet"}
  BY <1>2, IdleFrame
<1>4. QED
  BY <1>2, <1>3, ThingsOfOthers DEF ThingEffects, BucketEffects

\* The steps of cancel() and shutdown()
LEMMA CancelThings ==
  ASSUME BookInv, NEW t \in Threads,
         (\E j \in Jobs : Cancel(t, j)) \/ Cleanup(t) \/ Shutdown(t) \/ Clear(t) \/ Sweep(t)
  PROVE  ThingEffects
<1>1. TypeOK
  BY DEF BookInv
<1>2. ASSUME CancelUnchanged, Others(t), objects' \subseteq objects, template' \in {template, NoJob},
             frame[t] = Idle \/ frame[t].pc \in {"cleanup", "clear"}
      PROVE  ThingEffects
  <2>1. frame[t].pc \notin {"stack", "fleet"}
    BY <1>2, IdleFrame
  <2>2. QED
    BY <1>2, <2>1, ThingsOfOthers DEF ThingEffects, BucketEffects, CancelUnchanged
<1>3. ASSUME NEW j \in Jobs, Cancel(t, j) PROVE ThingEffects
  BY <1>1, <1>2, <1>3, CancelDoes DEF Reclaiming
<1>4. CASE Shutdown(t)
  BY <1>1, <1>2, <1>4, ShutdownDoes DEF Reclaiming
<1>5. CASE Cleanup(t)
  BY <1>1, <1>2, <1>5, CleanupDoes DEF Reclaiming
<1>6. CASE Clear(t)
  BY <1>1, <1>2, <1>6, ClearDoes DEF Reclaiming, GoesOn
<1>7. CASE Sweep(t)
  <2>1. /\ frame[t].pc = "sweep" /\ Others(t) /\ objects' \subseteq objects /\ template' = template
        /\ owns_bucket /\ code_bucket /\ "delete" \notin happened' => ~bucket'
        /\ bucket' => bucket
        /\ ~owns_bucket'
    BY <1>1, <1>7, SweepDoes DEF Ends
  <2>2. BucketEffects
    BY <2>1 DEF BucketEffects
  <2>3. QED
    BY <2>1, <2>2, ThingsOfOthers DEF ThingEffects
<1>8. QED
  BY <1>3, <1>4, <1>5, <1>6, <1>7

\* A step is the restart, or has those effects on the template, the bucket and the packages.
LEMMA StepThings ==
  ASSUME BookInv, [Next]_vars
  PROVE  ThingEffects \/ Restart
<1>1. ASSUME UNCHANGED <<frame, template, objects, bucket, code_bucket, owns_bucket, initialized>>
      PROVE  ThingEffects
  BY <1>1 DEF ThingEffects, TemplateEffects, ObjectEffects, BucketEffects
<1>2. ASSUME NEW t \in Threads, ThreadStep(t) PROVE ThingEffects
  BY <1>2, SubmitThings, StatusThings, CancelThings DEF ThreadStep
<1>3. CASE Environment
  BY <1>1, <1>3, WorldSteps DEF BookInv, WorldMoves, WorldKeeps, callVars
<1>4. CASE UNCHANGED vars
  BY <1>1, <1>4 DEF vars, modeVars, awsVars, callVars
<1>5. QED
  BY <1>2, <1>3, <1>4 DEF Next

-----------------------------------------------------------------------------
(* Nothing is left after a shutdown.                                       *)

\* A bucket of the mode's own is the one it uses; only Lambda jobs have packages.
Owned ==
  /\ owns_bucket => code_bucket
  /\ mode_store.owns_bucket => mode_store.code_bucket
  /\ \A j \in objects : kind[j] = "lambda"

\* The bucket is the mode's own, and the template is in a record, or in the hands
\* of a thread that will launch a fleet with it.
Accounted ==
  /\ bucket => owns_bucket
  /\ template # NoJob =>
       \/ \E j \in Jobs : resources[j].fleet /\ resources[j].template = template
       \/ \E t \in Threads : frame[t].pc = "fleet" /\ frame[t].template = template

\* So is each package, unless a stack could not be created.
Packaged ==
  happened \cap {"taken", "refused"} = {} =>
    \A j \in objects :
      \/ resources[j].code
      \/ \E t \in Threads : frame[t].pc = "stack" /\ frame[t].job = j

\* At the end of a shutdown the mode knows of no job, and nobody submits one.
Over ==
  /\ ~initialized \/ (\E t \in Threads : frame[t].pc = "sweep") =>
       /\ \A j \in Jobs : ~Tracked(j)
       /\ \A t \in Threads : frame[t].pc \notin Submitting
  /\ ~initialized => ~bucket

SweptInv ==
  /\ ReleaseInv /\ Owned
  /\ Undisturbed => Accounted /\ Packaged /\ Over

\* A bucket that the mode owns it uses, whatever happens.
LEMMA OwnedKept ==
  ASSUME SweptInv, Effects, ThingEffects, BookInv'
  PROVE  Owned'
<1>1. owns_bucket' => code_bucket'
  <2>1. CASE UNCHANGED <<bucket, code_bucket, owns_bucket, initialized>>
    BY <2>1 DEF SweptInv, Owned
  <2>2. CASE code_bucket' \/ ~owns_bucket'
    BY <2>2
  <2>3. QED
    BY <2>1, <2>2 DEF ThingEffects, BucketEffects
<1>2. mode_store'.owns_bucket => mode_store'.code_bucket
  BY <1>1 DEF SweptInv, Owned, Effects, StoreEffects
<1>3. ASSUME NEW j \in objects' PROVE kind'[j] = "lambda"
  <2>1. \A t \in Threads : frame[t].pc = "stage" => kind[frame[t].job] = "lambda"
    BY DEF SweptInv, ReleaseInv, NameInv, BookInv, FramesSound, Sound
  <2>2. QED
    BY <1>3, <2>1 DEF SweptInv, Owned, ThingEffects, ObjectEffects, Effects
<1>4. QED
  BY <1>1, <1>2, <1>3 DEF Owned

\* A record of something is dropped only when it is gone.
LEMMA RecordsKept ==
  ASSUME Effects, Undisturbed', NEW j \in Jobs
  PROVE  /\ resources[j].fleet /\ resources[j].template = template /\ template' = template /\ template # NoJob
              => resources'[j].fleet /\ resources'[j].template = template
         /\ resources[j].code /\ j \in objects' => resources'[j].code
<1>1. RecordEffects(j)
  BY DEF Effects
<1>2. CASE Dropped(j)
  BY <1>2 DEF Dropped, TornDown, Undisturbed
<1>3. CASE Begun(j) \/ Noted(j) \/ Restated(j) \/ resources'[j] = resources[j]
  BY <1>3 DEF Begun, Noted, Restated, SameNames
<1>4. QED
  BY <1>1, <1>2, <1>3 DEF RecordEffects

\* What the mode created stays accounted for.
LEMMA AccountedKept ==
  ASSUME SweptInv, Effects, ThingEffects, BookInv', Undisturbed'
  PROVE  Accounted'
<1>1. Undisturbed /\ Held /\ Accounted
  BY CalmBefore DEF SweptInv, ReleaseInv
<1>2. TypeOK /\ Placed /\ FramesSound
  BY DEF SweptInv, ReleaseInv, NameInv, BookInv
<1>3. bucket' => owns_bucket'
  BY <1>1 DEF SweptInv, Owned, Accounted, ThingEffects, BucketEffects, Undisturbed
<1>4. ASSUME template' # NoJob
      PROVE  \/ \E j \in Jobs : resources'[j].fleet /\ resources'[j].template = template'
             \/ \E t \in Threads : frame'[t].pc = "fleet" /\ frame'[t].template = template'
  <2>1. CASE template' = template
    <3>1. ASSUME NEW j \in Jobs, resources[j].fleet, resources[j].template = template
          PROVE  resources'[j].fleet /\ resources'[j].template = template'
      BY <1>4, <2>1, <3>1, RecordsKept
    <3>2. ASSUME NEW t \in Threads, frame[t].pc = "fleet", frame[t].template = template
          PROVE  \/ frame'[t] = frame[t]
                 \/ \E j \in Jobs : resources'[j].fleet /\ resources'[j].template = template'
      <4>1. PICK j \in Jobs : j = frame[t].job
        BY <1>2, <3>2 DEF Placed, Submitting
      <4>2. Tracked(j)
        BY <1>1, <3>2, <4>1 DEF Held, Submitting
      <4>3. \/ frame'[t] = frame[t]
            \/ resources'[j].fleet /\ resources'[j].template = template
        BY <1>4, <2>1, <3>2, <4>1, <4>2 DEF ThingEffects, TemplateEffects, Undisturbed
      <4>4. QED
        BY <2>1, <4>3
    <3>3. QED
      BY <1>1, <1>4, <2>1, <3>1, <3>2 DEF Accounted
  <2>2. CASE \E t \in Threads : frame'[t].pc = "fleet" /\ frame'[t].template = template'
    BY <2>2
  <2>3. QED
    BY <1>4, <2>1, <2>2 DEF ThingEffects, TemplateEffects
<1>5. QED
  BY <1>3, <1>4 DEF Accounted

\* So do the packages.
LEMMA PackagedKept ==
  ASSUME SweptInv, Effects, ThingEffects, BookInv', Undisturbed'
  PROVE  Packaged'
<1>1. Undisturbed /\ Held /\ Packaged
  BY CalmBefore DEF SweptInv, ReleaseInv
<1>2. TypeOK /\ Placed
  BY DEF SweptInv, ReleaseInv, NameInv, BookInv
<1>3. SUFFICES ASSUME happened' \cap {"taken", "refused"} = {}, NEW j \in objects'
               PROVE  \/ resources'[j].code
                      \/ \E t \in Threads : frame'[t].pc = "stack" /\ frame'[t].job = j
  BY DEF Packaged
<1>4. happened \cap {"taken", "refused"} = {} /\ j \in Jobs
  <2>1. objects' \in SUBSET Jobs
    BY TypeParts DEF BookInv, AwsOK
  <2>2. QED
    BY <1>3, <2>1 DEF Effects
<1>5. CASE j \notin objects
  BY <1>5 DEF ThingEffects, ObjectEffects
<1>6. CASE j \in objects /\ resources[j].code
  BY <1>4, <1>6, RecordsKept
<1>7. ASSUME j \in objects, NEW t \in Threads, frame[t].pc = "stack", frame[t].job = j
      PROVE  \/ resources'[j].code
             \/ frame'[t] = frame[t]
  <2>1. kind[j] = "lambda" /\ Tracked(j)
    BY <1>1, <1>7 DEF SweptInv, Owned, Held, Submitting
  <2>2. QED
    BY <1>3, <1>7, <2>1 DEF ThingEffects, ObjectEffects, Undisturbed
<1>8. QED
  BY <1>1, <1>4, <1>5, <1>6, <1>7 DEF Packaged

\* A mode that is shut down, or about to be, begins nothing.
LEMMA OverKept ==
  ASSUME SweptInv, Effects, ThingEffects, NameInv', Undisturbed'
  PROVE  Over'
<1>1. Undisturbed /\ Accounted /\ Over
  BY CalmBefore DEF SweptInv
<1>2. BookInv /\ FramesSound /\ BookInv' /\ FramesSound' /\ BooksAgree' /\ Ordered'
  BY DEF SweptInv, ReleaseInv, NameInv, BookInv
<1>3. ASSUME \A j \in Jobs : ~Tracked(j), \A t \in Threads : frame'[t].pc \notin Submitting
      PROVE  \A j \in Jobs : ~Tracked(j)'
  <2> SUFFICES ASSUME NEW j \in Jobs PROVE ~Tracked(j)'
    OBVIOUS
  <2>1. RecordEffects(j) /\ ~Tracked(j)
    BY <1>3 DEF Effects
  <2>2. ~Begun(j)
    BY <1>2, <1>3 DEF Begun, BooksAgree
  <2>3. QED
    BY <2>1, <2>2, NoRecords DEF RecordEffects, Noted, Restated, Dropped, Tracked
<1>4. ASSUME ~initialized \/ \E t \in Threads : frame[t].pc = "sweep"
      PROVE  (\A j \in Jobs : ~Tracked(j)') /\ (\A t \in Threads : frame'[t].pc \notin Submitting)
  <2>1. /\ \A j \in Jobs : ~Tracked(j)
        /\ \A t \in Threads : frame[t].pc \notin Submitting
    BY <1>1, <1>4 DEF Over
  <2>2. ~initialized \/ \E t \in Threads : frame[t].shutdown
    BY <1>2, <1>4 DEF FramesSound, Sound
  <2>3. \A t \in Threads : ~Begins(t)
    BY <2>2 DEF Begins, Undisturbed
  <2>4. \A t \in Threads : frame'[t].pc \notin Submitting
    BY <2>1, <2>3 DEF Effects, FrameEffects
  <2>5. QED
    BY <1>3, <2>1, <2>4
<1>5. ASSUME NEW t \in Threads, frame'[t].pc = "sweep"
      PROVE  (\A j \in Jobs : ~Tracked(j)') /\ (\A u \in Threads : frame'[u].pc \notin Submitting)
  <2>1. FrameEffects(t) /\ frame'[t].shutdown
    BY <1>2, <1>5 DEF Effects, FramesSound, Sound
  <2>2. frame[t].shutdown
    BY <1>5, <2>1 DEF FrameEffects, ShutsDown
  <2>3. \A u \in Threads : frame'[u].pc \notin Submitting
    BY <1>2, <2>1 DEF Ordered, Undisturbed
  <2>4. frame[t].pc = "sweep" \/ \A j \in Jobs : ~Tracked(j)'
    BY <1>5, <2>1, <2>2 DEF FrameEffects
  <2>5. CASE frame[t].pc = "sweep"
    BY <1>3, <2>3, <2>5, <1>1 DEF Over
  <2>6. QED
    BY <2>3, <2>4, <2>5
<1>6. ASSUME ~initialized'
      PROVE  ~initialized \/ \E t \in Threads : frame[t].pc = "sweep"
  BY <1>6 DEF ThingEffects, BucketEffects
<1>7. ASSUME ~initialized' PROVE ~bucket'
  <2>1. \A t \in Threads : frame[t].pc # "bucket"
    BY <1>1, <1>6, <1>7 DEF Over, Submitting
  <2>2. bucket => owns_bucket /\ code_bucket
    BY <1>1 DEF Accounted, SweptInv, Owned
  <2>3. QED
    BY <1>1, <1>7, <2>1, <2>2 DEF ThingEffects, BucketEffects, Over, Undisturbed
<1>8. QED
  BY <1>4, <1>5, <1>6, <1>7 DEF Over

\* A restart forgets nothing that was saved.
LEMMA RestartAccounts ==
  ASSUME SweptInv, Restart
  PROVE  Owned' /\ (Undisturbed' => Accounted' /\ Packaged' /\ Over')
<1>1. TypeOK /\ Placed
  BY DEF SweptInv, ReleaseInv, NameInv, BookInv
<1>2. /\ initialized /\ resources' = mode_store.resources /\ mode_store' = mode_store
      /\ code_bucket' = mode_store.code_bucket /\ owns_bucket' = mode_store.owns_bucket
      /\ \A t \in Threads : frame'[t] = Idle
      /\ happened \subseteq happened' /\ (KnowsMore => "unsaved" \in happened')
      /\ UNCHANGED <<kind, initialized, bucket, template, objects>>
  BY <1>1, RestartDoes DEF config, awsVars
<1>3. Owned'
  BY <1>2 DEF SweptInv, Owned
<1>4. ASSUME Undisturbed' PROVE Accounted' /\ Packaged' /\ Over'
  <2>1. Undisturbed /\ ~KnowsMore
    BY <1>2, <1>4 DEF Undisturbed
  <2>2. /\ Accounted /\ Packaged /\ Over
        /\ \A t \in Threads : frame[t].pc \notin Submitting
    BY <1>1, <2>1, MiddleOfSubmit DEF SweptInv, KnowsMore
  <2>3. /\ owns_bucket' = owns_bucket
        /\ \A j \in Jobs : /\ resources'[j].code = resources[j].code
                           /\ resources'[j].fleet = resources[j].fleet
                           /\ resources'[j].template = resources[j].template
    BY <1>2, <2>1 DEF KnowsMore, Names
  <2>4. objects \subseteq Jobs
    BY <1>1, TypeParts DEF AwsOK
  <2>5. Accounted'
    BY <1>2, <2>2, <2>3 DEF Accounted, Submitting
  <2>6. Packaged'
    BY <1>2, <2>2, <2>3, <2>4 DEF Packaged, Submitting
  <2>7. Over'
    BY <1>2, IdleFrame DEF Over
  <2>8. QED
    BY <2>5, <2>6, <2>7
<1>5. QED
  BY <1>3, <1>4

\* Every step keeps the invariant.
LEMMA SweptStep ==
  ASSUME SweptInv, [Next]_vars
  PROVE  SweptInv'
<1>1. ReleaseInv' /\ ((Effects /\ ThingEffects) \/ Restart)
  BY ReleaseStep, StepEffects, StepThings DEF SweptInv, ReleaseInv, NameInv
<1>2. NameInv' /\ BookInv'
  BY <1>1 DEF ReleaseInv, NameInv
<1>3. CASE Effects /\ ThingEffects
  BY <1>1, <1>2, <1>3, OwnedKept, AccountedKept, PackagedKept, OverKept DEF SweptInv
<1>4. CASE Restart
  BY <1>1, <1>4, RestartAccounts DEF SweptInv
<1>5. QED
  BY <1>1, <1>3, <1>4

\* It holds at the start, where nothing exists.
LEMMA SweptInitially ==
  ASSUME Init
  PROVE  SweptInv
<1>1. ReleaseInv
  BY ReleasedInitially
<1>2. Owned
  BY DEF Init, Constructed, Owned
<1>3. Accounted /\ Packaged /\ Over
  BY IdleFrame DEF Init, Accounted, Packaged, Over
<1>4. QED
  BY <1>1, <1>2, <1>3 DEF SweptInv

\* Once the mode is shut down nothing of what it created stands: no stack, no fleet
\* with instances, no launch template, no bucket of its own, and -- unless a stack
\* could not be created -- no package in a bucket of the caller's.  Excepted is what
\* may leave something running for a released job.
THEOREM ShutdownIsComplete == Spec => []ShutdownLeavesNothing
<1>1. SweptInv => ShutdownLeavesNothing
  <2> SUFFICES ASSUME SweptInv, ~initialized, Undisturbed
               PROVE  /\ \A k \in Stacks : stack[k].state \notin Standing
                      /\ \A j \in Jobs : ~(fleet[j] = "active" /\ work[j] \in Live)
                      /\ template = NoJob
                      /\ ~bucket
                      /\ Unless({"taken", "refused"}, objects = {})
    BY DEF ShutdownLeavesNothing, Unless, Undisturbed
  <2>1. /\ Held /\ Accounted /\ Packaged /\ ~bucket
        /\ \A t \in Threads : frame[t].pc \notin Submitting
    BY DEF SweptInv, ReleaseInv, Over
  <2>2. \A j \in Jobs : ~resources[j].stack /\ ~resources[j].fleet /\ ~resources[j].code
    BY DEF SweptInv, Over, ReleaseInv, NameInv, BookInv, Kinded, RecordKinds, Tracked
  <2>3. \A k \in Stacks : stack[k].state \notin Standing
    BY <2>1, <2>2 DEF Held, SweptInv, ReleaseInv, NameInv, Sited, Standing
  <2>4. \A j \in Jobs : ~(fleet[j] = "active" /\ work[j] \in Live)
    BY <2>1, <2>2 DEF Held
  <2>5. template = NoJob
    BY <2>1, <2>2 DEF Accounted, Submitting
  <2>6. objects \subseteq Jobs
    BY TypeParts DEF SweptInv, ReleaseInv, NameInv, BookInv, AwsOK
  <2>7. Unless({"taken", "refused"}, objects = {})
    BY <2>1, <2>2, <2>6 DEF Unless, Packaged, Submitting
  <2>8. QED
    BY <2>1, <2>3, <2>4, <2>5, <2>7
<1>2. QED
  BY <1>1, SweptInitially, SweptStep, PTL DEF Spec

-----------------------------------------------------------------------------
(* A job reported as completed has run.                                    *)

\* Nothing has happened that makes an answer wrong.
Truthful ==
  happened \cap {"reclaim", "describe", "late_answer", "late_submit", "stale"} = {}

\* The job ran, or the provider has settled it.
Done(j) == j \in ran \/ reported[j] \in Terminal \cup {"collected"}

\* What runs the job is there.
Runs(j) ==
  \/ kind[j] = "lambda"
  \/ kind[j] = "fleet" /\ fleet[j] = "active" /\ work[j] \in Live
  \/ kind[j] = "ecs" /\ stack["ecs"].job = j /\ stack["ecs"].state \in Standing

Named(r) == r.stack \/ r.fleet

\* A submitted job that is not over is run by something, ...
Running ==
  /\ \A j \in Jobs : submits[j] = "accepted" => Done(j) \/ Runs(j)
  /\ \A t \in Threads : frame[t].pc = "save" =>
       (Done(frame[t].job) \/ Runs(frame[t].job)) /\ Named(resources[frame[t].job])
  /\ stack["ecs"].state = "complete" =>
       work[stack["ecs"].job] \in Live \/ stack["ecs"].job \in ran

\* ... the records of the jobs that the provider knows name it, so that a shutdown
\* settles them all, ...
Settling ==
  /\ \A j \in Recorded : Named(mode_store.resources[j])
  /\ \A t \in Threads : frame[t].shutdown => Recorded \subseteq {j \in Jobs : reported[j] \in Terminal}
  /\ \A t \in Threads : frame[t].pc \in {"clear", "sweep"} => Recorded = {}

\* ... and only such jobs are said to be complete.
Believed ==
  \A j \in Jobs : kind[j] # "lambda" =>
    /\ resources[j].status = "COMPLETED" => Done(j)
    /\ mode_store.resources[j].status = "COMPLETED" => Done(j)
    /\ \A t \in Threads : frame[t].answers[j] \in {"COMPLETED", "GONE"} => Done(j)
    /\ reported[j] = "COMPLETED" => j \in ran

TrueInv ==
  /\ NameInv
  /\ Truthful => Running /\ Settling /\ Believed

\* A job that the provider settled, or that ran, stays so.
LEMMA StaysDone ==
  ASSUME NameInv, Effects, Truthful', Settling, NEW j \in Jobs, Done(j)
  PROVE  Done(j)'
<1>1. BooksAgree /\ ReportEffects(j) /\ ran \subseteq ran'
  BY DEF NameInv, BookInv, Effects
<1>2. CASE j \in ran
  BY <1>1, <1>2 DEF Done
<1>3. CASE reported[j] \in Terminal \cup {"collected"}
  <2>1. reported[j] # "none" /\ submits[j] = "accepted"
    BY <1>1, <1>3 DEF BooksAgree, Terminal
  <2>2. CASE Cancelled(j)
    <3>1. resources[j].stack \/ resources[j].fleet
      BY <2>2 DEF Cancelled, Settling, Named, NameInv, Covered
    <3>2. QED
      BY <2>2, <3>1 DEF Cancelled, Done, Terminal
  <2>3. CASE Heard(j)
    BY <1>3, <2>3 DEF Heard, Truthful, Recorded
  <2>4. QED
    BY <1>1, <1>3, <2>1, <2>2, <2>3 DEF ReportEffects, Begun, Ended, Collected, Done
<1>4. QED
  BY <1>2, <1>3 DEF Done

\* A job whose record is given up is settled, when it was accepted or is about to be.
LEMMA LetGoSettles ==
  ASSUME NameInv, Effects, Truthful', Settling, NEW j \in Jobs,
         submits[j] = "accepted" \/ \E t \in Threads : frame[t].pc = "save" /\ frame[t].job = j,
         LetGo(j) \/ \E t \in Threads : frame[t].pc = "sweep"
  PROVE  Done(j)'
<1>1. TypeOK /\ Placed /\ FramesSound /\ Apart /\ BooksAgree /\ Ordered
  BY DEF NameInv, BookInv
<1>2. \A t \in Threads : frame[t].pc = "undo" => frame[t].job # j
  BY <1>1 DEF FramesSound, Sound, Apart, Submitting
<1>3. ASSUME NEW t \in Threads, frame[t].pc \in {"clear", "sweep"},
             InMiddleOfSubmit => "late_submit" \in happened'
      PROVE  Done(j)'
  <2>1. submits[j] = "accepted"
    BY <1>1, <1>3, MiddleOfSubmit DEF Truthful, Submitting
  <2>2. reported[j] = "collected"
    BY <1>1, <1>3, <2>1 DEF Settling, Recorded, BooksAgree
  <2>3. QED
    BY <2>2, StaysDone DEF Done
<1>4. ASSUME NEW t \in Threads, frame[t].pc = "sweep" PROVE Done(j)'
  <2>1. ~InMiddleOfSubmit
    BY <1>1, <1>4, MiddleOfSubmit DEF FramesSound, Sound, Ordered, Truthful, Effects
  <2>2. QED
    BY <1>3, <1>4, <2>1
<1>5. ASSUME j \in Recorded, reported'[j] \in Terminal \cup {"collected"} PROVE Done(j)'
  BY <1>5 DEF Done
<1>6. QED
  BY <1>2, <1>3, <1>4, <1>5 DEF LetGo

\* What runs a job goes on, until the job is over.
LEMMA StaysRunning ==
  ASSUME NameInv, Effects, Truthful', Settling, NEW j \in Jobs,
         submits[j] = "accepted" \/ \E t \in Threads : frame[t].pc = "save" /\ frame[t].job = j,
         Done(j) \/ Runs(j)
  PROVE  Done(j)' \/ Runs(j)'
<1>1. TypeOK /\ Placed /\ FramesSound /\ Apart
  BY DEF NameInv, BookInv
<1>2. /\ FleetEffects(j) /\ StackEffects("ecs") /\ kind' = kind
      /\ "stale" \notin happened /\ "reclaim" \notin happened'
      /\ work[j] # "warned"
  BY DEF Effects, Truthful, Stacks, NameInv, Sited
<1>3. \A t \in Threads : frame[t].pc \in {"undo", "unfilled", "fleet", "stack"} => frame[t].job # j
  BY <1>1 DEF FramesSound, Sound, Apart, Submitting
<1>4. CASE Done(j)
  BY <1>4, StaysDone
<1>5. CASE kind[j] = "fleet" /\ fleet[j] = "active" /\ work[j] \in Live
  <2>1. CASE FleetMoves(j) /\ WorkMoves(j)
    <3>1. \A k \in Stacks : stack[k].state = "deleting" => stack[k].job # j
      BY <1>5 DEF NameInv, Sited, Stacks
    <3>2. fleet'[j] = "active"
      BY <1>5, <2>1 DEF FleetMoves
    <3>3. work'[j] \in Live \/ j \in ran'
      BY <1>2, <1>5, <2>1, <3>1 DEF WorkMoves, Live
    <3>4. QED
      BY <1>2, <1>5, <3>2, <3>3 DEF Runs, Done
  <2>2. CASE LetGo(j) \/ \E t \in Threads : frame[t].pc = "sweep"
    BY <2>2, LetGoSettles
  <2>3. QED
    BY <1>2, <1>3, <2>1, <2>2 DEF FleetEffects, FleetCreated
<1>6. CASE kind[j] = "ecs" /\ stack["ecs"].job = j /\ stack["ecs"].state \in Standing
  <2>1. CASE StackMoves("ecs")
    BY <1>2, <1>6, <2>1 DEF StackMoves, Standing, Runs
  <2>2. ASSUME NEW i \in Jobs, resources[i].stack, kind[i] = "ecs", LetGo(i)
        PROVE  Done(j)'
    <3>1. i = j
      BY <1>2, <1>6, <2>2 DEF NameInv, OneHolder, Standing
    <3>2. QED
      BY <2>2, <3>1, LetGoSettles
  <2>3. QED
    BY <1>2, <1>6, <2>1, <2>2 DEF StackEffects, StackCreated, Standing
<1>7. CASE kind[j] = "lambda"
  BY <1>2, <1>7 DEF Runs
<1>8. QED
  BY <1>4, <1>5, <1>6, <1>7 DEF Runs

\* The job of a submission keeps the names it has until the submission ends.
LEMMA SubmissionStaysNamed ==
  ASSUME NameInv, Effects, Truthful', NEW t \in Threads, frame[t].pc = "save",
         Named(resources[frame[t].job])
  PROVE  Named(resources'[frame[t].job])
<1>1. TypeOK /\ Placed /\ FramesSound /\ Apart /\ BooksAgree
  BY DEF NameInv, BookInv
<1>2. PICK j \in Jobs : j = frame[t].job
  BY <1>1 DEF Placed, Submitting
<1>3. submits[j] = "called" /\ j \notin Recorded /\ RecordEffects(j)
  BY <1>1, <1>2 DEF FramesSound, Sound, Submitting, BooksAgree, Recorded, Effects
<1>4. InMiddleOfSubmit
  BY <1>1, MiddleOfSubmit DEF Submitting
<1>5. \A u \in Threads : frame[u].pc = "undo" => frame[u].job # j
  BY <1>1, <1>2 DEF Apart, Submitting
<1>6. ~LetGo(j)
  BY <1>3, <1>4, <1>5 DEF LetGo, Truthful
<1>7. Named(resources'[j])
  BY <1>2, <1>3, <1>6 DEF RecordEffects, Begun, Noted, Restated, Dropped, SameNames, Named
<1>8. QED
  BY <1>2, <1>7

\* Every step but a restart keeps what a submitted job is run by.
LEMMA RunningKept ==
  ASSUME NameInv, Effects, NameInv', Truthful', Running, Settling
  PROVE  Running'
<1>1. TypeOK /\ Placed /\ FramesSound /\ Apart /\ BooksAgree
  BY DEF NameInv, BookInv
<1>2. ASSUME NEW j \in Jobs, submits'[j] = "accepted" PROVE Done(j)' \/ Runs(j)'
  <2>1. CASE submits[j] = "accepted"
    BY <2>1, StaysRunning DEF Running
  <2>2. CASE Ended(j)
    <3>1. PICK t \in Threads : frame[t].pc = "save" /\ frame[t].job = j
      BY <1>2, <2>2 DEF Ended
    <3>2. QED
      BY <3>1, StaysRunning DEF Running
  <2>3. ReportEffects(j)
    BY DEF Effects
  <2>4. QED
    BY <1>2, <2>1, <2>2, <2>3 DEF ReportEffects, Begun, Heard, Cancelled, Collected
<1>3. ASSUME NEW t \in Threads, frame'[t].pc = "save"
      PROVE  (Done(frame[t].job) \/ Runs(frame[t].job))' /\ Named(resources[frame[t].job])'
  <2>1. PICK j \in Jobs : j = frame'[t].job
    BY <1>3 DEF NameInv, BookInv, Placed, Submitting
  <2>2. CASE frame'[t] = frame[t]
    <3>1. frame[t].pc = "save" /\ frame[t].job = j
      BY <1>3, <2>1, <2>2
    <3>2. (Done(j) \/ Runs(j)) /\ Named(resources[j])
      BY <3>1 DEF Running
    <3>3. Done(j)' \/ Runs(j)'
      BY <3>1, <3>2, StaysRunning
    <3>4. Named(resources'[j])
      BY <3>1, <3>2, SubmissionStaysNamed
    <3>5. QED
      BY <2>1, <3>3, <3>4 DEF Done, Runs, Named
  <2>3. CASE Built(j)
    <3>1. Named(resources'[j])
      BY <2>3 DEF Built, Named
    <3>2. Runs(j)'
      BY <2>3 DEF Built, Runs, Effects, Stacks, Standing, Live
    <3>3. QED
      BY <2>1, <3>1, <3>2 DEF Runs, Named
  <2>4. QED
    BY <1>3, <2>1, <2>2, <2>3 DEF Effects, FrameEffects
<1>4. ASSUME stack'["ecs"].state = "complete"
      PROVE  work'[stack'["ecs"].job] \in Live \/ stack'["ecs"].job \in ran'
  <2>1. /\ StackEffects("ecs") /\ ran \subseteq ran'
        /\ "stale" \notin happened /\ "reclaim" \notin happened'
    BY DEF Effects, Truthful, Stacks
  <2>2. PICK j \in Jobs : j = stack'["ecs"].job /\ kind'[j] = "ecs"
    BY <1>4 DEF NameInv, Sited, Stacks
  <2>3. \A t \in Threads : ~StackCreated(t, "ecs")
    BY <1>4 DEF StackCreated
  <2>4. StackMoves("ecs")
    BY <1>4, <2>1, <2>3 DEF StackEffects
  <2>5. stack["ecs"].state \in {"creating", "complete"} /\ stack["ecs"].job = j
    BY <1>4, <2>2, <2>4 DEF StackMoves, NoStack
  <2>6. CASE stack["ecs"].state = "creating"
    BY <1>4, <2>2, <2>4, <2>6, <2>5 DEF StackMoves, NoStack, Live
  <2>7. CASE stack["ecs"].state = "complete"
    <3>1. work[j] \in Live \/ j \in ran
      BY <2>7, <2>5 DEF Running
    <3>2. /\ FleetEffects(j) /\ kind[j] = "ecs" /\ fleet[j] = "none" /\ work[j] # "warned"
      BY <2>1, <2>2 DEF Effects, Truthful, NameInv, Sited
    <3>3. \A t \in Threads : frame[t].pc = "fleet" => frame[t].job # j
      BY <1>1, <3>2 DEF FramesSound, Sound
    <3>4. WorkMoves(j)
      BY <3>2, <3>3 DEF FleetEffects, FleetCreated
    <3>5. \A k \in Stacks : stack[k].state = "deleting" => stack[k].job # j
      BY <2>7, <2>5, <3>2 DEF NameInv, Sited, Stacks
    <3>6. work'[j] \in Live \/ j \in ran'
      BY <2>1, <3>1, <3>2, <3>4, <3>5 DEF WorkMoves, Live
    <3>7. QED
      BY <2>2, <3>6
  <2>8. QED
    BY <2>6, <2>7, <2>5
<1>5. QED
  BY <1>2, <1>3, <1>4 DEF Running

\* A job comes to be known when its submission ends with success.
LEMMA KnownBySave ==
  ASSUME NameInv, Effects, NEW j \in Jobs, j \in Recorded', j \notin Recorded
  PROVE  \E t \in Threads : /\ frame[t].pc = "save" /\ frame[t].job = j
                            /\ mode_store'.resources = resources
BY DEF Effects, ReportEffects, Begun, Heard, Cancelled, Collected, Ended, Recorded

\* Every step but a restart keeps what a shutdown relies on.
LEMMA SettlingKept ==
  ASSUME NameInv, Effects, NameInv', Truthful', Running, Settling
  PROVE  Settling'
<1>1. TypeOK /\ Placed /\ FramesSound /\ Apart /\ BooksAgree /\ Ordered /\ FramesSound'
  BY DEF NameInv, BookInv
<1>2. \A j \in Recorded : Named(resources[j])
  BY DEF Settling, Named, NameInv, Covered, Recorded
<1>3. ASSUME NEW j \in Jobs, j \in Recorded' PROVE Named(mode_store'.resources[j])
  <2>1. CASE j \in Recorded
    <3>1. Named(mode_store.resources[j]) /\ Named(resources[j]) /\ RecordEffects(j) /\ StoreEffects
      BY <1>2, <2>1 DEF Settling, Effects
    <3>2. ~Dropped(j)
      BY <1>3, <2>1 DEF Dropped, Settling, Recorded
    <3>3. Named(resources'[j])
      BY <3>1, <3>2 DEF RecordEffects, Begun, Noted, Restated, SameNames, Named
    <3>4. QED
      BY <3>1, <3>3 DEF StoreEffects
  <2>2. CASE j \notin Recorded
    BY <1>3, <2>2, KnownBySave DEF Running
  <2>3. QED
    BY <2>1, <2>2
<1>4. ASSUME NEW j \in Jobs, j \in Recorded, j \in Recorded', reported[j] \in Terminal
      PROVE  reported'[j] \in Terminal
  <2>1. ReportEffects(j) /\ submits[j] = "accepted"
    BY <1>1, <1>4 DEF Effects, BooksAgree, Recorded
  <2>2. ~Heard(j) /\ ~Ended(j)
    BY <1>4, <2>1 DEF Heard, Ended, Truthful
  <2>3. Cancelled(j) => reported'[j] \in Terminal
    BY <1>2, <1>4 DEF Cancelled, Named, Terminal
  <2>4. QED
    BY <1>4, <2>1, <2>2, <2>3 DEF ReportEffects, Collected, Recorded
<1>5. ASSUME NEW t \in Threads, frame'[t].shutdown, NEW j \in Jobs, j \in Recorded'
      PROVE  reported'[j] \in Terminal
  <2>1. FrameEffects(t)
    BY DEF Effects
  <2>2. CASE frame[t].shutdown
    <3>1. \A u \in Threads : frame[u].pc # "save"
      BY <1>1, <2>2 DEF Ordered, Truthful, Effects, Submitting
    <3>2. j \in Recorded
      BY <1>5, <3>1, KnownBySave
    <3>3. QED
      BY <1>4, <1>5, <2>2, <3>2 DEF Settling
  <2>3. CASE ShutsDown(t)
    <3>1. \A u \in Threads : frame[u].pc # "save"
      BY <1>1, <2>3, MiddleOfSubmit DEF ShutsDown, Truthful, Submitting
    <3>2. j \in Recorded
      BY <1>5, <3>1, KnownBySave
    <3>3. QED
      BY <1>2, <2>3, <3>2 DEF ShutsDown, Cancelled, Named, Terminal
  <2>4. QED
    BY <1>5, <2>1, <2>2, <2>3 DEF FrameEffects
<1>6. ASSUME NEW t \in Threads, frame'[t].pc \in {"clear", "sweep"}, NEW j \in Jobs, j \in Recorded'
      PROVE  FALSE
  <2>1. frame'[t].shutdown /\ FrameEffects(t)
    BY <1>1, <1>6 DEF FramesSound, Sound, Effects
  <2>2. frame[t].shutdown
    BY <1>6, <2>1 DEF FrameEffects, ShutsDown
  <2>3. \A u \in Threads : frame[u].pc # "save"
    BY <1>1, <2>2 DEF Ordered, Truthful, Effects, Submitting
  <2>4. j \in Recorded
    BY <1>6, <2>3, KnownBySave
  <2>5. reported[j] \in Terminal /\ frame[t].pc \notin {"clear", "sweep"}
    BY <2>2, <2>4 DEF Settling
  <2>6. reported'[j] = "collected"
    BY <1>6, <2>1, <2>2, <2>4, <2>5 DEF FrameEffects
  <2>7. QED
    BY <1>6, <2>6 DEF Recorded
<1>7. Recorded' \subseteq Jobs
  BY DEF Recorded
<1>8. QED
  BY <1>3, <1>5, <1>6, <1>7 DEF Settling

\* What a thread may hear of an accepted job that is neither a Lambda job nor over,
\* is not that it is complete.
LEMMA HearsCompleted ==
  ASSUME NameInv, Truthful, Running, Believed, "describe" \notin happened',
         NEW j \in Jobs, kind[j] # "lambda", submits[j] = "accepted",
         NEW a \in {"COMPLETED", "GONE"}, MayHear(j, a)
  PROVE  Done(j)
<1>1. ConfigOK /\ ModeOK /\ AwsOK /\ Kinded
  BY TypeParts DEF NameInv, BookInv
<1>2. Done(j) \/ Runs(j)
  BY DEF Running
<1>3. CASE a = resources[j].status
  <2>1. a = "COMPLETED"
    BY <1>1, <1>3 DEF ModeOK, Record, Status, Absent
  <2>2. QED
    BY <1>3, <2>1 DEF Believed
<1>4. CASE resources[j].fleet /\ a = FleetAnswer(j)
  <2>1. kind[j] = "fleet"
    BY <1>1, <1>4 DEF Kinded, RecordKinds
  <2>2. fleet[j] # "active" \/ work[j] \notin Live
    BY <1>4 DEF FleetAnswer
  <2>3. QED
    BY <1>2, <2>1, <2>2 DEF Runs
<1>5. CASE resources[j].stack /\ a \in StackAnswers(j)
  <2>1. kind[j] = "ecs"
    BY <1>1, <1>5 DEF Kinded, RecordKinds, Stacks
  <2>2. stack["ecs"].state \in {"none", "creating", "rollback", "delete_failed", "deleting", "complete"}
    BY <1>1 DEF AwsOK, Stack, Standing, Stacks
  <2>3. CASE stack["ecs"].state = "none"
    BY <1>2, <2>1, <2>3 DEF Runs, Standing
  <2>4. CASE stack["ecs"].state = "complete"
    <3>1. stack["ecs"].job = j
      BY <1>5, <2>1, <2>4 DEF NameInv, OneHolder, Truthful
    <3>2. a \in EcsAnswers(j)
      BY <1>5, <2>1, <2>4, <3>1 DEF StackAnswers
    <3>3. work[j] \notin Live
      BY <3>2 DEF EcsAnswers
    <3>4. QED
      BY <2>4, <3>1, <3>3 DEF Running, Done
  <2>5. QED
    BY <1>5, <2>1, <2>2, <2>3, <2>4 DEF StackAnswers
<1>6. QED
  BY <1>3, <1>4, <1>5 DEF MayHear

\* Every step but a restart keeps that what is said to be complete is.
LEMMA BelievedKept ==
  ASSUME NameInv, Effects, Truthful', Running, Settling, Believed
  PROVE  Believed'
<1>1. Truthful /\ kind' = kind /\ "describe" \notin happened' /\ "late_answer" \notin happened'
  BY DEF Effects, Truthful
<1>2. ASSUME NEW j \in Jobs, kind'[j] # "lambda"
      PROVE  /\ resources'[j].status = "COMPLETED" => Done(j)'
             /\ mode_store'.resources[j].status = "COMPLETED" => Done(j)'
             /\ \A t \in Threads : frame'[t].answers[j] \in {"COMPLETED", "GONE"} => Done(j)'
             /\ reported'[j] = "COMPLETED" => j \in ran'
  <2>1. /\ kind[j] # "lambda" /\ RecordEffects(j) /\ StoreEffects /\ ReportEffects(j)
        /\ ran \subseteq ran'
        /\ Done(j) => Done(j)'
    BY <1>1, <1>2, StaysDone DEF Effects
  <2>2. \A t \in Threads : frame[t].answers[j] \in {"COMPLETED", "GONE"} => Done(j)
    BY <2>1 DEF Believed
  <2>3. ASSUME NEW a, Meaning(a) = "COMPLETED" PROVE a \in {"COMPLETED", "GONE"}
    BY <2>3 DEF Meaning
  <2>4. ASSUME resources'[j].status = "COMPLETED" PROVE Done(j)'
    <3>1. CASE resources[j].status = "COMPLETED"
      BY <2>1, <3>1 DEF Believed
    <3>2. CASE Restated(j)
      <4>1. PICK t \in Threads : Meaning(frame[t].answers[j]) = "COMPLETED"
        BY <2>4, <3>2 DEF Restated
      <4>2. QED
        BY <2>1, <2>2, <2>3, <4>1
    <3>3. QED
      BY <2>1, <2>4, <3>1, <3>2, NoRecords DEF RecordEffects, Begun, Noted, Dropped, Absent
  <2>5. ASSUME mode_store'.resources[j].status = "COMPLETED" PROVE Done(j)'
    <3>1. CASE mode_store' = mode_store
      BY <2>1, <2>5, <3>1 DEF Believed
    <3>2. CASE mode_store'.resources = resources'
      BY <2>4, <2>5, <3>2
    <3>3. QED
      BY <2>1, <3>1, <3>2 DEF StoreEffects
  <2>6. ASSUME NEW t \in Threads, frame'[t].answers[j] \in {"COMPLETED", "GONE"} PROVE Done(j)'
    <3>1. CASE frame'[t].answers[j] = frame[t].answers[j]
      BY <2>1, <2>2, <2>6, <3>1
    <3>2. CASE submits[j] = "accepted" /\ MayHear(j, frame'[t].answers[j])
      BY <1>1, <2>1, <2>6, <3>2, HearsCompleted
    <3>3. QED
      BY <2>6, <3>1, <3>2 DEF Effects, FrameEffects, Absent
  <2>7. ASSUME reported'[j] = "COMPLETED" PROVE j \in ran'
    <3>1. CASE reported[j] = "COMPLETED"
      BY <2>1, <3>1 DEF Believed
    <3>2. CASE Heard(j)
      <4>1. PICK t \in Threads : Meaning(frame[t].answers[j]) = "COMPLETED"
        BY <2>7, <3>2 DEF Heard
      <4>2. Done(j)
        BY <2>2, <2>3, <4>1
      <4>3. QED
        BY <1>1, <2>1, <3>2, <4>2 DEF Heard, Done, Recorded
    <3>3. QED
      BY <2>1, <2>7, <3>1, <3>2 DEF ReportEffects, Ended, Cancelled, Collected
  <2>8. QED
    BY <2>4, <2>5, <2>6, <2>7
<1>3. QED
  BY <1>2 DEF Believed

\* So does a restart, which takes up what the document says.
LEMMA RestartBelieves ==
  ASSUME TrueInv, Restart, Truthful'
  PROVE  Running' /\ Settling' /\ Believed'
<1>1. TypeOK
  BY DEF TrueInv, NameInv, BookInv
<1>2. /\ resources' = mode_store.resources /\ mode_store' = mode_store
      /\ \A t \in Threads : frame'[t] = Idle
      /\ \A j \in Jobs : submits'[j] = IF submits[j] = "called" THEN "raised" ELSE submits[j]
      /\ happened \subseteq happened'
      /\ UNCHANGED <<kind, stack, fleet, work, ran, reported>>
  BY <1>1, RestartDoes DEF config, awsVars, workVars
<1>3. Running /\ Settling /\ Believed
  BY <1>2 DEF TrueInv, Truthful
<1>4. \A j \in Jobs : (Done(j)' <=> Done(j)) /\ (Runs(j)' <=> Runs(j))
  BY <1>2 DEF Done, Runs
<1>5. Running'
  BY <1>2, <1>3, <1>4, IdleFrame DEF Running
<1>6. Settling'
  BY <1>2, <1>3, IdleFrame DEF Settling, Recorded
<1>7. Believed'
  BY <1>2, <1>3, <1>4, IdleFrame DEF Believed, Absent
<1>8. QED
  BY <1>5, <1>6, <1>7

\* Every step keeps the invariant.
LEMMA TrueStep ==
  ASSUME TrueInv, [Next]_vars
  PROVE  TrueInv'
<1>1. NameInv' /\ (Effects \/ Restart)
  BY NameStep, StepEffects DEF TrueInv, NameInv
<1>2. CASE Effects /\ Truthful'
  <2>1. NameInv /\ Running /\ Settling /\ Believed
    BY <1>2 DEF TrueInv, Effects, Truthful
  <2>2. Running' /\ Settling' /\ Believed'
    BY <1>1, <1>2, <2>1, RunningKept, SettlingKept, BelievedKept
  <2>3. QED
    BY <1>1, <2>2 DEF TrueInv
<1>3. CASE Restart
  BY <1>1, <1>3, RestartBelieves DEF TrueInv
<1>4. QED
  BY <1>1, <1>2, <1>3 DEF TrueInv

\* It holds at the start, where nobody knows of any job.
LEMMA TrueInitially ==
  ASSUME Init
  PROVE  TrueInv
<1>1. NameInv
  BY NamesInitially
<1>2. Running
  BY IdleFrame DEF Init, Running, NoStack, Stacks
<1>3. Settling
  BY IdleFrame DEF Init, Settling, Recorded
<1>4. Believed
  <2>1. \A j \in Jobs : resources[j].status = Absent /\ mode_store.resources[j].status = Absent
    BY NoRecords DEF Init, Constructed
  <2>2. QED
    BY <2>1, IdleFrame DEF Init, Believed, Absent
<1>5. QED
  BY <1>1, <1>2, <1>3, <1>4 DEF TrueInv

\* A job of a fleet or of an ECS service that is reported as completed has run its
\* command to the end, whatever stack or fleet the answer was taken from and however
\* often the process dies -- unless AWS reclaims capacity, a call that asks for a
\* status fails, an answer is recorded for a job that is settled by then, a
\* submission overtakes a shutdown, or a stack is created under a name that an older
\* job's record still has.
THEOREM CompletionIsTrue == Spec => []NoFalseCompletion
<1>1. TrueInv => NoFalseCompletion
  BY DEF TrueInv, Truthful, Believed, NoFalseCompletion, Unless
<1>2. QED
  BY <1>1, TrueInitially, TrueStep, PTL DEF Spec

=============================================================================
