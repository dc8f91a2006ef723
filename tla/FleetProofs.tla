---------------------------- MODULE FleetProofs -----------------------------
(***************************************************************************)
(* Blocks on EC2 Fleets: the safety properties of FleetMode for any number *)
(* of threads, jobs, fleets, nodes and failures.                           *)
(***************************************************************************)
EXTENDS FleetMode, FiniteSetTheorems, TLAPS

\* The parts of the type invariant.
BooksOK ==
  /\ blocks \in [Fleets -> Block]
  /\ fleet_requests \in SUBSET Fleets
  /\ launch_templates \in SUBSET Fleets
  /\ worker_init \in Jobs \cup {NoJob}

Ec2OK ==
  /\ fleet \in [Fleets -> {"none", "active", "deleted", "forgotten"}]
  /\ node \in [Fleets -> [Nodes -> NodeStates]]
  /\ templates \in SUBSET Fleets
  /\ user_data \in [Fleets -> Jobs \cup {NoJob}]

EventsOK ==
  /\ happened \in SUBSET (Events \cup ScheduleKinds)
  /\ events \in Nat

Frame == [pc : Labels, job : Jobs \cup {NoJob}, fleet : SUBSET Fleets,
          todo : SUBSET Fleets, answer : Status \cup {Absent}]

ModeOK ==
  /\ resources \in [Fleets -> Record]
  /\ initialized \in BOOLEAN
  /\ mode_store \in Document

CallsOK ==
  /\ reported \in [Fleets -> Status \cup {"none", "collected"}]
  /\ submits \in [Jobs -> {"none", "called", "accepted", "raised"}]
  /\ frame \in [Threads -> Frame]

-----------------------------------------------------------------------------
(* The inductive invariant: what threads, books, document and EC2 agree on *)
(* whatever goes wrong.                                                    *)

\* Where submit_job() holds a fleet of its own in frame[t].fleet.
Launching == {"fleet", "wait", "discard", "register", "track"}

\* A status that says the block ended is true.
StatusSound(f, s) ==
  /\ s # "INTERRUPTED"
  /\ s = "CANCELED" => LiveNodes(f) = {}
  /\ s = "COMPLETED" /\ "forget" \notin happened => LiveNodes(f) = {}

\* A block knows all the instances that live, and its noted status is sound.
BlockSound(f, b) == b.status # Absent => LiveNodes(f) \subseteq b.ids /\ StatusSound(f, b.status)

\* A launching thread holds one fleet, which no record names; the poll holds
\* fleets the provider has been given, and the answer for one of them.
Sound(r) ==
  /\ r.pc \in Launching \cup {"write"} => \E f \in Fleets : r.fleet = {f}
  /\ r.pc \in Launching => \A f \in r.fleet : /\ fleet[f] = "none" <=> r.pc = "fleet"
                                              /\ r.pc # "fleet" => HasBlock(f)
                                              /\ reported[f] = "none"
                                              /\ ~Tracked(f)
  /\ r.pc \notin Launching => r.fleet \subseteq r.todo
  /\ \A f \in r.todo : reported[f] # "none"
  /\ r.todo # {} => r.pc \in {"describe", "write"}
  /\ r.pc = "write" => r.answer # Absent /\ \A f \in r.fleet : StatusSound(f, r.answer)

FramesSound == \A t \in Threads : Sound(frame[t])

\* No two threads launch the same fleet.
Apart ==
  \A t, u \in Threads : t # u /\ frame[t].pc \in Launching /\ frame[u].pc \in Launching =>
    frame[t].fleet \cap frame[u].fleet = {}

\* A fleet never created is in no book; one deleted has no instance; the document
\* tracks what the mode tracks, for the same job; and a tracked block has a record
\* of its instances in both.
FleetSound(f) ==
  /\ fleet[f] = "none" => /\ ~HasBlock(f) /\ mode_store.blocks[f].status = Absent
                          /\ LiveNodes(f) = {} /\ reported[f] = "none" /\ ~Tracked(f)
  /\ fleet[f] \in {"deleted", "forgotten"} => LiveNodes(f) = {}
  /\ mode_store.resources[f].status # Absent <=> Tracked(f)
  /\ mode_store.resources[f].job = resources[f].job
  /\ Tracked(f) => HasBlock(f) /\ mode_store.blocks[f].status # Absent /\ reported[f] # "none"
  /\ BlockSound(f, blocks[f])
  /\ BlockSound(f, mode_store.blocks[f])
  /\ "forget" \notin happened => \A n \in Nodes : node[f][n] # "gone"

FleetsSound == \A f \in Fleets : FleetSound(f)

BookInv == TypeOK /\ FramesSound /\ Apart /\ FleetsSound

-----------------------------------------------------------------------------
(* What the operators of the model return, and preserve.                   *)

\* The type invariant is made of its parts.
LEMMA TypeParts ==
  /\ TypeOK <=> BooksOK /\ Ec2OK /\ EventsOK /\ MonitorTypeOK /\ ModeOK /\ CallsOK
  /\ TypeOK' <=> BooksOK' /\ Ec2OK' /\ EventsOK' /\ MonitorTypeOK' /\ ModeOK' /\ CallsOK'
BY DEF TypeOK, ManagerTypeOK, BooksOK, Ec2OK, EventsOK, ModeOK, CallsOK, Frame

\* There are finitely many kinds of event.
LEMMA FiniteEvents == IsFiniteSet(EventKinds)
<1>1. EventKinds = {} \cup {"template"} \cup {"refused"} \cup {"lost"} \cup {"capacity"}
                     \cup {"slow"} \cup {"describe"} \cup {"delete"} \cup {"keep_template"}
                     \cup {"forget"} \cup {"forget_fleet"} \cup {"reclaim"} \cup {"late_stop"}
                     \cup {"crash"}
  BY DEF EventKinds
<1>2. \A S : \A x : IsFiniteSet(S) => IsFiniteSet(S \cup {x})
  BY FS_AddElement
<1>3. QED
  BY <1>1, <1>2, FS_EmptySet, Zenon

\* The events of a step are counted, and noted among the known kinds.
LEMMA HappenType ==
  ASSUME EventsOK, NEW K, Happen(K)
  PROVE  EventsOK'
<1>1. IsFiniteSet(EventKinds)
  BY FiniteEvents
<1>2. IsFiniteSet(K \ ScheduleKinds)
  BY <1>1, FS_Subset, FleetAssumption DEF Happen
<1>3. Cardinality(K \ ScheduleKinds) \in Nat
  BY <1>2, FS_CardinalityType
<1>4. QED
  BY <1>3 DEF Happen, EventsOK

\* What has happened stays so.
LEMMA HappenKeeps ==
  ASSUME NEW K, Happen(K)
  PROVE  happened' = happened \cup K
BY DEF Happen

\* `No record' is a record, and not a status.
LEMMA NoRecords ==
  /\ Absent \notin Status
  /\ NoRecord \in Record
  /\ NoBlock \in Block
  /\ Idle \in Frame
  /\ \A l \in Labels : At(l) \in Frame
BY DEF Absent, Status, NoRecord, Record, NoBlock, Block, Idle, At, Frame, Labels

\* A frame at another place, with another fleet or another answer, is a frame.
LEMMA FrameAt ==
  ASSUME NEW r \in Frame, NEW l \in Labels
  PROVE  [r EXCEPT !.pc = l] \in Frame
BY DEF Frame

\* With another fleet.
LEMMA FrameOf ==
  ASSUME NEW r \in Frame, NEW l \in Labels, NEW F \in SUBSET Fleets
  PROVE  [r EXCEPT !.pc = l, !.fleet = F] \in Frame
BY DEF Frame

\* With another answer.
LEMMA FrameAnswer ==
  ASSUME NEW r \in Frame, NEW l \in Labels, NEW F \in SUBSET Fleets, NEW a \in Status
  PROVE  [r EXCEPT !.pc = l, !.fleet = F, !.answer = a] \in Frame
BY DEF Frame

\* What the frames of the model hold.
LEMMA Frames ==
  /\ \A l : At(l) = [pc |-> l, job |-> NoJob, fleet |-> {}, todo |-> {}, answer |-> Absent]
  /\ \A j : [At("template") EXCEPT !.job = j] =
              [pc |-> "template", job |-> j, fleet |-> {}, todo |-> {}, answer |-> Absent]
  /\ \A F : [At("describe") EXCEPT !.todo = F] =
              [pc |-> "describe", job |-> NoJob, fleet |-> {}, todo |-> F, answer |-> Absent]
<1> DEFINE R(l, j, F) == [pc |-> l, job |-> j, fleet |-> {}, todo |-> F, answer |-> Absent]
<1>1. ASSUME NEW r, r = Idle, NEW l
      PROVE  [r EXCEPT !.pc = l] = R(l, NoJob, {})
  BY <1>1 DEF Idle
<1>2. ASSUME NEW l
      PROVE  At(l) = R(l, NoJob, {})
  BY <1>1 DEF At
<1>3. ASSUME NEW r, NEW l, r = R(l, NoJob, {}), NEW x
      PROVE  [r EXCEPT !.job = x] = R(l, x, {}) /\ [r EXCEPT !.todo = x] = R(l, NoJob, x)
  BY <1>3
<1>4. ASSUME NEW x
      PROVE  [At("template") EXCEPT !.job = x] = R("template", x, {})
  BY <1>2, <1>3
<1>5. ASSUME NEW x
      PROVE  [At("describe") EXCEPT !.todo = x] = R("describe", NoJob, x)
  BY <1>2, <1>3
<1>6. QED
  BY <1>2, <1>4, <1>5

\* A record with another status is a record.
LEMMA RecordWith ==
  ASSUME NEW s \in Status \cup {Absent}
  PROVE  /\ \A r \in Record : [r EXCEPT !.status = s] \in Record
         /\ \A b \in Block : [b EXCEPT !.status = s] \in Block
         /\ \A j \in Jobs \cup {NoJob} : [status |-> s, job |-> j] \in Record
BY DEF Record, Block

\* A block's status, however it is found, is a status.
LEMMA BlockStatusType ==
  ASSUME NEW f
  PROVE  BlockStatus(f) \in {"PENDING", "RUNNING", "COMPLETED", "CANCELED"}
<1>1. FleetVerdict(f) \in {"COMPLETED", "CANCELED", Absent}
  BY DEF FleetVerdict
<1>2. StatusFromInstances(f) \in {"PENDING", "RUNNING", "COMPLETED"}
  BY DEF StatusFromInstances
<1>3. QED
  BY <1>1, <1>2 DEF BlockStatus, Absent

\* A block with a status noted stays a block.
LEMMA NotedType ==
  ASSUME BooksOK, NEW f \in Fleets, NEW s \in Status, blocks' = NotedStatus(f, s)
  PROVE  blocks' \in [Fleets -> Block]
BY RecordWith DEF BooksOK, NotedStatus

\* get_block_status() answers with a status.
LEMMA AnswersType ==
  ASSUME BooksOK, NEW f \in Fleets, NEW answer \in BlockAnswers(f)
  PROVE  answer \in Status
<1>1. BlockStatus(f) \in Status
  BY BlockStatusType DEF Status
<1>2. HasBlock(f) => blocks[f].status \in Status
  BY DEF HasBlock, BooksOK, Block
<1>3. QED
  BY <1>1, <1>2 DEF BlockAnswers, Status

\* A thread's frame changes, and no other thread's.
LEMMA GotoType ==
  ASSUME CallsOK, NEW t \in Threads, NEW r \in Frame, Goto(t, r)
  PROVE  /\ frame' \in [Threads -> Frame]
         /\ frame'[t] = r
         /\ \A u \in Threads : u # t => frame'[u] = frame[u]
BY DEF Goto, CallsOK

\* Deletions leave EC2 well-typed.
LEMMA DeleteType ==
  ASSUME Ec2OK, NEW F, DeleteFleets(F)
  PROVE  /\ fleet' \in [Fleets -> {"none", "active", "deleted", "forgotten"}]
         /\ node' \in [Fleets -> [Nodes -> NodeStates]]
<1>1. fleet' \in [Fleets -> {"none", "active", "deleted", "forgotten"}]
  BY DEF Ec2OK, DeleteFleets
<1>2. ASSUME NEW f \in Fleets
      PROVE  [n \in Nodes |-> IF f \in F /\ node[f][n] \in Up THEN "down" ELSE node[f][n]]
               \in [Nodes -> NodeStates]
  BY DEF Ec2OK, NodeStates
<1>3. QED
  BY <1>1, <1>2 DEF DeleteFleets

\* terminate_block() keeps the manager's books and EC2's well typed.
LEMMA TerminateType ==
  ASSUME BooksOK, Ec2OK, NEW F, NEW refused, NEW kept, TerminateBlocks(F, refused, kept)
  PROVE  BooksOK' /\ Ec2OK'
<1> DEFINE known == {f \in F : HasBlock(f)} \ refused
<1>1. blocks' \in [Fleets -> Block]
  <2>1. \A f \in Fleets : [blocks[f] EXCEPT !.status = "CANCELED"] \in Block
    BY RecordWith DEF BooksOK, Status
  <2>2. QED
    BY <2>1 DEF TerminateBlocks, BooksOK
<1>2. DeleteFleets(known) /\ DeleteLaunchTemplates(known, kept)
      /\ UNCHANGED <<fleet_requests, worker_init, user_data>>
  BY DEF TerminateBlocks
<1>3. launch_templates' \in SUBSET Fleets /\ templates' \in SUBSET Fleets
  BY <1>2 DEF DeleteLaunchTemplates, BooksOK, Ec2OK
<1>4. QED
  BY <1>1, <1>2, <1>3, DeleteType DEF BooksOK, Ec2OK

\* So does cleanup_all_resources().
LEMMA CleanupAllType ==
  ASSUME BooksOK, Ec2OK, NEW refused, NEW kept, CleanupAllResources(refused, kept)
  PROVE  BooksOK' /\ Ec2OK'
<1>1. launch_templates' \in SUBSET Fleets /\ templates' \in SUBSET Fleets
  BY DEF CleanupAllResources, DeleteLaunchTemplates, BooksOK, Ec2OK
<1>2. DeleteFleets(fleet_requests \ refused)
      /\ UNCHANGED <<blocks, fleet_requests, worker_init, user_data>>
  BY DEF CleanupAllResources
<1>3. QED
  BY <1>1, <1>2, DeleteType DEF BooksOK, Ec2OK

\* A launch brings up some of the fleet's nodes.
LEMMA LaunchedType ==
  ASSUME Ec2OK, NEW f \in Fleets, NEW N \in SUBSET Nodes, Launched(f, N)
  PROVE  /\ fleet' \in [Fleets -> {"none", "active", "deleted", "forgotten"}]
         /\ node' \in [Fleets -> [Nodes -> NodeStates]]
<1>1. [n \in Nodes |-> IF n \in N THEN "pending" ELSE "none"] \in [Nodes -> NodeStates]
  BY DEF NodeStates
<1>2. QED
  BY <1>1 DEF Launched, Ec2OK

\* save_state() writes a well-typed document.
LEMMA SaveType ==
  ASSUME resources' \in [Fleets -> Record], BooksOK', Save
  PROVE  mode_store' \in Document
BY DEF Save, Document, BooksOK

-----------------------------------------------------------------------------
(* Type correctness, action by action.                                     *)

\* The groups of variables an action leaves alone keep their types.
LEMMA Unchanged ==
  /\ BooksOK /\ UNCHANGED managerVars => BooksOK'
  /\ Ec2OK /\ UNCHANGED ec2Vars => Ec2OK'
  /\ EventsOK /\ UNCHANGED eventVars => EventsOK'
  /\ MonitorTypeOK /\ UNCHANGED monitorVars => MonitorTypeOK'
  /\ ModeOK /\ UNCHANGED modeVars => ModeOK'
  /\ CallsOK /\ UNCHANGED callVars => CallsOK'
BY DEF BooksOK, managerVars, Ec2OK, ec2Vars, EventsOK, eventVars, MonitorTypeOK, monitorVars,
       ModeOK, modeVars, CallsOK, callVars

\* submit_job() up to the tracking of the block.
LEMMA SubmitType ==
  ASSUME TypeOK, NEW t \in Threads, NEW j \in Jobs, Submit(t, j)
  PROVE  TypeOK'
<1> USE TypeParts
<1>1. EventsOK'
  BY HappenType DEF Submit
<1>2. BooksOK' /\ Ec2OK' /\ MonitorTypeOK' /\ ModeOK'
  BY Unchanged DEF Submit, SubmitUnchanged, BooksOK
<1>3. CallsOK'
  <2>1. [At("template") EXCEPT !.job = j] \in Frame
    BY NoRecords DEF Frame, Labels
  <2>2. frame' \in [Threads -> Frame]
    BY <2>1, GotoType DEF Submit
  <2>3. QED
    BY <2>2 DEF Submit, SubmitUnchanged, CallsOK
<1>4. QED
  BY <1>1, <1>2, <1>3

\* An exception that ends submit_job() keeps the books of the calls well typed.
LEMMA RaiseType ==
  ASSUME CallsOK, NEW t \in Threads, Raise(t), reported' = reported
  PROVE  CallsOK'
<1>1. frame' \in [Threads -> Frame]
  BY NoRecords, GotoType DEF Raise
<1>2. QED
  BY <1>1 DEF Raise, CallsOK

\* The launch template of a block.
LEMMA CreateTemplateType ==
  ASSUME TypeOK, NEW t \in Threads, CreateTemplate(t)
  PROVE  TypeOK'
<1> USE TypeParts
<1>1. EventsOK'
  BY HappenType DEF CreateTemplate
<1>2. MonitorTypeOK' /\ ModeOK'
  BY Unchanged DEF CreateTemplate, SubmitUnchanged
<1>3. CASE \E f \in Fleets : /\ BuildLaunchTemplateConfig(f)
                             /\ Goto(t, [frame[t] EXCEPT !.pc = "fleet", !.fleet = {f}])
                             /\ submits' = submits
  <2>1. PICK f \in Fleets : /\ BuildLaunchTemplateConfig(f)
                            /\ Goto(t, [frame[t] EXCEPT !.pc = "fleet", !.fleet = {f}])
                            /\ submits' = submits
    BY <1>3
  <2>2. BooksOK' /\ Ec2OK'
    BY <2>1 DEF BuildLaunchTemplateConfig, BooksOK, Ec2OK
  <2>3. [frame[t] EXCEPT !.pc = "fleet", !.fleet = {f}] \in Frame
    <3>1. frame[t] \in Frame /\ "fleet" \in Labels /\ {f} \in SUBSET Fleets
      BY DEF CallsOK, Labels
    <3>2. QED
      BY <3>1, FrameOf, Zenon
  <2>4. frame' \in [Threads -> Frame]
    BY <2>1, <2>3, GotoType
  <2>5. CallsOK'
    BY <2>1, <2>4 DEF CallsOK, CreateTemplate, SubmitUnchanged
  <2>6. QED
    BY <1>1, <1>2, <2>2, <2>5
<1>4. CASE Raise(t) /\ UNCHANGED <<managerVars, ec2Vars>>
  <2>1. CallsOK'
    BY <1>4, RaiseType DEF CreateTemplate, SubmitUnchanged
  <2>2. QED
    BY <1>1, <1>2, <1>4, <2>1, Unchanged
<1>5. QED
  BY <1>3, <1>4 DEF CreateTemplate

\* CreateFleet, with its three outcomes.
LEMMA CreateType ==
  ASSUME TypeOK, NEW t \in Threads, Create(t)
  PROVE  TypeOK'
<1> USE TypeParts
<1>1. EventsOK'
  BY HappenType DEF Create
<1>2. MonitorTypeOK' /\ ModeOK'
  BY Unchanged DEF Create, SubmitUnchanged
<1>3. PICK f \in frame[t].fleet :
        \/ \E N \in SUBSET Nodes :
             /\ CreateFleet(f, N)
             /\ Goto(t, [frame[t] EXCEPT !.pc = IF N = {} THEN "discard" ELSE "wait"])
             /\ submits' = submits
        \/ \E kept \in SUBSET {f} : CreateFleetRefused(f, kept) /\ Raise(t)
        \/ CreateFleetLost(f, Nodes) /\ Raise(t)
  BY DEF Create
<1>4. f \in Fleets
  BY DEF CallsOK, Frame
<1>5. CASE \E N \in SUBSET Nodes :
             /\ CreateFleet(f, N)
             /\ Goto(t, [frame[t] EXCEPT !.pc = IF N = {} THEN "discard" ELSE "wait"])
             /\ submits' = submits
  <2>1. PICK N \in SUBSET Nodes :
             /\ CreateFleet(f, N)
             /\ Goto(t, [frame[t] EXCEPT !.pc = IF N = {} THEN "discard" ELSE "wait"])
             /\ submits' = submits
    BY <1>5
  <2>2. [status |-> IF N # {} THEN "RUNNING" ELSE "PENDING", ids |-> N] \in Block
    BY DEF Block, Status
  <2>3. BooksOK'
    BY <1>4, <2>1, <2>2 DEF CreateFleet, BooksOK
  <2>4. Ec2OK'
    BY <1>4, <2>1, LaunchedType DEF CreateFleet, Ec2OK
  <2>5. [frame[t] EXCEPT !.pc = IF N = {} THEN "discard" ELSE "wait"] \in Frame
    BY DEF CallsOK, Frame, Labels
  <2>6. frame' \in [Threads -> Frame]
    BY <2>1, <2>5, GotoType
  <2>7. CallsOK'
    BY <2>1, <2>6 DEF CallsOK, Create, SubmitUnchanged
  <2>8. QED
    BY <1>1, <1>2, <2>3, <2>4, <2>7
<1>6. CASE Raise(t) /\ \E kept \in SUBSET {f} : CreateFleetRefused(f, kept)
  <2>1. BooksOK' /\ Ec2OK'
    BY <1>4, <1>6 DEF CreateFleetRefused, DeleteLaunchTemplates, BooksOK, Ec2OK
  <2>2. CallsOK'
    BY <1>6, RaiseType DEF Create, SubmitUnchanged
  <2>3. QED
    BY <1>1, <1>2, <2>1, <2>2
<1>7. CASE Raise(t) /\ CreateFleetLost(f, Nodes)
  <2>1. Ec2OK'
    BY <1>4, <1>7, LaunchedType DEF CreateFleetLost, Ec2OK
  <2>2. BooksOK'
    BY <1>7, Unchanged DEF CreateFleetLost, managerVars
  <2>3. CallsOK'
    BY <1>7, RaiseType DEF Create, SubmitUnchanged
  <2>4. QED
    BY <1>1, <1>2, <2>1, <2>2, <2>3
<1>8. QED
  BY <1>3, <1>5, <1>6, <1>7

\* The wait for a block to come up.
LEMMA WaitRunningType ==
  ASSUME TypeOK, NEW t \in Threads, WaitRunning(t)
  PROVE  TypeOK'
<1> USE TypeParts
<1>1. EventsOK'
  BY HappenType DEF WaitRunning
<1>2. MonitorTypeOK' /\ ModeOK' /\ Ec2OK'
  BY Unchanged DEF WaitRunning, SubmitUnchanged
<1>3. BooksOK'
  <2>1. \A f \in frame[t].fleet : f \in Fleets
    BY DEF CallsOK, Frame
  <2>2. \A f : BlockStatus(f) \in Status
    BY BlockStatusType DEF Status
  <2>3. \E f \in Fleets : \E s \in Status : blocks' \in {NotedStatus(f, s), blocks}
    BY <2>1, <2>2 DEF WaitRunning, Status
  <2>4. blocks' \in [Fleets -> Block]
    BY <2>3, NotedType DEF BooksOK
  <2>5. QED
    BY <2>4 DEF BooksOK, WaitRunning
<1>4. CallsOK'
  <2>1. \A l \in {"register", "discard"} : [frame[t] EXCEPT !.pc = l] \in Frame
    BY DEF CallsOK, Frame, Labels
  <2>2. \E l \in {"register", "discard"} : Goto(t, [frame[t] EXCEPT !.pc = l])
    BY DEF WaitRunning
  <2>3. frame' \in [Threads -> Frame]
    BY <2>1, <2>2, GotoType
  <2>4. QED
    BY <2>3 DEF CallsOK, WaitRunning, SubmitUnchanged
<1>5. QED
  BY <1>1, <1>2, <1>3, <1>4

\* The disposal of a block that did not.
LEMMA DiscardType ==
  ASSUME TypeOK, NEW t \in Threads, Discard(t)
  PROVE  TypeOK'
<1> USE TypeParts
<1>1. PICK refused, kept \in SUBSET frame[t].fleet :
        /\ DeleteFleets(frame[t].fleet \ refused)
        /\ DeleteLaunchTemplates(frame[t].fleet \ refused, kept)
        /\ Deletion(refused, kept)
  BY DEF Discard
<1>2. EventsOK'
  BY <1>1, HappenType DEF Deletion, DeletionAnd
<1>3. MonitorTypeOK' /\ ModeOK'
  BY Unchanged DEF Discard, SubmitUnchanged
<1>4. Ec2OK'
  <2>1. templates' \in SUBSET Fleets /\ user_data' = user_data
    BY <1>1 DEF Discard, DeleteLaunchTemplates, Ec2OK
  <2>2. QED
    BY <1>1, <2>1, DeleteType DEF Ec2OK
<1>5. BooksOK'
  <2>1. blocks' \in [Fleets -> Block]
    BY NoRecords DEF Discard, BooksOK
  <2>2. launch_templates' \in SUBSET Fleets
    BY <1>1 DEF DeleteLaunchTemplates, BooksOK
  <2>3. QED
    BY <2>1, <2>2 DEF Discard, BooksOK
<1>6. CallsOK'
  BY RaiseType DEF Discard, SubmitUnchanged
<1>7. QED
  BY <1>2, <1>3, <1>4, <1>5, <1>6

\* The registration with the monitor.
LEMMA RegisterType ==
  ASSUME TypeOK, NEW t \in Threads, Register(t)
  PROVE  TypeOK'
<1> USE TypeParts
<1>1. EventsOK'
  BY HappenType DEF Register
<1>2. BooksOK' /\ Ec2OK' /\ ModeOK'
  BY Unchanged DEF Register
<1>3. MonitorTypeOK'
  BY DEF Register, RegisterFleet, MonitorTypeOK, CallsOK, Frame
<1>4. CallsOK'
  <2>1. [frame[t] EXCEPT !.pc = "track"] \in Frame
    BY DEF CallsOK, Frame, Labels
  <2>2. frame' \in [Threads -> Frame]
    BY <2>1, GotoType DEF Register
  <2>3. QED
    BY <2>2 DEF Register, CallsOK
<1>5. QED
  BY <1>1, <1>2, <1>3, <1>4

\* The end of submit_job(): the record, and the save.
LEMMA TrackType ==
  ASSUME TypeOK, NEW t \in Threads, Track(t)
  PROVE  TypeOK'
<1> USE TypeParts
<1>1. EventsOK'
  BY HappenType DEF Track
<1>2. BooksOK' /\ Ec2OK' /\ MonitorTypeOK'
  BY Unchanged DEF Track
<1>3. resources' \in [Fleets -> Record]
  <2>1. [status |-> "PENDING", job |-> frame[t].job] \in Record
    BY DEF Record, CallsOK, Frame, Status
  <2>2. QED
    BY <2>1 DEF Track, ModeOK
<1>4. ModeOK'
  BY <1>2, <1>3, SaveType DEF ModeOK, Track
<1>5. CallsOK'
  <2>1. frame' \in [Threads -> Frame]
    BY NoRecords, GotoType DEF Track
  <2>2. reported' \in [Fleets -> Status \cup {"none", "collected"}]
    BY DEF Track, CallsOK, Status
  <2>3. submits' \in [Jobs -> {"none", "called", "accepted", "raised"}]
    BY DEF Track, CallsOK
  <2>4. QED
    BY <2>1, <2>2, <2>3 DEF CallsOK
<1>6. QED
  BY <1>1, <1>2, <1>4, <1>5

\* get_job_status(), up to the first call of EC2.
LEMMA StatusBeginType ==
  ASSUME TypeOK, NEW t \in Threads, StatusBegin(t)
  PROVE  TypeOK'
<1> USE TypeParts
<1>1. EventsOK'
  BY HappenType DEF StatusBegin
<1>2. BooksOK' /\ Ec2OK' /\ MonitorTypeOK'
  BY Unchanged DEF StatusBegin
<1>3. ModeOK'
  <2>1. resources' \in [Fleets -> Record] /\ initialized' \in BOOLEAN
    BY DEF StatusBegin, ModeOK
  <2>2. mode_store' = mode_store \/ Save
    BY DEF StatusBegin
  <2>3. QED
    BY <1>2, <2>1, <2>2, SaveType DEF ModeOK
<1>4. CallsOK'
  <2>1. MustAsk(Unsettled) \in SUBSET Fleets
    BY DEF MustAsk, Unsettled, Recorded
  <2>2. [At("describe") EXCEPT !.todo = MustAsk(Unsettled)] \in Frame
    BY <2>1, NoRecords DEF Frame, Labels
  <2>3. frame' \in [Threads -> Frame]
    BY <2>2, NoRecords, GotoType DEF StatusBegin
  <2>4. reported' \in [Fleets -> Status \cup {"none", "collected"}]
    BY DEF StatusBegin, Answered, LocalStatus, CallsOK, Status
  <2>5. QED
    BY <2>3, <2>4 DEF StatusBegin, CallsOK
<1>5. QED
  BY <1>1, <1>2, <1>3, <1>4

\* The answer for one block.
LEMMA DescribeBlockType ==
  ASSUME TypeOK, NEW t \in Threads, DescribeBlock(t)
  PROVE  TypeOK'
<1> USE TypeParts
<1>1. EventsOK'
  BY HappenType DEF DescribeBlock
<1>2. Ec2OK' /\ MonitorTypeOK' /\ ModeOK'
  BY Unchanged DEF DescribeBlock
<1> DEFINE Answer(f, answer) ==
             /\ blocks' = IF HasBlock(f) THEN NotedStatus(f, answer) ELSE blocks
             /\ Goto(t, [frame[t] EXCEPT !.pc = "write", !.fleet = {f}, !.answer = answer])
<1>3. PICK f \in frame[t].todo : \E answer \in BlockAnswers(f) : Answer(f, answer)
  BY DEF DescribeBlock
<1>4. f \in Fleets
  BY DEF CallsOK, Frame
<1>5. PICK answer \in BlockAnswers(f) : Answer(f, answer)
  BY <1>3
<1>6. answer \in Status
  BY <1>4, AnswersType
<1>7. BooksOK'
  <2>1. blocks' \in [Fleets -> Block]
    BY <1>5, <1>4, <1>6, NotedType DEF BooksOK
  <2>2. QED
    BY <2>1 DEF BooksOK, DescribeBlock
<1>8. CallsOK'
  <2>1. [frame[t] EXCEPT !.pc = "write", !.fleet = {f}, !.answer = answer] \in Frame
    <3>1. frame[t] \in Frame /\ "write" \in Labels /\ {f} \in SUBSET Fleets
      BY <1>4 DEF CallsOK, Labels
    <3>2. QED
      BY <1>6, <3>1, FrameAnswer, Zenon
  <2>2. frame' \in [Threads -> Frame]
    BY <1>5, <2>1, GotoType
  <2>3. QED
    BY <2>2 DEF CallsOK, DescribeBlock
<1>9. QED
  BY <1>1, <1>2, <1>7, <1>8

\* The provider has no record of a block "none" or "collected"; what it writes
\* over one is the answer it got, which write never finds absent.
LEMMA WriteStatusType ==
  ASSUME TypeOK, NEW t \in Threads, WriteStatus(t), frame[t].answer # Absent
  PROVE  TypeOK'
<1> USE TypeParts
<1>0. frame[t].answer \in Status
  BY DEF CallsOK, Frame
<1>1. EventsOK'
  BY HappenType DEF WriteStatus
<1>2. BooksOK' /\ Ec2OK' /\ MonitorTypeOK'
  BY Unchanged DEF WriteStatus
<1>3. ModeOK'
  <2>1. \A f \in Fleets : [resources[f] EXCEPT !.status = frame[t].answer] \in Record
    BY <1>0, RecordWith DEF ModeOK
  <2>2. resources' \in [Fleets -> Record] /\ initialized' \in BOOLEAN
    BY <2>1 DEF WriteStatus, ModeOK
  <2>3. mode_store' = mode_store \/ Save
    BY DEF WriteStatus
  <2>4. QED
    BY <1>2, <2>2, <2>3, SaveType DEF ModeOK
<1>4. CallsOK'
  <2>1. [At("describe") EXCEPT !.todo = frame[t].todo \ frame[t].fleet] \in Frame
    BY NoRecords DEF Frame, Labels, CallsOK
  <2>2. frame' \in [Threads -> Frame]
    BY <2>1, NoRecords, GotoType DEF WriteStatus
  <2>3. reported' \in [Fleets -> Status \cup {"none", "collected"}]
    BY <1>0 DEF WriteStatus, CallsOK
  <2>4. QED
    BY <2>2, <2>3 DEF WriteStatus, CallsOK
<1>5. QED
  BY <1>1, <1>2, <1>3, <1>4

\* cancel_jobs() of one block.
LEMMA CancelType ==
  ASSUME TypeOK, NEW t \in Threads, NEW f \in Fleets, Cancel(t, f)
  PROVE  TypeOK'
<1> USE TypeParts
<1>1. PICK refused \in SUBSET (IF HasBlock(f) THEN {f} ELSE {}), kept \in SUBSET {f} :
        LET s == IF ~Tracked(f) THEN "UNKNOWN" ELSE IF refused = {} THEN "CANCELED" ELSE "FAILED"
        IN  /\ TerminateBlocks({f} \cap TrackedFleets, refused, kept)
            /\ Deletion(refused, kept)
            /\ resources' = [resources EXCEPT ![f].status = IF Tracked(f) THEN s ELSE @]
            /\ reported' = [reported EXCEPT ![f] = s]
  BY DEF Cancel
<1> DEFINE s == IF ~Tracked(f) THEN "UNKNOWN" ELSE IF refused = {} THEN "CANCELED" ELSE "FAILED"
<1>2. s \in Status
  BY DEF Status
<1>3. EventsOK'
  BY <1>1, HappenType DEF Deletion, DeletionAnd
<1>4. BooksOK' /\ Ec2OK'
  BY <1>1, TerminateType
<1>5. MonitorTypeOK'
  BY Unchanged DEF Cancel
<1>6. ModeOK'
  <2>1. resources' \in [Fleets -> Record]
    BY <1>1, <1>2 DEF ModeOK, Record
  <2>2. QED
    BY <1>4, <2>1, SaveType DEF ModeOK, Cancel
<1>7. CallsOK'
  <2>1. frame' \in [Threads -> Frame]
    BY NoRecords, GotoType DEF Cancel, Labels
  <2>2. reported' \in [Fleets -> Status \cup {"none", "collected"}]
    BY <1>1, <1>2 DEF CallsOK
  <2>3. QED
    BY <2>1, <2>2 DEF Cancel, CallsOK
<1>8. QED
  BY <1>3, <1>4, <1>5, <1>6, <1>7

\* The mode's records with some dropped.
LEMMA DropRecordsType ==
  ASSUME ModeOK, NEW F, DropRecords(F)
  PROVE  resources' \in [Fleets -> Record]
BY NoRecords DEF ModeOK, DropRecords

\* cleanup_resources() of the blocks that ended.
LEMMA CleanupType ==
  ASSUME TypeOK, NEW t \in Threads, Cleanup(t)
  PROVE  TypeOK'
<1> USE TypeParts
<1> DEFINE ended == {f \in Recorded : reported[f] \in Terminal}
<1>1. PICK refused, kept \in SUBSET (ended \cap TrackedFleets) :
        /\ TerminateBlocks(ended \cap TrackedFleets, refused, kept)
        /\ DropRecords(ended \ {f \in refused : HasBlock(f)})
        /\ Deletion(refused, kept)
  BY DEF Cleanup
<1>2. EventsOK'
  BY <1>1, HappenType DEF Deletion, DeletionAnd
<1>3. BooksOK' /\ Ec2OK'
  BY <1>1, TerminateType
<1>4. MonitorTypeOK'
  BY Unchanged DEF Cleanup
<1>5. ModeOK'
  BY <1>1, <1>3, DropRecordsType, SaveType DEF ModeOK, Cleanup
<1>6. CallsOK'
  <2>1. frame' \in [Threads -> Frame]
    BY NoRecords, GotoType DEF Cleanup
  <2>2. reported' \in [Fleets -> Status \cup {"none", "collected"}]
    BY DEF CallsOK, Cleanup
  <2>3. QED
    BY <2>1, <2>2 DEF Cleanup, CallsOK
<1>7. QED
  BY <1>2, <1>3, <1>4, <1>5, <1>6

\* shutdown(), up to the first sweep.
LEMMA ShutdownType ==
  ASSUME TypeOK, NEW t \in Threads, Shutdown(t)
  PROVE  TypeOK'
<1> USE TypeParts
<1>1. MonitorTypeOK'
  BY Unchanged DEF Shutdown
<1>2. frame' \in [Threads -> Frame]
  BY NoRecords, GotoType DEF Shutdown, Labels
<1>3. CallsOK'
  BY <1>2 DEF CallsOK, Shutdown, ShutdownUnchanged
<1>4. CASE TrackedFleets = {}
  <2>1. EventsOK'
    BY <1>4, HappenType DEF Shutdown
  <2>2. BooksOK' /\ Ec2OK'
    BY <1>4, Unchanged DEF Shutdown
  <2>3. ModeOK'
    BY <1>4, Unchanged DEF Shutdown, modeVars
  <2>4. QED
    BY <1>1, <1>3, <2>1, <2>2, <2>3
<1>5. CASE TrackedFleets # {}
  <2>1. PICK refused, kept \in SUBSET TrackedFleets :
          /\ TerminateBlocks(TrackedFleets, refused, kept)
          /\ DropRecords(TrackedFleets \ {f \in refused : HasBlock(f)})
          /\ \E late : DeletionAnd(refused, kept, late)
    BY <1>5 DEF Shutdown
  <2>2. EventsOK'
    BY <2>1, HappenType DEF DeletionAnd
  <2>3. BooksOK' /\ Ec2OK'
    BY <2>1, TerminateType
  <2>4. ModeOK'
    BY <1>5, <2>1, <2>3, DropRecordsType, SaveType DEF ModeOK, Shutdown
  <2>5. QED
    BY <1>1, <1>3, <2>2, <2>3, <2>4
<1>6. QED
  BY <1>4, <1>5

\* The first sweep over all that was ever requested.
LEMMA SweepType ==
  ASSUME TypeOK, NEW t \in Threads, Sweep(t)
  PROVE  TypeOK'
<1> USE TypeParts
<1>1. PICK refused \in SUBSET fleet_requests, kept \in SUBSET launch_templates :
        CleanupAllResources(refused, kept) /\ Deletion(refused, kept)
  BY DEF Sweep
<1>2. EventsOK'
  BY <1>1, HappenType DEF Deletion, DeletionAnd
<1>3. BooksOK' /\ Ec2OK'
  BY <1>1, CleanupAllType
<1>4. MonitorTypeOK' /\ ModeOK'
  BY Unchanged DEF Sweep
<1>5. frame' \in [Threads -> Frame]
  BY NoRecords, GotoType DEF Sweep, Labels
<1>6. CallsOK'
  BY <1>5 DEF CallsOK, Sweep, ShutdownUnchanged
<1>7. QED
  BY <1>2, <1>3, <1>4, <1>6

\* The second one, with which the mode ends.
LEMMA LastSweepType ==
  ASSUME TypeOK, NEW t \in Threads, LastSweep(t)
  PROVE  TypeOK'
<1> USE TypeParts
<1>1. PICK refused \in SUBSET fleet_requests, kept \in SUBSET launch_templates :
        CleanupAllResources(refused, kept) /\ Deletion(refused, kept)
  BY DEF LastSweep
<1>2. EventsOK'
  BY <1>1, HappenType DEF Deletion, DeletionAnd
<1>3. BooksOK' /\ Ec2OK'
  BY <1>1, CleanupAllType
<1>4. MonitorTypeOK'
  BY DEF LastSweep, StopMonitoring, Looping, MonitorTypeOK
<1>5. ModeOK'
  <2>1. resources' \in [Fleets -> Record] /\ initialized' \in BOOLEAN
    BY DEF LastSweep, ModeOK
  <2>2. QED
    BY <1>3, <2>1, SaveType DEF ModeOK, LastSweep
<1>6. frame' \in [Threads -> Frame]
  BY NoRecords, GotoType DEF LastSweep
<1>7. CallsOK'
  BY <1>6 DEF CallsOK, LastSweep, ShutdownUnchanged
<1>8. QED
  BY <1>2, <1>3, <1>4, <1>5, <1>7

\* The monitor's thread.
LEMMA MonitorStepType ==
  ASSUME TypeOK, MonitorStep
  PROVE  TypeOK'
<1> USE TypeParts
<1>1. CASE /\ \/ \E f \in Fleets, n \in Nodes : ReceiveWarning(f, n)
              \/ \E f \in Fleets : ListFleet(f)
              \/ DescribeListed
              \/ \E f \in Fleets : TakeEvent(f, RecordCount)
           /\ MonitorUnchanged /\ UNCHANGED ec2Vars
  <2>1. BooksOK' /\ Ec2OK' /\ ModeOK' /\ CallsOK'
    BY <1>1, Unchanged DEF MonitorUnchanged
  <2>2. CASE \E f \in Fleets, n \in Nodes : ReceiveWarning(f, n)
    <3>1. EventsOK'
      BY <2>2, HappenType DEF ReceiveWarning
    <3>2. MonitorTypeOK'
      BY <2>2 DEF ReceiveWarning, QueueWarning, MonitorTypeOK
    <3>3. QED
      BY <2>1, <3>1, <3>2
  <2>3. CASE \E f \in Fleets : ListFleet(f)
    <3>1. EventsOK'
      BY <2>3, HappenType DEF ListFleet
    <3>2. MonitorTypeOK'
      BY <2>3 DEF ListFleet, LiveNodes, MonitorTypeOK
    <3>3. QED
      BY <2>1, <3>1, <3>2
  <2>4. CASE DescribeListed
    <3>1. EventsOK'
      BY <2>4, HappenType DEF DescribeListed
    <3>2. MonitorTypeOK'
      BY <2>4 DEF DescribeListed, Looping, MonitorTypeOK
    <3>3. QED
      BY <2>1, <3>1, <3>2
  <2>5. CASE \E f \in Fleets : TakeEvent(f, RecordCount)
    <3>1. EventsOK'
      BY <2>5, HappenType DEF TakeEvent
    <3>2. RecordCount \in Nat
      BY FS_Subset, FS_CardinalityType, FleetAssumption DEF RecordCount, TrackedFleets
    <3>3. MonitorTypeOK'
      BY <2>5, <3>2 DEF TakeEvent, MonitorTypeOK
    <3>4. QED
      BY <2>1, <3>1, <3>3
  <2>6. QED
    BY <1>1, <2>2, <2>3, <2>4, <2>5
<1>2. CASE MarkInterrupted
  <2>1. EventsOK'
    BY <1>2, HappenType DEF MarkInterrupted
  <2>2. BooksOK' /\ Ec2OK' /\ CallsOK'
    BY <1>2, Unchanged DEF MarkInterrupted
  <2>3. MonitorTypeOK'
    BY <1>2 DEF MarkInterrupted, HandlerDone, Looping, MonitorTypeOK
  <2>4. \A f \in Fleets : [resources[f] EXCEPT !.status = "INTERRUPTED"] \in Record
    BY RecordWith DEF ModeOK, Status
  <2>5. ModeOK'
    BY <1>2, <2>4 DEF MarkInterrupted, ModeOK
  <2>6. QED
    BY <2>1, <2>2, <2>3, <2>5
<1>3. CASE HandlerRaises
  <2>1. EventsOK'
    BY <1>3, HappenType DEF HandlerRaises
  <2>2. BooksOK' /\ Ec2OK' /\ ModeOK' /\ CallsOK'
    BY <1>3, Unchanged DEF HandlerRaises
  <2>3. MonitorTypeOK'
    BY <1>3 DEF HandlerRaises, HandlerDone, Looping, MonitorTypeOK
  <2>4. QED
    BY <2>1, <2>2, <2>3
<1>4. QED
  BY <1>1, <1>2, <1>3, Zenon DEF MonitorStep

\* The environment.
LEMMA EnvironmentStepType ==
  ASSUME TypeOK, EnvironmentStep
  PROVE  TypeOK'
<1> USE TypeParts
<1>1. ASSUME NEW f \in Fleets, NEW n \in Nodes, Warn(f, n) PROVE TypeOK'
  <2>1. EventsOK'
    BY <1>1, HappenType DEF Warn
  <2>2. BooksOK' /\ Ec2OK' /\ ModeOK' /\ CallsOK'
    BY <1>1, Unchanged DEF Warn
  <2>3. MonitorTypeOK'
    BY <1>1 DEF Warn, MonitorTypeOK
  <2>4. QED
    BY <2>1, <2>2, <2>3
<1>2. CASE NodeStep
  <2>1. PICK f \in Fleets, n \in Nodes : Boot(f, n) \/ Finish(f, n) \/ Forget(f, n)
    BY <1>2 DEF NodeStep
  <2>2. EventsOK'
    BY <2>1, HappenType DEF Boot, Finish, Forget
  <2>3. BooksOK' /\ MonitorTypeOK' /\ ModeOK' /\ CallsOK'
    BY <1>2, Unchanged DEF NodeStep
  <2>4. \E s \in NodeStates : node' = [node EXCEPT ![f][n] = s]
    BY <2>1 DEF Boot, Finish, Forget, NodeStates
  <2>5. node' \in [Fleets -> [Nodes -> NodeStates]]
    BY <2>4 DEF Ec2OK
  <2>6. Ec2OK'
    BY <2>1, <2>5 DEF Boot, Finish, Forget, Ec2OK
  <2>7. QED
    BY <2>2, <2>3, <2>6
<1>3. CASE FleetGone
  <2>1. PICK f \in Fleets : ForgetFleet(f)
    BY <1>3 DEF FleetGone
  <2>2. EventsOK'
    BY <2>1, HappenType DEF ForgetFleet
  <2>3. BooksOK' /\ MonitorTypeOK' /\ ModeOK' /\ CallsOK'
    BY <1>3, Unchanged DEF FleetGone
  <2>4. Ec2OK'
    BY <2>1 DEF ForgetFleet, Ec2OK
  <2>5. QED
    BY <2>2, <2>3, <2>4
<1>4. QED
  BY <1>1, <1>2, <1>3 DEF EnvironmentStep

\* A successor finds a well-typed document.
LEMMA RestartType ==
  ASSUME TypeOK, Restart
  PROVE  TypeOK'
<1> USE TypeParts
<1>1. EventsOK'
  BY HappenType DEF Restart
<1>2. Ec2OK'
  BY Unchanged DEF Restart
<1>3. BooksOK'
  BY DEF Restart, RestoredBlocks, BooksOK, ModeOK, Document
<1>4. ModeOK'
  BY DEF Restart, ModeOK, Document
<1>5. MonitorTypeOK'
  BY DEF Restart, MonitorTypeOK, Looping
<1>6. CallsOK'
  BY NoRecords DEF Restart, CallsOK
<1>7. QED
  BY <1>1, <1>2, <1>3, <1>4, <1>5, <1>6

\* And a new provider starts well typed.
LEMMA InitType == Init => TypeOK
<1> SUFFICES ASSUME Init PROVE TypeOK
  OBVIOUS
<1>1. BooksOK
  BY NoRecords DEF Init, ManagerInit, BooksOK
<1>2. Ec2OK
  BY DEF Init, ManagerInit, Ec2OK, NoNodes, NodeStates
<1>3. EventsOK
  BY DEF Init, ManagerInit, EventsOK
<1>4. MonitorTypeOK
  BY DEF Init, MonitorInit, MonitorTypeOK, Looping
<1>5. ModeOK
  BY <1>1, NoRecords DEF Init, ModeOK, Document, BooksOK
<1>6. CallsOK
  BY NoRecords DEF Init, CallsOK
<1>7. QED
  BY <1>1, <1>2, <1>3, <1>4, <1>5, <1>6, TypeParts

-----------------------------------------------------------------------------
(* BookInv is inductive.  Every action but a restart leaves all fleets but *)
(* the one its thread launches as Quiet describes, and the document as     *)
(* Stored describes; the invariant follows from that.                      *)

Aging(f) ==
  /\ fleet'[f] = "none" <=> fleet[f] = "none"
  /\ LiveNodes(f)' \subseteq LiveNodes(f)
  /\ fleet'[f] \in {"deleted", "forgotten"} =>
       fleet[f] \in {"deleted", "forgotten"} \/ LiveNodes(f)' = {}
  /\ \A n \in Nodes : node'[f][n] = "gone" => node[f][n] = "gone" \/ "forget" \in happened'

Quiet(f) ==
  /\ Aging(f)
  /\ HasBlock(f)' <=> HasBlock(f)
  /\ reported'[f] = "none" <=> reported[f] = "none"
  /\ Tracked(f)' => Tracked(f)

Stored ==
  \/ Save
  \/ /\ mode_store' = mode_store
     /\ \A f \in Fleets : (Tracked(f)' <=> Tracked(f)) /\ resources'[f].job = resources[f].job

Own(t, f) == frame[t].pc \in Launching /\ f \in frame[t].fleet

Remembered == happened \subseteq happened'

\* A sound status stays sound while instances only go.
LEMMA StatusKept ==
  ASSUME NEW f, NEW s, StatusSound(f, s), LiveNodes(f)' \subseteq LiveNodes(f), Remembered
  PROVE  StatusSound(f, s)'
BY DEF StatusSound, Remembered

\* So does the soundness of a block.
LEMMA BlockKept ==
  ASSUME NEW f, NEW b, BlockSound(f, b), LiveNodes(f)' \subseteq LiveNodes(f), Remembered
  PROVE  BlockSound(f, b)'
BY StatusKept DEF BlockSound

\* What thread t does, if sound for itself, leaves every thread sound.
LEMMA MoveSound ==
  ASSUME BookInv, NEW t \in Threads,
         frame' \in [Threads -> Frame], \A u \in Threads : u # t => frame'[u] = frame[u],
         Sound(frame[t])', Remembered,
         \A f \in Fleets : Quiet(f) \/ Own(t, f),
         frame'[t].pc \in Launching =>
           \A u \in Threads : u # t /\ frame[u].pc \in Launching => frame'[t].fleet \cap frame[u].fleet = {}
  PROVE  FramesSound' /\ Apart'
<1>1. Apart'
  BY DEF BookInv, Apart
<1>2. ASSUME NEW u \in Threads, u # t PROVE Sound(frame[u])'
  <2>1. Sound(frame[u]) /\ Sound(frame[t]) /\ frame'[u] = frame[u]
    BY <1>2 DEF BookInv, FramesSound
  <2>2. frame[u].fleet \subseteq Fleets /\ frame[u].todo \subseteq Fleets
    BY TypeParts DEF BookInv, CallsOK, Frame
  <2>3. ASSUME frame[u].pc \in Launching, NEW f \in frame[u].fleet PROVE Quiet(f)
    BY <1>2, <2>2, <2>3 DEF BookInv, Apart, Own
  <2>4. ASSUME NEW f \in frame[u].todo PROVE Quiet(f)
    BY <2>1, <2>2, <2>4 DEF Sound, Own
  <2>5. frame[u].pc \in Launching =>
          \A f \in frame[u].fleet : /\ fleet'[f] = "none" <=> frame[u].pc = "fleet"
                                    /\ frame[u].pc # "fleet" => HasBlock(f)'
                                    /\ reported'[f] = "none"
                                    /\ ~Tracked(f)'
    BY <2>1, <2>3 DEF Sound, Quiet, Aging
  <2>6. \A f \in frame[u].todo : reported'[f] # "none"
    BY <2>1, <2>4 DEF Sound, Quiet, Aging
  <2>7. ASSUME frame[u].pc = "write", NEW f \in frame[u].fleet
        PROVE  StatusSound(f, frame[u].answer)'
    <3>1. f \in frame[u].todo /\ StatusSound(f, frame[u].answer)
      BY <2>1, <2>7 DEF Sound, Launching
    <3>2. LiveNodes(f)' \subseteq LiveNodes(f)
      BY <2>4, <3>1 DEF Quiet, Aging
    <3>3. QED
      BY <2>1, <3>1, <3>2 DEF StatusSound, Remembered
  <2>8. QED
    BY <2>1, <2>5, <2>6, <2>7 DEF Sound
<1>3. QED
  BY <1>1, <1>2 DEF FramesSound

\* What is sound of each fleet stays so in a step of that kind.
LEMMA QuietSound ==
  ASSUME BookInv, NEW f \in Fleets, Quiet(f), Stored, Remembered, BlockSound(f, blocks[f])'
  PROVE  FleetSound(f)'
<1>1. FleetSound(f)
  BY DEF BookInv, FleetsSound
<1>2. LiveNodes(f)' \subseteq LiveNodes(f)
  BY DEF Quiet, Aging
<1>3. CASE Save
  <2>1. mode_store'.resources = resources' /\ mode_store'.blocks = blocks'
    BY <1>3 DEF Save
  <2>2. Tracked(f)' => HasBlock(f)' /\ reported'[f] # "none"
    BY <1>1 DEF FleetSound, Quiet, Aging
  <2>3. QED
    BY <1>1, <1>2, <2>1, <2>2 DEF FleetSound, Quiet, Aging, Remembered, HasBlock, Tracked
<1>4. CASE /\ mode_store' = mode_store
           /\ (Tracked(f)' <=> Tracked(f)) /\ resources'[f].job = resources[f].job
  <2>1. BlockSound(f, mode_store.blocks[f])'
    BY <1>1, <1>2, <1>4 DEF FleetSound, BlockSound, StatusSound, Remembered
  <2>2. Tracked(f)' => HasBlock(f)' /\ reported'[f] # "none"
    BY <1>1 DEF FleetSound, Quiet, Aging
  <2>3. QED
    BY <1>1, <1>2, <1>4, <2>1, <2>2 DEF FleetSound, Quiet, Aging, Remembered
<1>5. QED
  BY <1>3, <1>4 DEF Stored

\* A thread's step: what it launches and what it holds must be sound; the rest follows.
LEMMA StepSound ==
  ASSUME BookInv, TypeOK', NEW t \in Threads,
         \A u \in Threads : u # t => frame'[u] = frame[u],
         Sound(frame[t])', Remembered, Stored,
         \A f \in Fleets : Quiet(f) \/ Own(t, f),
         \A f \in Fleets : Quiet(f) => BlockSound(f, blocks[f])',
         \A f \in Fleets : Own(t, f) => Quiet(f) \/ FleetSound(f)',
         frame'[t].pc \in Launching =>
           \A u \in Threads : u # t /\ frame[u].pc \in Launching => frame'[t].fleet \cap frame[u].fleet = {}
  PROVE  BookInv'
<1>1. frame' \in [Threads -> Frame]
  BY TypeParts DEF CallsOK
<1>2. FramesSound' /\ Apart'
  BY <1>1, MoveSound
<1>3. FleetsSound'
  BY QuietSound DEF FleetsSound
<1>4. QED
  BY <1>2, <1>3 DEF BookInv

\* A step in which no thread does anything.
LEMMA NoThreadSound ==
  ASSUME BookInv, TypeOK', frame' = frame, Remembered, Stored,
         \A f \in Fleets : Quiet(f) /\ BlockSound(f, blocks[f])'
  PROVE  BookInv'
<1>1. FleetsSound'
  BY QuietSound DEF FleetsSound
<1>2. Apart'
  BY DEF BookInv, Apart
<1>3. ASSUME NEW t \in Threads PROVE Sound(frame[t])'
  <2>1. Sound(frame[t]) /\ frame'[t] = frame[t]
    BY DEF BookInv, FramesSound
  <2>2. frame[t].fleet \subseteq Fleets /\ frame[t].todo \subseteq Fleets
    BY TypeParts DEF BookInv, CallsOK, Frame
  <2>3. ASSUME frame[t].pc = "write", NEW f \in frame[t].fleet
        PROVE  StatusSound(f, frame[t].answer)'
    BY <2>1, <2>2, <2>3 DEF Sound, StatusSound, Quiet, Aging, Remembered
  <2>4. QED
    BY <2>1, <2>2, <2>3 DEF Sound, Quiet, Aging
<1>4. QED
  BY <1>1, <1>2, <1>3 DEF BookInv, FramesSound

\* What happens to instances and fleets, call by call.
LEMMA AgingUnchanged ==
  ASSUME UNCHANGED <<fleet, node>>, NEW f
  PROVE  Aging(f)
BY DEF Aging, LiveNodes

\* A deletion of fleets only takes instances away, all those of each fleet.
LEMMA AgingDelete ==
  ASSUME Ec2OK, NEW F, DeleteFleets(F), NEW f \in Fleets
  PROVE  Aging(f) /\ (f \in F => LiveNodes(f)' = {})
<1>1. \A n \in Nodes : node'[f][n] = IF f \in F /\ node[f][n] \in Up THEN "down" ELSE node[f][n]
  BY DEF DeleteFleets
<1>2. fleet'[f] = IF f \in F /\ fleet[f] = "active" THEN "deleted" ELSE fleet[f]
  BY DEF DeleteFleets
<1>3. LiveNodes(f)' \subseteq LiveNodes(f) /\ (f \in F => LiveNodes(f)' = {})
  BY <1>1 DEF LiveNodes, Up
<1>4. \A n \in Nodes : node'[f][n] = "gone" => node[f][n] = "gone"
  BY <1>1
<1>5. QED
  BY <1>2, <1>3, <1>4 DEF Aging

\* One instance changes its state, but does not come up anew.
LEMMA AgingNode ==
  ASSUME Ec2OK, NEW g \in Fleets, NEW n \in Nodes, NEW s, node' = [node EXCEPT ![g][n] = s],
         s \in Up => node[g][n] \in Up, s = "gone" => "forget" \in happened', fleet' = fleet,
         NEW f \in Fleets
  PROVE  Aging(f)
<1>1. \A m \in Nodes : node'[f][m] = IF f = g /\ m = n THEN s ELSE node[f][m]
  BY DEF Ec2OK
<1>2. LiveNodes(f)' \subseteq LiveNodes(f)
  BY <1>1 DEF LiveNodes
<1>3. QED
  BY <1>1, <1>2 DEF Aging

\* terminate_block() of any set of blocks.
LEMMA TerminateSound ==
  ASSUME BookInv, NEW F \in SUBSET Fleets, NEW refused, NEW kept, TerminateBlocks(F, refused, kept),
         Remembered, NEW f \in Fleets
  PROVE  /\ Aging(f) /\ (HasBlock(f)' <=> HasBlock(f)) /\ BlockSound(f, blocks[f])'
         /\ f \in F \ refused /\ HasBlock(f) => LiveNodes(f)' = {}
<1> DEFINE known == {g \in F : HasBlock(g)} \ refused
<1>1. DeleteFleets(known) /\ Ec2OK /\ BooksOK /\ FleetSound(f)
  BY TypeParts DEF TerminateBlocks, BookInv, FleetsSound
<1>2. Aging(f) /\ (f \in known => LiveNodes(f)' = {})
  BY <1>1, AgingDelete
<1>3. /\ f \notin known => blocks'[f] = blocks[f]
      /\ f \in known => blocks'[f].status = "CANCELED" /\ blocks'[f].ids = blocks[f].ids
  BY <1>1 DEF TerminateBlocks, BooksOK, Block
<1>4. HasBlock(f)' <=> HasBlock(f)
  BY <1>3 DEF HasBlock, Absent
<1>5. BlockSound(f, blocks[f])'
  BY <1>1, <1>2, <1>3 DEF BlockSound, StatusSound, Aging, Remembered, FleetSound, Absent
<1>6. QED
  BY <1>2, <1>4, <1>5

\* Every step remembers.
LEMMA HappenRemembers ==
  ASSUME NEW K, Happen(K)
  PROVE  Remembered
BY DEF Happen, Remembered

\* Where nothing of the fleets' books changes, all fleets are quiet.
LEMMA BooksQuiet ==
  ASSUME BookInv, NEW f \in Fleets, Aging(f), Remembered,
         UNCHANGED <<blocks, resources, reported>>
  PROVE  Quiet(f) /\ BlockSound(f, blocks[f])'
<1>1. BlockSound(f, blocks[f])
  BY DEF BookInv, FleetsSound, FleetSound
<1>2. BlockSound(f, blocks[f])'
  BY <1>1 DEF Aging, BlockSound, StatusSound, Remembered
<1>3. QED
  BY <1>2 DEF Quiet, HasBlock, Tracked

\* Which frames are sound in any case.
LEMMA SoundIdle ==
  ASSUME NEW t \in Threads, frame'[t] \in {Idle, At("cleanup"), At("sweep"), At("last_sweep")}
         \/ \E j \in Jobs : frame'[t] = [At("template") EXCEPT !.job = j]
  PROVE  Sound(frame[t])' /\ frame'[t].pc \notin Launching
<1>1. /\ frame'[t].pc \in {"idle", "cleanup", "sweep", "last_sweep", "template"}
      /\ frame'[t].fleet = {} /\ frame'[t].todo = {}
  <2>1. CASE frame'[t] = Idle
    BY <2>1 DEF Idle
  <2>2. ASSUME NEW l \in {"cleanup", "sweep", "last_sweep"}, frame'[t] = At(l)
        PROVE  frame'[t].pc = l /\ frame'[t].fleet = {} /\ frame'[t].todo = {}
    BY <2>2, Frames
  <2>3. ASSUME NEW j \in Jobs, frame'[t] = [At("template") EXCEPT !.job = j]
        PROVE  frame'[t].pc = "template" /\ frame'[t].fleet = {} /\ frame'[t].todo = {}
    BY <2>3, Frames
  <2>4. QED
    BY <2>1, <2>2, <2>3
<1>2. QED
  BY <1>1 DEF Sound, Launching

\* The parts of the types that the steps below use.
LEMMA TypesOf ==
  ASSUME BookInv
  PROVE  /\ TypeOK /\ BooksOK /\ Ec2OK /\ EventsOK /\ ModeOK /\ CallsOK
         /\ \A t \in Threads : /\ frame[t] \in Frame /\ frame[t].fleet \subseteq Fleets
                               /\ frame[t].todo \subseteq Fleets /\ Sound(frame[t])
         /\ \A f \in Fleets : FleetSound(f)
BY TypeParts DEF BookInv, FramesSound, FleetsSound, CallsOK, Frame

\* submit_job() begins.
LEMMA SubmitBook ==
  ASSUME BookInv, NEW t \in Threads, NEW j \in Jobs, Submit(t, j)
  PROVE  BookInv'
<1>1. TypeOK' /\ Remembered
  BY TypesOf, SubmitType, HappenRemembers DEF Submit
<1>2. \A f \in Fleets : Quiet(f) /\ BlockSound(f, blocks[f])'
  BY <1>1, AgingUnchanged, BooksQuiet DEF Submit, SubmitUnchanged, ec2Vars, modeVars
<1>3. Stored
  BY DEF Submit, SubmitUnchanged, modeVars, Stored, Tracked
<1>4. [At("template") EXCEPT !.job = j] \in Frame
  BY NoRecords DEF Frame, Labels
<1>5. frame'[t] = [At("template") EXCEPT !.job = j] /\ \A u \in Threads : u # t => frame'[u] = frame[u]
  BY <1>4, GotoType, TypesOf DEF Submit
<1>6. Sound(frame[t])' /\ frame'[t].pc \notin Launching
  BY <1>5, SoundIdle
<1>7. QED
  BY <1>1, <1>2, <1>3, <1>5, <1>6, StepSound

\* The thread that made a template holds a fleet nobody else has.
LEMMA CreateTemplateBook ==
  ASSUME BookInv, NEW t \in Threads, CreateTemplate(t)
  PROVE  BookInv'
<1>1. TypeOK' /\ Remembered
  BY TypesOf, CreateTemplateType, HappenRemembers DEF CreateTemplate
<1>2. \A f \in Fleets : Quiet(f) /\ BlockSound(f, blocks[f])'
  <2>1. UNCHANGED <<fleet, node, blocks, resources, reported>>
    BY DEF CreateTemplate, BuildLaunchTemplateConfig, SubmitUnchanged, modeVars, managerVars, ec2Vars
  <2>2. QED
    BY <1>1, <2>1, AgingUnchanged, BooksQuiet
<1>3. Stored
  BY DEF CreateTemplate, SubmitUnchanged, modeVars, Stored, Tracked
<1>4. CASE Raise(t)
  <2>1. frame'[t] = Idle /\ \A u \in Threads : u # t => frame'[u] = frame[u]
    BY <1>4, NoRecords, GotoType, TypesOf DEF Raise
  <2>2. Sound(frame[t])' /\ frame'[t].pc \notin Launching
    BY <2>1, SoundIdle
  <2>3. QED
    BY <1>1, <1>2, <1>3, <2>1, <2>2, StepSound
<1>5. CASE \E f \in Fleets : /\ \A u \in Threads : f \notin frame[u].fleet
                             /\ BuildLaunchTemplateConfig(f)
                             /\ Goto(t, [frame[t] EXCEPT !.pc = "fleet", !.fleet = {f}])
  <2>1. PICK f \in Fleets : /\ \A u \in Threads : f \notin frame[u].fleet
                            /\ BuildLaunchTemplateConfig(f)
                            /\ Goto(t, [frame[t] EXCEPT !.pc = "fleet", !.fleet = {f}])
    BY <1>5
  <2>2. frame[t] \in Frame /\ "fleet" \in Labels /\ {f} \in SUBSET Fleets
    BY TypesOf DEF Labels
  <2>3. [frame[t] EXCEPT !.pc = "fleet", !.fleet = {f}] \in Frame
    BY <2>2, FrameOf, Zenon
  <2>4. /\ frame'[t] = [frame[t] EXCEPT !.pc = "fleet", !.fleet = {f}]
        /\ \A u \in Threads : u # t => frame'[u] = frame[u]
    BY <2>1, <2>3, GotoType, TypesOf
  <2>5. frame'[t].pc = "fleet" /\ frame'[t].fleet = {f} /\ frame'[t].todo = frame[t].todo
    BY <2>2, <2>4 DEF Frame
  <2>6. fleet'[f] = "none" /\ reported'[f] = "none" /\ ~Tracked(f)' /\ frame[t].todo = {}
    <3>1. fleet[f] = "none" /\ UNCHANGED <<fleet, reported, resources>>
      BY <2>1 DEF BuildLaunchTemplateConfig, FreshFleet, CreateTemplate, SubmitUnchanged, modeVars
    <3>2. reported[f] = "none" /\ ~Tracked(f)
      BY <3>1, TypesOf DEF FleetSound
    <3>3. frame[t].todo = {}
      BY TypesOf DEF CreateTemplate, Sound
    <3>4. QED
      BY <3>1, <3>2, <3>3 DEF Tracked
  <2>7. Sound(frame[t])'
    BY <2>5, <2>6 DEF Sound, Launching
  <2>8. \A u \in Threads : frame'[t].fleet \cap frame[u].fleet = {}
    BY <2>1, <2>5
  <2>9. QED
    BY <1>1, <1>2, <1>3, <2>4, <2>7, <2>8, StepSound
<1>6. QED
  BY <1>4, <1>5 DEF CreateTemplate

\* A launch on a fleet that no record names.
LEMMA LaunchedSound ==
  ASSUME BookInv, NEW f \in Fleets, fleet[f] = "none", Ec2OK', BooksOK', Remembered,
         \/ /\ \E N \in SUBSET Nodes : /\ Launched(f, N)
                                       /\ \/ blocks' = blocks
                                          \/ \E s \in {"RUNNING", "PENDING"} :
                                               blocks' = [blocks EXCEPT ![f] = [status |-> s, ids |-> N]]
         \/ UNCHANGED <<fleet, node, blocks>>,
         UNCHANGED <<resources, initialized, mode_store, reported>>
  PROVE  /\ FleetSound(f)'
         /\ \A g \in Fleets \ {f} : Quiet(g) /\ BlockSound(g, blocks[g])'
         /\ fleet'[f] = "active" \/ UNCHANGED <<fleet, node, blocks>>
<1>1. CASE UNCHANGED <<fleet, node, blocks>>
  <2>1. \A g \in Fleets : Aging(g)
    BY <1>1, AgingUnchanged
  <2>2. \A g \in Fleets : Quiet(g) /\ BlockSound(g, blocks[g])'
    BY <1>1, <2>1, BooksQuiet
  <2>3. Stored
    BY DEF Stored, Tracked
  <2>4. QED
    BY <1>1, <2>2, <2>3, QuietSound
<1>2. ASSUME NEW N \in SUBSET Nodes, Launched(f, N), 
             \/ blocks' = blocks
             \/ \E s \in {"RUNNING", "PENDING"} :
                  blocks' = [blocks EXCEPT ![f] = [status |-> s, ids |-> N]]
      PROVE  /\ FleetSound(f)'
             /\ \A g \in Fleets \ {f} : Quiet(g) /\ BlockSound(g, blocks[g])'
             /\ fleet'[f] = "active"
  <2>1. fleet'[f] = "active" /\ \A g \in Fleets \ {f} : fleet'[g] = fleet[g] /\ node'[g] = node[g]
    BY <1>2, TypesOf DEF Launched, Ec2OK
  <2>2. node'[f] = [n \in Nodes |-> IF n \in N THEN "pending" ELSE "none"]
    BY <1>2, TypesOf DEF Launched, Ec2OK
  <2>3. LiveNodes(f)' = N /\ \A n \in Nodes : node'[f][n] # "gone"
    BY <2>2 DEF LiveNodes, Up
  <2>4. \A g \in Fleets \ {f} : blocks'[g] = blocks[g]
    BY <1>2, TypesOf DEF BooksOK
  <2>5. \/ blocks'[f] = blocks[f]
        \/ blocks'[f].status \in {"RUNNING", "PENDING"} /\ blocks'[f].ids = N
    BY <1>2, TypesOf DEF BooksOK
  <2>6. ASSUME NEW g \in Fleets \ {f}
        PROVE  Quiet(g) /\ BlockSound(g, blocks[g])'
    <3>1. Aging(g) /\ BlockSound(g, blocks[g])
      BY <2>1, TypesOf DEF Aging, LiveNodes, FleetSound
    <3>2. BlockSound(g, blocks[g])'
      BY <3>1, <2>4 DEF BlockSound, StatusSound, Aging, Remembered
    <3>3. QED
      BY <3>1, <3>2, <2>4 DEF Quiet, HasBlock, Tracked
  <2>7. FleetSound(f)'
    <3>1. ~HasBlock(f) /\ mode_store.blocks[f].status = Absent /\ reported[f] = "none" /\ ~Tracked(f)
          /\ FleetSound(f)
      BY TypesOf DEF FleetSound
    <3>2. BlockSound(f, blocks[f])'
      BY <2>3, <2>5, <3>1 DEF BlockSound, StatusSound, HasBlock
    <3>3. BlockSound(f, mode_store.blocks[f])'
      BY <3>1 DEF BlockSound
    <3>4. QED
      BY <2>1, <2>3, <3>1, <3>2, <3>3 DEF FleetSound, Tracked
  <2>8. QED
    BY <2>1, <2>6, <2>7
<1>3. QED
  BY <1>1, <1>2

\* CreateFleet: the block gets its record with the instances, or there is none.
LEMMA CreateBook ==
  ASSUME BookInv, NEW t \in Threads, Create(t)
  PROVE  BookInv'
<1>1. TypeOK' /\ Remembered
  BY TypesOf, CreateType, HappenRemembers DEF Create
<1>2. BooksOK' /\ Ec2OK'
  BY <1>1, TypeParts
<1>3. UNCHANGED <<resources, initialized, mode_store, reported>> /\ Stored
  BY DEF Create, SubmitUnchanged, modeVars, Stored, Tracked
<1>4. frame[t].pc = "fleet" /\ frame[t] \in Frame /\ Sound(frame[t])
  BY TypesOf DEF Create
<1>5. PICK f \in Fleets : frame[t].fleet = {f}
  BY <1>4 DEF Sound, Launching
<1>6. fleet[f] = "none" /\ Own(t, f) /\ reported[f] = "none" /\ ~Tracked(f) /\ frame[t].todo = {}
  BY <1>4, <1>5 DEF Sound, Own, Launching
<1>7. \/ /\ \E N \in SUBSET Nodes :
              /\ CreateFleet(f, N)
              /\ Goto(t, [frame[t] EXCEPT !.pc = IF N = {} THEN "discard" ELSE "wait"])
      \/ /\ (\E kept \in SUBSET {f} : CreateFleetRefused(f, kept)) \/ CreateFleetLost(f, Nodes)
         /\ Raise(t)
  BY <1>5 DEF Create
<1>8. CASE Raise(t) /\ ((\E kept \in SUBSET {f} : CreateFleetRefused(f, kept)) \/ CreateFleetLost(f, Nodes))
  <2>1. frame'[t] = Idle /\ \A u \in Threads : u # t => frame'[u] = frame[u]
    BY <1>8, NoRecords, GotoType, TypesOf DEF Raise
  <2>2. Sound(frame[t])' /\ frame'[t].pc \notin Launching
    BY <2>1, SoundIdle
  <2>3. \/ \E N \in SUBSET Nodes : Launched(f, N) /\ blocks' = blocks
        \/ UNCHANGED <<fleet, node, blocks>>
    BY <1>8 DEF CreateFleetRefused, CreateFleetLost
  <2>4. FleetSound(f)' /\ \A g \in Fleets \ {f} : Quiet(g) /\ BlockSound(g, blocks[g])'
    BY <1>1, <1>2, <1>3, <1>6, <2>3, LaunchedSound
  <2>5. /\ \A g \in Fleets : Quiet(g) \/ Own(t, g)
        /\ \A g \in Fleets : Quiet(g) => BlockSound(g, blocks[g])'
        /\ \A g \in Fleets : Own(t, g) => FleetSound(g)'
    BY <1>5, <1>6, <2>4 DEF Own, FleetSound
  <2>6. QED
    BY <1>1, <1>3, <2>1, <2>2, <2>5, StepSound
<1>9. CASE \E N \in SUBSET Nodes :
              /\ CreateFleet(f, N)
              /\ Goto(t, [frame[t] EXCEPT !.pc = IF N = {} THEN "discard" ELSE "wait"])
  <2>1. PICK N \in SUBSET Nodes :
              /\ CreateFleet(f, N)
              /\ Goto(t, [frame[t] EXCEPT !.pc = IF N = {} THEN "discard" ELSE "wait"])
    BY <1>9
  <2>2. [frame[t] EXCEPT !.pc = IF N = {} THEN "discard" ELSE "wait"] \in Frame
    BY <1>4, FrameAt DEF Labels
  <2>3. /\ frame'[t] = [frame[t] EXCEPT !.pc = IF N = {} THEN "discard" ELSE "wait"]
        /\ \A u \in Threads : u # t => frame'[u] = frame[u]
    BY <2>1, <2>2, GotoType, TypesOf
  <2>4. frame'[t].pc \in {"discard", "wait"} /\ frame'[t].fleet = {f} /\ frame'[t].todo = {}
    BY <1>4, <1>5, <1>6, <2>3 DEF Frame
  <2>5. /\ Launched(f, N)
        /\ \E s \in {"RUNNING", "PENDING"} : blocks' = [blocks EXCEPT ![f] = [status |-> s, ids |-> N]]
    BY <2>1 DEF CreateFleet
  <2>6. FleetSound(f)' /\ \A g \in Fleets \ {f} : Quiet(g) /\ BlockSound(g, blocks[g])'
    BY <1>1, <1>2, <1>3, <1>6, <2>5, LaunchedSound
  <2>7. fleet'[f] = "active" /\ HasBlock(f)'
    BY <2>5, TypesOf DEF Launched, HasBlock, Ec2OK, BooksOK, Absent
  <2>8. Sound(frame[t])'
    BY <1>3, <1>6, <2>4, <2>7 DEF Sound, Launching, Tracked
  <2>9. /\ \A g \in Fleets : Quiet(g) \/ Own(t, g)
        /\ \A g \in Fleets : Quiet(g) => BlockSound(g, blocks[g])'
        /\ \A g \in Fleets : Own(t, g) => FleetSound(g)'
    BY <1>5, <1>6, <2>6 DEF Own, FleetSound
  <2>10. \A u \in Threads : u # t /\ frame[u].pc \in Launching => frame'[t].fleet \cap frame[u].fleet = {}
    BY <1>4, <1>5, <2>4 DEF BookInv, Apart, Launching
  <2>11. QED
    BY <1>1, <1>3, <2>3, <2>8, <2>9, <2>10, StepSound
<1>10. QED
  BY <1>7, <1>8, <1>9

\* Noting what get_block_status() found.
LEMMA NotedSound ==
  ASSUME BookInv, NEW f \in Fleets, HasBlock(f), fleet[f] # "none", Remembered,
         UNCHANGED <<resources, reported, fleet, node>>,
         \/ blocks' = blocks
         \/ \E s \in Status : /\ StatusSound(f, s)
                              /\ blocks' = NotedStatus(f, s)
  PROVE  \A g \in Fleets : Quiet(g) /\ BlockSound(g, blocks[g])'
<1>1. \A g \in Fleets : Aging(g)
  BY AgingUnchanged
<1>2. CASE blocks' = blocks
  BY <1>1, <1>2, BooksQuiet
<1>3. ASSUME NEW s \in Status, StatusSound(f, s), blocks' = NotedStatus(f, s), NEW g \in Fleets
      PROVE  Quiet(g) /\ BlockSound(g, blocks[g])'
  <2>1. /\ g # f => blocks'[g] = blocks[g]
        /\ g = f => blocks'[g].status = s /\ blocks'[g].ids = blocks[g].ids
    BY <1>3, TypesOf DEF NotedStatus, BooksOK, Block
  <2>2. HasBlock(g)' <=> HasBlock(g)
    BY <2>1, NoRecords DEF HasBlock
  <2>3. BlockSound(g, blocks[g])
    BY TypesOf DEF FleetSound
  <2>4. BlockSound(g, blocks[g])'
    BY <1>1, <1>3, <2>1, <2>3 DEF BlockSound, StatusSound, Aging, Remembered, HasBlock
  <2>5. QED
    BY <1>1, <2>2, <2>4 DEF Quiet, Tracked
<1>4. QED
  BY <1>2, <1>3

\* What get_block_status() derives from EC2 is sound.
LEMMA BlockStatusSound ==
  ASSUME BookInv, NEW f \in Fleets, HasBlock(f)
  PROVE  StatusSound(f, BlockStatus(f))
<1>1. FleetSound(f) /\ LiveNodes(f) \subseteq blocks[f].ids
  BY TypesOf DEF FleetSound, BlockSound, HasBlock
<1>2. BlockStatus(f) # "INTERRUPTED"
  BY BlockStatusType
<1>3. FleetVerdict(f) # Absent => LiveNodes(f) = {}
  BY <1>1 DEF FleetVerdict, FleetSound
<1>4. FleetVerdict(f) = Absent => BlockStatus(f) \in {"PENDING", "RUNNING", "COMPLETED"}
  BY DEF BlockStatus, StatusFromInstances
<1>5. ASSUME StatusFromInstances(f) = "COMPLETED", "forget" \notin happened
      PROVE  LiveNodes(f) = {}
  <2> DEFINE In(S) == {n \in blocks[f].ids : node[f][n] \in S}
  <2>1. blocks[f].ids \subseteq Nodes
    BY TypesOf DEF BooksOK, Block
  <2>2. In({"gone"}) = {}
    BY <1>1, <1>5, <2>1 DEF FleetSound
  <2>3. In({"down"}) = blocks[f].ids
    BY <1>5, <2>2 DEF StatusFromInstances
  <2>4. QED
    BY <1>1, <2>3 DEF LiveNodes, Up
<1>6. QED
  BY <1>2, <1>3, <1>4, <1>5 DEF StatusSound, BlockStatus

\* The status the wait notes is one the instances justify.
LEMMA WaitRunningBook ==
  ASSUME BookInv, NEW t \in Threads, WaitRunning(t)
  PROVE  BookInv'
<1>1. TypeOK' /\ Remembered
  BY TypesOf, WaitRunningType, HappenRemembers DEF WaitRunning
<1>2. UNCHANGED <<resources, initialized, mode_store, reported, fleet, node>> /\ Stored
  BY DEF WaitRunning, SubmitUnchanged, modeVars, ec2Vars, Stored, Tracked
<1>3. frame[t].pc = "wait" /\ frame[t] \in Frame /\ Sound(frame[t])
  BY TypesOf DEF WaitRunning
<1>4. PICK f \in Fleets : frame[t].fleet = {f}
  BY <1>3 DEF Sound, Launching
<1>5. Own(t, f) /\ HasBlock(f) /\ fleet[f] # "none" /\ reported[f] = "none" /\ ~Tracked(f)
      /\ frame[t].todo = {}
  BY <1>3, <1>4 DEF Sound, Own, Launching
<1>6. /\ \/ blocks' = blocks
         \/ blocks' = NotedStatus(f, BlockStatus(f))
      /\ \E l \in {"register", "discard"} : Goto(t, [frame[t] EXCEPT !.pc = l])
  BY <1>4 DEF WaitRunning
<1>7. PICK l \in {"register", "discard"} : Goto(t, [frame[t] EXCEPT !.pc = l])
  BY <1>6
<1>8. /\ frame'[t] = [frame[t] EXCEPT !.pc = l]
      /\ \A u \in Threads : u # t => frame'[u] = frame[u]
  BY <1>3, <1>7, FrameAt, GotoType, TypesOf DEF Labels
<1>9. frame'[t].pc \in {"register", "discard"} /\ frame'[t].fleet = {f} /\ frame'[t].todo = {}
  BY <1>3, <1>4, <1>5, <1>8 DEF Frame
<1>10. \A g \in Fleets : Quiet(g) /\ BlockSound(g, blocks[g])'
  BY <1>1, <1>2, <1>5, <1>6, NotedSound, BlockStatusSound, BlockStatusType DEF Status
<1>11. Sound(frame[t])'
  BY <1>2, <1>5, <1>9, <1>10 DEF Sound, Launching, Tracked, Quiet
<1>12. \A u \in Threads : u # t /\ frame[u].pc \in Launching => frame'[t].fleet \cap frame[u].fleet = {}
  BY <1>3, <1>4, <1>9 DEF BookInv, Apart, Launching
<1>13. QED
  BY <1>1, <1>2, <1>8, <1>10, <1>11, <1>12, StepSound

\* The discarded block is in no other book.
LEMMA DiscardBook ==
  ASSUME BookInv, NEW t \in Threads, Discard(t)
  PROVE  BookInv'
<1>1. PICK refused, kept \in SUBSET frame[t].fleet :
        DeleteFleets(frame[t].fleet \ refused) /\ Deletion(refused, kept)
  BY DEF Discard
<1>2. TypeOK' /\ Remembered
  BY <1>1, TypesOf, DiscardType, HappenRemembers DEF Deletion, DeletionAnd
<1>3. UNCHANGED <<resources, initialized, mode_store, reported>> /\ Stored
  BY DEF Discard, SubmitUnchanged, modeVars, Stored, Tracked
<1>4. frame[t].pc = "discard" /\ frame[t] \in Frame /\ Sound(frame[t])
  BY TypesOf DEF Discard
<1>5. PICK f \in Fleets : frame[t].fleet = {f}
  BY <1>4 DEF Sound, Launching
<1>6. frame'[t] = Idle /\ \A u \in Threads : u # t => frame'[u] = frame[u]
  BY NoRecords, GotoType, TypesOf DEF Discard, Raise
<1>7. Sound(frame[t])' /\ frame'[t].pc \notin Launching
  BY <1>6, SoundIdle
<1>8. \A g \in Fleets : Aging(g)
  BY <1>1, TypesOf, AgingDelete
<1>9. \A g \in Fleets \ {f} : Quiet(g)
  <2>1. \A g \in Fleets \ {f} : blocks'[g] = blocks[g]
    BY <1>5 DEF Discard
  <2>2. QED
    BY <1>3, <1>8, <2>1 DEF Quiet, HasBlock, Tracked
<1>10. \A g \in Fleets : BlockSound(g, blocks[g])'
  <2>1. ASSUME NEW g \in Fleets PROVE blocks'[g] = blocks[g] \/ blocks'[g].status = Absent
    BY DEF Discard, NoBlock
  <2>2. QED
    BY <1>2, <1>8, <2>1, TypesOf DEF FleetSound, BlockSound, StatusSound, Aging, Remembered
<1>11. FleetSound(f)'
  <2>1. FleetSound(f) /\ ~Tracked(f) /\ blocks'[f].status = Absent
    BY <1>4, <1>5, TypesOf DEF Sound, Launching, Discard, NoBlock
  <2>2. BlockSound(f, mode_store.blocks[f])'
    BY <1>2, <1>3, <1>8, <2>1 DEF FleetSound, BlockSound, StatusSound, Aging, Remembered
  <2>3. QED
    BY <1>2, <1>3, <1>8, <1>10, <2>1, <2>2 DEF FleetSound, Aging, Tracked, HasBlock, Remembered
<1>12. \A g \in Fleets : Quiet(g) \/ (Own(t, g) /\ FleetSound(g)')
  BY <1>4, <1>5, <1>9, <1>11 DEF Own, Launching
<1>13. \A g \in Fleets : Own(t, g) => Quiet(g) \/ FleetSound(g)'
  BY <1>12
<1>14. QED
  BY <1>2, <1>3, <1>6, <1>7, <1>10, <1>12, <1>13, StepSound

\* Registering changes the monitor's books only.
LEMMA RegisterBook ==
  ASSUME BookInv, NEW t \in Threads, Register(t)
  PROVE  BookInv'
<1>1. TypeOK' /\ Remembered
  BY TypesOf, RegisterType, HappenRemembers DEF Register
<1>2. UNCHANGED <<resources, initialized, mode_store, reported, fleet, node, blocks>> /\ Stored
  BY DEF Register, modeVars, ec2Vars, managerVars, Stored, Tracked
<1>3. frame[t].pc = "register" /\ frame[t] \in Frame /\ Sound(frame[t])
  BY TypesOf DEF Register
<1>4. [frame[t] EXCEPT !.pc = "track"] \in Frame
  BY <1>3, FrameAt DEF Labels
<1>5. /\ frame'[t] = [frame[t] EXCEPT !.pc = "track"]
      /\ \A u \in Threads : u # t => frame'[u] = frame[u]
  BY <1>4, GotoType, TypesOf DEF Register
<1>6. frame'[t].pc = "track" /\ frame'[t].fleet = frame[t].fleet /\ frame'[t].todo = frame[t].todo
  BY <1>3, <1>5 DEF Frame
<1>7. \A g \in Fleets : Quiet(g) /\ BlockSound(g, blocks[g])'
  BY <1>1, <1>2, AgingUnchanged, BooksQuiet
<1>8. Sound(frame[t])'
  BY <1>2, <1>3, <1>6 DEF Sound, Launching, Tracked, HasBlock
<1>9. \A u \in Threads : u # t /\ frame[u].pc \in Launching => frame'[t].fleet \cap frame[u].fleet = {}
  BY <1>3, <1>6 DEF BookInv, Apart, Launching
<1>10. QED
  BY <1>1, <1>2, <1>5, <1>7, <1>8, <1>9, StepSound

\* A tracked block has its record in the manager and in the document.
LEMMA TrackBook ==
  ASSUME BookInv, NEW t \in Threads, Track(t)
  PROVE  BookInv'
<1>1. TypeOK' /\ Remembered
  BY TypesOf, TrackType, HappenRemembers DEF Track
<1>2. UNCHANGED <<fleet, node, blocks>> /\ Save /\ Stored
  BY DEF Track, ec2Vars, managerVars, Stored
<1>3. frame[t].pc = "track" /\ frame[t] \in Frame /\ Sound(frame[t])
  BY TypesOf DEF Track
<1>4. PICK f \in Fleets :
        /\ frame[t].fleet = {f}
        /\ resources' = [resources EXCEPT ![f] = [status |-> "PENDING", job |-> frame[t].job]]
        /\ reported' = [reported EXCEPT ![f] = "PENDING"]
  BY <1>3 DEF Track, Sound, Launching
<1>5. HasBlock(f) /\ fleet[f] # "none" /\ Own(t, f)
  BY <1>3, <1>4 DEF Sound, Launching, Own
<1>6. frame'[t] = Idle /\ \A u \in Threads : u # t => frame'[u] = frame[u]
  BY NoRecords, GotoType, TypesOf DEF Track
<1>7. Sound(frame[t])' /\ frame'[t].pc \notin Launching
  BY <1>6, SoundIdle
<1>8. \A g \in Fleets : Aging(g) /\ BlockSound(g, blocks[g])'
  BY <1>1, <1>2, AgingUnchanged, TypesOf DEF BlockSound, StatusSound, FleetSound, LiveNodes, Remembered
<1>9. \A g \in Fleets \ {f} : Quiet(g)
  <2>1. \A g \in Fleets \ {f} : resources'[g] = resources[g] /\ reported'[g] = reported[g]
    BY <1>4, TypesOf DEF ModeOK, CallsOK
  <2>2. QED
    BY <1>2, <1>8, <2>1 DEF Quiet, HasBlock, Tracked
<1>10. FleetSound(f)'
  <2>1. FleetSound(f)
    BY TypesOf
  <2>2. reported'[f] = "PENDING"
    BY <1>4, TypesOf DEF CallsOK
  <2>3. mode_store'.resources = resources' /\ mode_store'.blocks = blocks'
    BY <1>2 DEF Save
  <2>4. QED
    BY <1>1, <1>2, <1>5, <1>8, <2>1, <2>2, <2>3 DEF FleetSound, Aging, Tracked, HasBlock, Remembered
<1>11. \A g \in Fleets : Quiet(g) \/ Own(t, g)
  BY <1>5, <1>9
<1>12. \A g \in Fleets : Own(t, g) => Quiet(g) \/ FleetSound(g)'
  BY <1>9, <1>10
<1>13. QED
  BY <1>1, <1>2, <1>6, <1>7, <1>8, <1>11, <1>12, StepSound

\* The poll takes up blocks the provider was given only.
LEMMA StatusBeginBook ==
  ASSUME BookInv, NEW t \in Threads, StatusBegin(t)
  PROVE  BookInv'
<1> DEFINE todo == MustAsk(Unsettled)
<1>1. TypeOK' /\ Remembered
  BY TypesOf, StatusBeginType, HappenRemembers DEF StatusBegin
<1>2. UNCHANGED <<resources, initialized, fleet, node, blocks>> /\ Stored
  BY DEF StatusBegin, ec2Vars, managerVars, Stored, Tracked
<1>3. todo \subseteq Unsettled
  BY DEF MustAsk
<1>4. \A f \in Fleets : Quiet(f) /\ BlockSound(f, blocks[f])'
  <2>1. \A f \in Fleets : reported'[f] = IF f \in Unsettled \ todo THEN LocalStatus(f) ELSE reported[f]
    BY DEF StatusBegin, Answered
  <2>2. \A f \in Fleets : reported'[f] = "none" <=> reported[f] = "none"
    BY <2>1 DEF LocalStatus, Unsettled, Recorded
  <2>3. ASSUME NEW f \in Fleets PROVE Aging(f) /\ BlockSound(f, blocks[f])'
    BY <1>1, <1>2, AgingUnchanged, TypesOf DEF BlockSound, StatusSound, FleetSound, LiveNodes, Remembered
  <2>4. QED
    BY <1>2, <2>2, <2>3 DEF Quiet, HasBlock, Tracked
<1>5. /\ frame'[t] \in {Idle, [At("describe") EXCEPT !.todo = todo]}
      /\ \A u \in Threads : u # t => frame'[u] = frame[u]
  <2>1. [At("describe") EXCEPT !.todo = todo] \in Frame
    BY Frames DEF Frame, Labels, MustAsk, Unsettled, Recorded
  <2>2. QED
    BY <2>1, NoRecords, GotoType, TypesOf DEF StatusBegin
<1>6. CASE frame'[t] = Idle
  <2>1. Sound(frame[t])' /\ frame'[t].pc \notin Launching
    BY <1>6, SoundIdle
  <2>2. QED
    BY <1>1, <1>2, <1>4, <1>5, <2>1, StepSound
<1>7. CASE frame'[t] = [At("describe") EXCEPT !.todo = todo]
  <2>1. frame'[t].pc = "describe" /\ frame'[t].fleet = {} /\ frame'[t].todo = todo
    BY <1>7, Frames
  <2>2. \A f \in todo : reported'[f] # "none"
    BY <1>3, <1>4 DEF Quiet, Unsettled, Recorded
  <2>3. Sound(frame[t])' /\ frame'[t].pc \notin Launching
    BY <2>1, <2>2 DEF Sound, Launching
  <2>4. QED
    BY <1>1, <1>2, <1>4, <1>5, <2>3, StepSound
<1>8. QED
  BY <1>5, <1>6, <1>7

\* Its answer for a block is sound when it is given ...
LEMMA DescribeBlockBook ==
  ASSUME BookInv, NEW t \in Threads, DescribeBlock(t)
  PROVE  BookInv'
<1> DEFINE Answer(f, answer) ==
             /\ blocks' = IF HasBlock(f) THEN NotedStatus(f, answer) ELSE blocks
             /\ Goto(t, [frame[t] EXCEPT !.pc = "write", !.fleet = {f}, !.answer = answer])
<1>1. TypeOK' /\ Remembered
  BY TypesOf, DescribeBlockType, HappenRemembers DEF DescribeBlock
<1>2. UNCHANGED <<resources, initialized, mode_store, reported, fleet, node>> /\ Stored
  BY DEF DescribeBlock, ec2Vars, modeVars, Stored, Tracked
<1>3. PICK f \in frame[t].todo : \E answer \in BlockAnswers(f) : Answer(f, answer)
  BY DEF DescribeBlock
<1>4. f \in Fleets /\ reported[f] # "none" /\ fleet[f] # "none" /\ frame[t] \in Frame /\ Sound(frame[t])
  BY TypesOf DEF Sound, FleetSound
<1>5. PICK answer \in BlockAnswers(f) : Answer(f, answer)
  BY <1>3
<1>6. answer \in Status
  BY <1>4, AnswersType, TypesOf
<1>7. StatusSound(f, answer)
  <2>1. CASE ~HasBlock(f)
    BY <2>1 DEF BlockAnswers, StatusSound
  <2>2. CASE HasBlock(f)
    <3>1. StatusSound(f, BlockStatus(f)) /\ StatusSound(f, blocks[f].status)
      BY <1>4, <2>2, BlockStatusSound, TypesOf DEF FleetSound, BlockSound, HasBlock
    <3>2. StatusSound(f, "RUNNING")
      BY DEF StatusSound
    <3>3. answer \in {BlockStatus(f), blocks[f].status, "RUNNING"}
      BY <2>2 DEF BlockAnswers
    <3>4. QED
      BY <3>1, <3>2, <3>3
  <2>3. QED
    BY <2>1, <2>2
<1>8. \A g \in Fleets : Quiet(g) /\ BlockSound(g, blocks[g])'
  <2>1. CASE HasBlock(f)
    BY <1>1, <1>2, <1>4, <1>5, <1>6, <1>7, <2>1, NotedSound
  <2>2. CASE ~HasBlock(f)
    BY <1>1, <1>2, <1>5, <2>2, AgingUnchanged, BooksQuiet
  <2>3. QED
    BY <2>1, <2>2
<1>9. [frame[t] EXCEPT !.pc = "write", !.fleet = {f}, !.answer = answer] \in Frame
  <2>1. frame[t] \in Frame /\ "write" \in Labels /\ {f} \in SUBSET Fleets
    BY <1>4 DEF Labels
  <2>2. QED
    BY <1>6, <2>1, FrameAnswer, Zenon
<1>10. /\ frame'[t] = [frame[t] EXCEPT !.pc = "write", !.fleet = {f}, !.answer = answer]
       /\ \A u \in Threads : u # t => frame'[u] = frame[u]
  BY <1>5, <1>9, GotoType, TypesOf
<1>11. frame'[t].pc = "write" /\ frame'[t].fleet = {f} /\ frame'[t].answer = answer
       /\ frame'[t].todo = frame[t].todo
  BY <1>4, <1>10 DEF Frame
<1>12. Sound(frame[t])' /\ frame'[t].pc \notin Launching
  <2>1. StatusSound(f, answer)'
    BY <1>1, <1>2, <1>7 DEF StatusSound, LiveNodes, Remembered
  <2>2. \A g \in frame[t].todo : reported'[g] # "none"
    BY <1>2, <1>4 DEF Sound
  <2>3. answer # Absent
    BY <1>6, NoRecords
  <2>4. QED
    BY <1>4, <1>11, <2>1, <2>2, <2>3 DEF Sound, Launching
<1>13. QED
  BY <1>1, <1>2, <1>8, <1>10, <1>12, StepSound

\* ... and still when it is recorded.
LEMMA WriteStatusBook ==
  ASSUME BookInv, NEW t \in Threads, WriteStatus(t)
  PROVE  BookInv'
<1> DEFINE todo == frame[t].todo \ frame[t].fleet
<1>1. frame[t].pc = "write" /\ frame[t] \in Frame /\ Sound(frame[t]) /\ frame[t].answer \in Status
  BY TypesOf DEF WriteStatus, Sound, Frame
<1>2. TypeOK' /\ Remembered
  BY <1>1, NoRecords, TypesOf, WriteStatusType, HappenRemembers DEF WriteStatus
<1>3. UNCHANGED <<initialized, fleet, node, blocks>>
  BY DEF WriteStatus, ec2Vars, managerVars
<1>4. \A f \in Fleets : (Tracked(f)' <=> Tracked(f)) /\ resources'[f].job = resources[f].job
  <2>1. ASSUME NEW f \in Fleets
        PROVE  \/ resources'[f] = resources[f]
               \/ Tracked(f) /\ resources'[f] = [resources[f] EXCEPT !.status = frame[t].answer]
    BY DEF WriteStatus
  <2>2. QED
    BY <1>1, <2>1, NoRecords, TypesOf DEF Tracked, ModeOK, Record
<1>5. Stored
  BY <1>4 DEF WriteStatus, Stored
<1>6. \A f \in Fleets : Quiet(f) /\ BlockSound(f, blocks[f])'
  <2>1. \A f \in Fleets : reported'[f] = "none" <=> reported[f] = "none"
    BY <1>1 DEF WriteStatus, Recorded, Status
  <2>2. ASSUME NEW f \in Fleets PROVE Aging(f) /\ BlockSound(f, blocks[f])'
    BY <1>2, <1>3, AgingUnchanged, TypesOf DEF BlockSound, StatusSound, FleetSound, LiveNodes, Remembered
  <2>3. QED
    BY <1>3, <1>4, <2>1, <2>2 DEF Quiet, HasBlock
<1>7. /\ frame'[t] \in {Idle, [At("describe") EXCEPT !.todo = todo]}
      /\ \A u \in Threads : u # t => frame'[u] = frame[u]
  <2>1. [At("describe") EXCEPT !.todo = todo] \in Frame
    BY TypesOf, Frames DEF Frame, Labels
  <2>2. QED
    BY <2>1, NoRecords, GotoType, TypesOf DEF WriteStatus
<1>8. CASE frame'[t] = Idle
  <2>1. Sound(frame[t])' /\ frame'[t].pc \notin Launching
    BY <1>8, SoundIdle
  <2>2. QED
    BY <1>2, <1>5, <1>6, <1>7, <2>1, StepSound
<1>9. CASE frame'[t] = [At("describe") EXCEPT !.todo = todo]
  <2>1. frame'[t].pc = "describe" /\ frame'[t].fleet = {} /\ frame'[t].todo = todo
    BY <1>9, Frames
  <2>2. \A f \in todo : reported'[f] # "none"
    BY <1>1, <1>6, TypesOf DEF Quiet, Sound
  <2>3. Sound(frame[t])' /\ frame'[t].pc \notin Launching
    BY <2>1, <2>2 DEF Sound, Launching
  <2>4. QED
    BY <1>2, <1>5, <1>6, <1>7, <2>3, StepSound
<1>10. QED
  BY <1>7, <1>8, <1>9

\* A canceled block is as sound as before.
LEMMA CancelBook ==
  ASSUME BookInv, NEW t \in Threads, NEW f \in Fleets, Cancel(t, f)
  PROVE  BookInv'
<1>1. PICK refused \in SUBSET (IF HasBlock(f) THEN {f} ELSE {}), kept \in SUBSET {f}, s \in Status :
        /\ TerminateBlocks({f} \cap TrackedFleets, refused, kept)
        /\ Deletion(refused, kept)
        /\ resources' = [resources EXCEPT ![f].status = IF Tracked(f) THEN s ELSE @]
        /\ reported' = [reported EXCEPT ![f] = s]
  BY DEF Cancel, Status
<1>2. TypeOK' /\ Remembered
  BY <1>1, TypesOf, CancelType, HappenRemembers DEF Deletion, DeletionAnd
<1>3. Stored
  BY DEF Cancel, Stored
<1>4. \A g \in Fleets : Quiet(g) /\ BlockSound(g, blocks[g])'
  <2>1. \A g \in Fleets : Tracked(g)' <=> Tracked(g)
    BY <1>1, NoRecords, TypesOf DEF Tracked, ModeOK, Record
  <2>2. \A g \in Fleets : reported'[g] = "none" <=> reported[g] = "none"
    BY <1>1, TypesOf DEF Cancel, Recorded, Status, CallsOK
  <2>3. \A g \in Fleets : Aging(g) /\ (HasBlock(g)' <=> HasBlock(g)) /\ BlockSound(g, blocks[g])'
    BY <1>1, <1>2, TerminateSound
  <2>4. QED
    BY <2>1, <2>2, <2>3 DEF Quiet
<1>5. frame'[t] = At("cleanup") /\ \A u \in Threads : u # t => frame'[u] = frame[u]
  BY NoRecords, GotoType, TypesOf DEF Cancel, Labels
<1>6. Sound(frame[t])' /\ frame'[t].pc \notin Launching
  BY <1>5, SoundIdle
<1>7. QED
  BY <1>2, <1>3, <1>4, <1>5, <1>6, StepSound

\* Dropping records, and nothing else of the books, is quiet.
LEMMA DropQuiet ==
  ASSUME BookInv, NEW F, NEW G \in SUBSET Fleets, NEW refused, NEW kept,
         TerminateBlocks(G, refused, kept), DropRecords(F), Remembered,
         NEW f \in Fleets, reported'[f] = "none" <=> reported[f] = "none"
  PROVE  Quiet(f) /\ BlockSound(f, blocks[f])'
<1>1. Tracked(f)' => Tracked(f)
  BY DEF DropRecords, Tracked, NoRecord
<1>2. QED
  BY <1>1, TerminateSound DEF Quiet

\* So are the blocks that a cleanup passes over.
LEMMA CleanupBook ==
  ASSUME BookInv, NEW t \in Threads, Cleanup(t)
  PROVE  BookInv'
<1> DEFINE ended == {f \in Recorded : reported[f] \in Terminal}
<1>1. PICK refused, kept \in SUBSET (ended \cap TrackedFleets) :
        /\ TerminateBlocks(ended \cap TrackedFleets, refused, kept)
        /\ DropRecords(ended \ {f \in refused : HasBlock(f)})
        /\ Deletion(refused, kept)
  BY DEF Cleanup
<1>2. TypeOK' /\ Remembered
  BY <1>1, TypesOf, CleanupType, HappenRemembers DEF Deletion, DeletionAnd
<1>3. Stored
  BY DEF Cleanup, Stored
<1>4. \A g \in Fleets : reported'[g] = "none" <=> reported[g] = "none"
  BY DEF Cleanup, Recorded
<1>5. ended \cap TrackedFleets \in SUBSET Fleets
  BY DEF TrackedFleets
<1>6. \A g \in Fleets : Quiet(g) /\ BlockSound(g, blocks[g])'
  BY <1>1, <1>2, <1>4, <1>5, DropQuiet
<1>7. frame'[t] = Idle /\ \A u \in Threads : u # t => frame'[u] = frame[u]
  BY NoRecords, GotoType, TypesOf DEF Cleanup
<1>8. Sound(frame[t])' /\ frame'[t].pc \notin Launching
  BY <1>7, SoundIdle
<1>9. QED
  BY <1>2, <1>3, <1>6, <1>7, <1>8, StepSound

\* So are those a shutdown could not delete.
LEMMA ShutdownBook ==
  ASSUME BookInv, NEW t \in Threads, Shutdown(t)
  PROVE  BookInv'
<1>1. TypeOK'
  BY TypesOf, ShutdownType
<1>2. /\ frame'[t] \in {At("sweep"), At("last_sweep")}
      /\ \A u \in Threads : u # t => frame'[u] = frame[u]
  BY NoRecords, GotoType, TypesOf DEF Shutdown, Labels
<1>3. Sound(frame[t])' /\ frame'[t].pc \notin Launching
  BY <1>2, SoundIdle
<1>4. reported' = reported
  BY DEF Shutdown, ShutdownUnchanged
<1>5. CASE TrackedFleets = {}
  <2>1. UNCHANGED <<fleet, node, blocks, resources, mode_store>> /\ Remembered
    BY <1>5, HappenRemembers DEF Shutdown, managerVars, ec2Vars
  <2>2. \A g \in Fleets : Quiet(g) /\ BlockSound(g, blocks[g])'
    BY <1>4, <2>1, AgingUnchanged, BooksQuiet
  <2>3. Stored
    BY <2>1 DEF Stored, Tracked
  <2>4. QED
    BY <1>1, <1>2, <1>3, <2>1, <2>2, <2>3, StepSound
<1>6. CASE TrackedFleets # {}
  <2>1. PICK refused, kept \in SUBSET TrackedFleets :
          /\ TerminateBlocks(TrackedFleets, refused, kept)
          /\ DropRecords(TrackedFleets \ {f \in refused : HasBlock(f)})
          /\ \E late : DeletionAnd(refused, kept, late)
    BY <1>6 DEF Shutdown
  <2>2. Remembered /\ Stored /\ TrackedFleets \in SUBSET Fleets
    BY <1>6, <2>1, HappenRemembers DEF Shutdown, DeletionAnd, Stored, TrackedFleets
  <2>3. \A g \in Fleets : Quiet(g) /\ BlockSound(g, blocks[g])'
    BY <1>4, <2>1, <2>2, DropQuiet
  <2>4. QED
    BY <1>1, <1>2, <1>3, <2>2, <2>3, StepSound
<1>7. QED
  BY <1>5, <1>6

\* cleanup_all_resources() leaves the books as they are.
LEMMA CleanupAllSound ==
  ASSUME BookInv, NEW refused, NEW kept, CleanupAllResources(refused, kept), Remembered,
         UNCHANGED <<resources, reported>>, NEW f \in Fleets
  PROVE  Quiet(f) /\ BlockSound(f, blocks[f])'
<1>1. Aging(f)
  BY AgingDelete, TypesOf DEF CleanupAllResources
<1>2. QED
  BY <1>1, BooksQuiet DEF CleanupAllResources

\* Neither sweep touches a record of a block.
LEMMA SweepBook ==
  ASSUME BookInv, NEW t \in Threads, Sweep(t) \/ LastSweep(t)
  PROVE  BookInv'
<1>1. PICK refused \in SUBSET fleet_requests, kept \in SUBSET launch_templates :
        CleanupAllResources(refused, kept) /\ Deletion(refused, kept)
  BY DEF Sweep, LastSweep
<1>2. TypeOK' /\ Remembered
  BY <1>1, TypesOf, SweepType, LastSweepType, HappenRemembers DEF Deletion, DeletionAnd
<1>3. Stored
  BY DEF Sweep, LastSweep, Stored, modeVars, Tracked
<1>4. \A g \in Fleets : Quiet(g) /\ BlockSound(g, blocks[g])'
  <2>1. UNCHANGED <<resources, reported>>
    BY DEF Sweep, LastSweep, ShutdownUnchanged, modeVars
  <2>2. QED
    BY <1>1, <1>2, <2>1, CleanupAllSound
<1>5. /\ frame'[t] \in {Idle, At("last_sweep")}
      /\ \A u \in Threads : u # t => frame'[u] = frame[u]
  BY NoRecords, GotoType, TypesOf DEF Sweep, LastSweep, Labels
<1>6. Sound(frame[t])' /\ frame'[t].pc \notin Launching
  BY <1>5, SoundIdle
<1>7. QED
  BY <1>2, <1>3, <1>4, <1>5, <1>6, StepSound

\* The monitor changes a record's status, and no other book.
LEMMA MonitorStepBook ==
  ASSUME BookInv, MonitorStep
  PROVE  BookInv'
<1>1. TypeOK' /\ UNCHANGED <<fleet, node, blocks, reported, frame, mode_store>> /\ Remembered
  <2>1. TypeOK'
    BY TypesOf, MonitorStepType
  <2>2. UNCHANGED <<fleet, node, blocks, reported, frame, mode_store>>
    BY DEF MonitorStep, MonitorUnchanged, MarkInterrupted, HandlerRaises, managerVars, ec2Vars,
           modeVars, callVars
  <2>3. Remembered
    BY HappenRemembers DEF MonitorStep, ReceiveWarning, ListFleet, DescribeListed, TakeEvent,
           MarkInterrupted, HandlerRaises
  <2>4. QED
    BY <2>1, <2>2, <2>3
<1>2. \A f \in Fleets : (Tracked(f)' <=> Tracked(f)) /\ resources'[f].job = resources[f].job
  <2>1. CASE resources' = resources
    BY <2>1 DEF Tracked
  <2>2. CASE MarkInterrupted
    <3>1. ASSUME NEW f \in Fleets
          PROVE  \/ resources'[f] = resources[f]
                 \/ Tracked(f) /\ resources'[f] = [resources[f] EXCEPT !.status = "INTERRUPTED"]
      BY <2>2 DEF MarkInterrupted, ResourceIdsForFleet, TrackedFleets
    <3>2. QED
      BY <3>1, NoRecords, TypesOf DEF Tracked, ModeOK, Record, Absent
  <2>3. QED
    BY <2>1, <2>2 DEF MonitorStep, MonitorUnchanged, HandlerRaises, modeVars
<1>3. Stored
  BY <1>1, <1>2 DEF Stored
<1>4. \A f \in Fleets : Quiet(f) /\ BlockSound(f, blocks[f])'
  <2>1. \A f \in Fleets : Aging(f) /\ BlockSound(f, blocks[f])'
    BY <1>1, AgingUnchanged, TypesOf DEF BlockSound, StatusSound, FleetSound, LiveNodes, Remembered
  <2>2. QED
    BY <1>1, <1>2, <2>1 DEF Quiet, HasBlock
<1>5. QED
  BY <1>1, <1>3, <1>4, NoThreadSound

\* Instances end, and are forgotten, by themselves.
LEMMA EnvironmentStepBook ==
  ASSUME BookInv, EnvironmentStep
  PROVE  BookInv'
<1>1. TypeOK'
  BY TypesOf, EnvironmentStepType
<1>2. /\ UNCHANGED <<blocks, resources, mode_store, reported, frame>>
      /\ Remembered
      /\ \A f \in Fleets : Aging(f)
  <2>1. ASSUME NEW g \in Fleets, NEW n \in Nodes, Warn(g, n)
        PROVE  /\ UNCHANGED <<blocks, resources, mode_store, reported, frame>>
               /\ Remembered
               /\ \A f \in Fleets : Aging(f)
    BY <2>1, HappenRemembers, AgingUnchanged DEF Warn, managerVars, ec2Vars, modeVars, callVars
  <2>2. CASE NodeStep
    <3>1. PICK g \in Fleets, n \in Nodes : Boot(g, n) \/ Finish(g, n) \/ Forget(g, n)
      BY <2>2 DEF NodeStep
    <3>2. Remembered /\ UNCHANGED <<blocks, resources, mode_store, reported, frame>>
      BY <2>2, <3>1, HappenRemembers DEF NodeStep, Boot, Finish, Forget, managerVars, modeVars, callVars
    <3>3. PICK s : /\ node' = [node EXCEPT ![g][n] = s] /\ fleet' = fleet
                   /\ s \in Up => node[g][n] \in Up
                   /\ s = "gone" => "forget" \in happened'
      BY <3>1, HappenKeeps DEF Boot, Finish, Forget, Up
    <3>4. QED
      BY <3>2, <3>3, AgingNode, TypesOf
  <2>3. CASE FleetGone
    <3>1. PICK g \in Fleets : ForgetFleet(g)
      BY <2>3 DEF FleetGone
    <3>2. Remembered /\ UNCHANGED <<blocks, resources, mode_store, reported, frame>>
      BY <2>3, <3>1, HappenRemembers DEF FleetGone, ForgetFleet, managerVars, modeVars, callVars
    <3>3. \A f \in Fleets : fleet'[f] = IF f = g THEN "forgotten" ELSE fleet[f]
      BY <3>1, TypesOf DEF ForgetFleet, Ec2OK
    <3>4. fleet[g] = "deleted" /\ node' = node
      BY <3>1 DEF ForgetFleet
    <3>5. \A f \in Fleets : Aging(f)
      BY <3>3, <3>4 DEF Aging, LiveNodes
    <3>6. QED
      BY <3>2, <3>5
  <2>4. QED
    BY <2>1, <2>2, <2>3 DEF EnvironmentStep
<1>3. Stored
  BY <1>2 DEF Stored, Tracked
<1>4. \A f \in Fleets : Quiet(f) /\ BlockSound(f, blocks[f])'
  BY <1>2, BooksQuiet
<1>5. QED
  BY <1>1, <1>2, <1>3, <1>4, NoThreadSound

\* The successor's books are what the document says, and it has no thread at work.
LEMMA RestartBook ==
  ASSUME BookInv, Restart
  PROVE  BookInv'
<1>1. TypeOK' /\ Remembered
  BY TypesOf, RestartType, HappenRemembers DEF Restart
<1>2. \A t \in Threads : frame'[t] = Idle
  BY DEF Restart
<1>3. FramesSound' /\ Apart'
  BY <1>2, SoundIdle DEF FramesSound, Apart
<1>4. ASSUME NEW f \in Fleets PROVE FleetSound(f)'
  <2>1. /\ resources'[f] = mode_store.resources[f] /\ blocks'[f] = mode_store.blocks[f]
        /\ UNCHANGED <<fleet, node, mode_store, reported>>
    BY DEF Restart, RestoredBlocks, ec2Vars
  <2>2. BlockSound(f, mode_store.blocks[f])'
    BY <1>1, <2>1, TypesOf DEF FleetSound, BlockSound, StatusSound, LiveNodes, Remembered
  <2>3. BlockSound(f, blocks[f])'
    BY <2>1, <2>2 DEF BlockSound, StatusSound, LiveNodes
  <2>4. LiveNodes(f)' = LiveNodes(f)
    BY <2>1 DEF LiveNodes
  <2>5. QED
    BY <1>1, <2>1, <2>2, <2>3, <2>4, TypesOf DEF FleetSound, Tracked, HasBlock, Remembered
<1>5. QED
  BY <1>1, <1>3, <1>4 DEF BookInv, FleetsSound

\* A new provider knows no fleet, and there is none.
LEMMA InitBook == Init => BookInv
<1> SUFFICES ASSUME Init PROVE BookInv
  OBVIOUS
<1>1. TypeOK
  BY InitType
<1>2. \A t \in Threads : frame[t] = Idle
  BY DEF Init
<1>3. FramesSound /\ Apart
  BY <1>2 DEF FramesSound, Apart, Sound, Idle, Launching
<1>4. ASSUME NEW f \in Fleets PROVE FleetSound(f)
  <2>1. /\ resources[f] = NoRecord /\ blocks[f] = NoBlock /\ fleet[f] = "none" /\ reported[f] = "none"
        /\ mode_store.resources = resources /\ mode_store.blocks = blocks
        /\ \A n \in Nodes : node[f][n] = "none"
    BY DEF Init, ManagerInit, NoNodes
  <2>2. LiveNodes(f) = {}
    BY <2>1 DEF LiveNodes, Up
  <2>3. QED
    BY <2>1, <2>2 DEF FleetSound, BlockSound, StatusSound, Tracked, HasBlock, NoRecord, NoBlock
<1>5. QED
  BY <1>1, <1>3, <1>4 DEF BookInv, FleetsSound

\* A step that changes no variable.
LEMMA StutterBook ==
  ASSUME BookInv, UNCHANGED vars
  PROVE  BookInv'
<1>1. UNCHANGED <<fleet, node, blocks, resources, mode_store, reported, frame, happened>> /\ TypeOK'
  BY TypesOf, TypeParts, Unchanged DEF vars, managerVars, ec2Vars, eventVars, modeVars, callVars
<1>2. Remembered /\ Stored
  BY <1>1 DEF Remembered, Stored, Tracked
<1>3. \A f \in Fleets : Quiet(f) /\ BlockSound(f, blocks[f])'
  BY <1>1, <1>2, AgingUnchanged, BooksQuiet
<1>4. QED
  BY <1>1, <1>2, <1>3, NoThreadSound

\* Every step keeps the books.
LEMMA BookStep ==
  ASSUME BookInv, [Next]_vars
  PROVE  BookInv'
<1>1. ASSUME NEW t \in Threads, Call(t) PROVE BookInv'
  BY <1>1, SubmitBook, StatusBeginBook, CancelBook, ShutdownBook DEF Call
<1>2. ASSUME NEW t \in Threads, Continue(t) PROVE BookInv'
  <2>1. CASE SubmitStep(t)
    BY <2>1, CreateTemplateBook, CreateBook, WaitRunningBook, DiscardBook, RegisterBook, TrackBook
       DEF SubmitStep
  <2>2. CASE StatusStep(t)
    BY <2>2, DescribeBlockBook, WriteStatusBook DEF StatusStep
  <2>3. QED
    BY <1>2, <2>1, <2>2, CleanupBook, SweepBook DEF Continue
<1>3. QED
  BY <1>1, <1>2, MonitorStepBook, EnvironmentStepBook, RestartBook, StutterBook DEF Next

\* The invariant the properties below rest on.
LEMMA BooksInvariant == Spec => []BookInv
<1>1. BookInv /\ [Next]_vars => BookInv'
  BY BookStep
<1>2. QED
  BY <1>1, InitBook, PTL DEF Spec

\* Every variable of the program, of EC2 and of the threads' frames keeps its type,
\* for any number of threads, jobs, fleets, nodes and failures.
THEOREM TypeCorrect == Spec => []TypeOK
<1>1. BookInv => TypeOK
  BY DEF BookInv
<1>2. QED
  BY <1>1, BooksInvariant, PTL

-----------------------------------------------------------------------------
(* What a status the provider holds says of the instances.                 *)

\* Every step notes what happens in it.
LEMMA StepHappens ==
  ASSUME [Next]_vars
  PROVE  (\E K : Happen(K)) \/ UNCHANGED vars
<1> DEFINE Noted == \E K : Happen(K)
<1>1. ASSUME NEW t \in Threads, Call(t) PROVE Noted
  <2>1. CASE Shutdown(t)
    BY <2>1 DEF Shutdown, DeletionAnd
  <2>2. QED
    BY <1>1, <2>1 DEF Call, Submit, StatusBegin, Cancel, Deletion, DeletionAnd
<1>2. ASSUME NEW t \in Threads, Continue(t) PROVE Noted
  <2>1. CASE SubmitStep(t)
    BY <2>1 DEF SubmitStep, CreateTemplate, Create, WaitRunning, Discard, Register, Track,
       Deletion, DeletionAnd
  <2>2. CASE StatusStep(t)
    BY <2>2 DEF StatusStep, DescribeBlock, WriteStatus
  <2>3. QED
    BY <1>2, <2>1, <2>2 DEF Continue, Cleanup, Sweep, LastSweep, Deletion, DeletionAnd
<1>3. CASE MonitorStep
  BY <1>3 DEF MonitorStep, ReceiveWarning, ListFleet, DescribeListed, TakeEvent, MarkInterrupted,
     HandlerRaises
<1>4. CASE EnvironmentStep
  BY <1>4 DEF EnvironmentStep, Warn, NodeStep, Boot, Finish, Forget, FleetGone, ForgetFleet
<1>5. CASE Restart
  BY <1>5 DEF Restart
<1>6. QED
  BY <1>1, <1>2, <1>3, <1>4, <1>5 DEF Next

\* So what happened is remembered.
LEMMA StepRemembers ==
  ASSUME [Next]_vars
  PROVE  Remembered
BY StepHappens, HappenRemembers DEF vars, eventVars, Remembered

\* Instances come up in Create only, in a fleet that the provider does not know yet.
LEMMA LiveStep ==
  ASSUME BookInv, [Next]_vars, NEW f \in Fleets
  PROVE  \/ LiveNodes(f)' \subseteq LiveNodes(f)
         \/ reported[f] = "none" /\ \E t \in Threads : Create(t) /\ frame[t].fleet = {f}
<1>1. ASSUME node' = node PROVE LiveNodes(f)' \subseteq LiveNodes(f)
  BY <1>1 DEF LiveNodes
<1>2. ASSUME NEW F, DeleteFleets(F) PROVE LiveNodes(f)' \subseteq LiveNodes(f)
  BY <1>2, AgingDelete, TypesOf DEF Aging
<1>3. ASSUME NEW F, NEW refused, NEW kept, TerminateBlocks(F, refused, kept)
      PROVE  LiveNodes(f)' \subseteq LiveNodes(f)
  BY <1>2, <1>3 DEF TerminateBlocks
<1>4. ASSUME NEW refused, NEW kept, CleanupAllResources(refused, kept)
      PROVE  LiveNodes(f)' \subseteq LiveNodes(f)
  BY <1>2, <1>4 DEF CleanupAllResources
<1>5. ASSUME NEW t \in Threads, Call(t) PROVE LiveNodes(f)' \subseteq LiveNodes(f)
  <2>1. CASE Shutdown(t)
    <3>1. node' = node \/ \E F, refused, kept : TerminateBlocks(F, refused, kept)
      BY <2>1 DEF Shutdown, ec2Vars
    <3>2. QED
      BY <1>1, <1>3, <3>1
  <2>2. CASE \E g \in Fleets : Cancel(t, g)
    BY <1>3, <2>2 DEF Cancel
  <2>3. CASE StatusBegin(t) \/ \E j \in Jobs : Submit(t, j)
    <3>1. node' = node
      BY <2>3 DEF StatusBegin, Submit, ec2Vars
    <3>2. QED
      BY <1>1, <3>1
  <2>4. QED
    BY <1>5, <2>1, <2>2, <2>3 DEF Call
<1>6. ASSUME NEW t \in Threads, Create(t)
      PROVE  \/ LiveNodes(f)' \subseteq LiveNodes(f)
             \/ reported[f] = "none" /\ \E u \in Threads : Create(u) /\ frame[u].fleet = {f}
  <2>1. Sound(frame[t]) /\ frame[t].pc = "fleet"
    BY <1>6, TypesOf DEF Create
  <2>2. PICK g \in Fleets : frame[t].fleet = {g} /\ reported[g] = "none"
    BY <2>1 DEF Sound, Launching
  <2>3. CASE f = g
    BY <1>6, <2>2, <2>3
  <2>4. CASE f # g
    <3>1. node'[f] = node[f]
      BY <1>6, <2>2, <2>4, TypesOf DEF Create, CreateFleet, CreateFleetRefused, CreateFleetLost,
         Launched, ec2Vars, Ec2OK
    <3>2. QED
      BY <3>1 DEF LiveNodes
  <2>5. QED
    BY <2>3, <2>4
<1>7. ASSUME NEW t \in Threads, Continue(t), ~Create(t) PROVE LiveNodes(f)' \subseteq LiveNodes(f)
  <2>1. CASE Cleanup(t)
    BY <1>3, <2>1 DEF Cleanup
  <2>2. CASE Sweep(t) \/ LastSweep(t)
    BY <1>4, <2>2 DEF Sweep, LastSweep
  <2>3. CASE Discard(t)
    BY <1>2, <2>3 DEF Discard
  <2>4. CASE CreateTemplate(t)
    <3>1. node' = node
      BY <2>4 DEF CreateTemplate, BuildLaunchTemplateConfig, ec2Vars
    <3>2. QED
      BY <1>1, <3>1
  <2>5. CASE WaitRunning(t) \/ Register(t) \/ Track(t) \/ StatusStep(t)
    <3>1. node' = node
      BY <2>5 DEF WaitRunning, Register, Track, StatusStep, DescribeBlock, WriteStatus, ec2Vars
    <3>2. QED
      BY <1>1, <3>1
  <2>6. QED
    BY <1>7, <2>1, <2>2, <2>3, <2>4, <2>5 DEF Continue, SubmitStep
<1>8. CASE MonitorStep \/ Restart \/ UNCHANGED vars
  BY <1>1, <1>8 DEF MonitorStep, MarkInterrupted, HandlerRaises, Restart, vars, ec2Vars
<1>9. CASE EnvironmentStep
  <2>1. CASE NodeStep
    <3>1. PICK g \in Fleets, n \in Nodes : Boot(g, n) \/ Finish(g, n) \/ Forget(g, n)
      BY <2>1 DEF NodeStep
    <3>2. PICK x : node' = [node EXCEPT ![g][n] = x] /\ (x \in Up => node[g][n] \in Up)
      BY <3>1 DEF Boot, Finish, Forget, Up
    <3>3. \A m \in Nodes : node'[f][m] = IF f = g /\ m = n THEN x ELSE node[f][m]
      BY <3>2, TypesOf DEF Ec2OK
    <3>4. QED
      BY <3>2, <3>3 DEF LiveNodes
  <2>2. CASE FleetGone \/ \E g \in Fleets, n \in Nodes : Warn(g, n)
    <3>1. node' = node
      BY <2>2 DEF FleetGone, ForgetFleet, Warn, ec2Vars
    <3>2. QED
      BY <3>1 DEF LiveNodes
  <2>3. QED
    BY <1>9, <2>1, <2>2 DEF EnvironmentStep
<1>10. QED
  BY <1>5, <1>6, <1>7, <1>8, <1>9 DEF Next

\* The mode's records and the provider's statuses change in eight actions only.
LEMMA RecordsStep ==
  ASSUME [Next]_vars
  PROVE  \/ UNCHANGED <<resources, reported>>
         \/ \E t \in Threads : \/ Track(t) \/ StatusBegin(t) \/ WriteStatus(t)
                               \/ \E f \in Fleets : Cancel(t, f)
                               \/ Cleanup(t) \/ Shutdown(t)
         \/ MarkInterrupted
         \/ Restart
<1> USE DEF modeVars, callVars
<1>1. ASSUME NEW t \in Threads, Continue(t), ~Track(t), ~WriteStatus(t), ~Cleanup(t)
      PROVE  UNCHANGED <<resources, reported>>
  <2>1. CASE SubmitStep(t)
    BY <1>1, <2>1 DEF SubmitStep, CreateTemplate, Create, WaitRunning, Discard, Register, SubmitUnchanged
  <2>2. QED
    BY <1>1, <2>1 DEF Continue, StatusStep, DescribeBlock, Sweep, LastSweep, ShutdownUnchanged
<1>2. ASSUME NEW t \in Threads, NEW j \in Jobs, Submit(t, j) PROVE UNCHANGED <<resources, reported>>
  BY <1>2 DEF Submit, SubmitUnchanged
<1>3. CASE MonitorStep /\ ~MarkInterrupted
  BY <1>3 DEF MonitorStep, MonitorUnchanged, HandlerRaises
<1>4. CASE EnvironmentStep \/ UNCHANGED vars
  BY <1>4 DEF EnvironmentStep, Warn, NodeStep, FleetGone, vars
<1>5. QED
  BY <1>1, <1>2, <1>3, <1>4 DEF Next, Call

\* How the provider's status of a block may change: to one that says nothing of the
\* instances, to an answer of the poll, or to "collected".
LEMMA ReportedStep ==
  ASSUME BookInv, [Next]_vars, NEW f \in Fleets, reported'[f] # reported[f]
  PROVE  reported'[f] # "none" /\ (reported'[f] = "COMPLETED" => StatusSound(f, reported'[f]) /\ node' = node)
<1>1. \A t \in Threads : Track(t) => reported'[f] = "PENDING"
  BY TypesOf DEF Track, CallsOK
<1>2. ASSUME NEW t \in Threads, StatusBegin(t)
      PROVE  reported'[f] \in {"UNKNOWN", "INTERRUPTED"}
  BY <1>2 DEF StatusBegin, Answered, LocalStatus
<1>3. ASSUME NEW t \in Threads, WriteStatus(t)
      PROVE  reported'[f] # "none" /\ StatusSound(f, reported'[f]) /\ node' = node
  <2>1. frame[t].pc = "write" /\ Sound(frame[t]) /\ frame[t].answer \in Status
    BY <1>3, TypesOf DEF WriteStatus, Sound, Frame
  <2>2. f \in frame[t].fleet /\ reported'[f] = frame[t].answer /\ node' = node
    BY <1>3 DEF WriteStatus, ec2Vars
  <2>3. QED
    BY <2>1, <2>2 DEF Sound, Status
<1>4. ASSUME NEW t \in Threads, NEW g \in Fleets, Cancel(t, g)
      PROVE  reported'[f] \in {"UNKNOWN", "CANCELED", "FAILED"}
  BY <1>4, TypesOf DEF Cancel, CallsOK
<1>5. ASSUME NEW t \in Threads, Cleanup(t) PROVE reported'[f] = "collected"
  BY <1>5 DEF Cleanup
<1>6. ASSUME MarkInterrupted \/ Restart \/ \E t \in Threads : Shutdown(t) PROVE FALSE
  BY <1>6 DEF MarkInterrupted, Restart, Shutdown, ShutdownUnchanged, callVars
<1>7. QED
  BY <1>1, <1>2, <1>3, <1>4, <1>5, <1>6, RecordsStep

\* A block reported COMPLETED has no instance left at work, unless EC2 forgot one that
\* ended long before the rest.
THEOREM CompletionIsTrue == Spec => []NoFalseCompletion
<1>1. Init => NoFalseCompletion
  BY DEF Init, NoFalseCompletion
<1>2. BookInv /\ NoFalseCompletion /\ [Next]_vars => NoFalseCompletion'
  <2> SUFFICES ASSUME BookInv, NoFalseCompletion, [Next]_vars, "forget" \notin happened',
                      NEW f \in Fleets, reported'[f] = "COMPLETED"
               PROVE  LiveNodes(f)' = {}
    BY DEF NoFalseCompletion
  <2>1. "forget" \notin happened
    BY StepRemembers DEF Remembered
  <2>2. CASE reported'[f] = reported[f]
    <3>1. LiveNodes(f) = {}
      BY <2>1, <2>2 DEF NoFalseCompletion
    <3>2. QED
      BY <2>2, <3>1, LiveStep
  <2>3. CASE reported'[f] # reported[f]
    <3>1. StatusSound(f, "COMPLETED") /\ node' = node
      BY <2>3, ReportedStep
    <3>2. QED
      BY <2>1, <3>1 DEF StatusSound, LiveNodes
  <2>4. QED
    BY <2>2, <2>3
<1>3. QED
  BY <1>1, <1>2, BooksInvariant, PTL DEF Spec

-----------------------------------------------------------------------------
(* What a release leaves.                                                  *)

\* A block the provider was told is canceled, or forgot, or that the mode no longer
\* tracks.  (The last is what a later cleanup skips.)
Cleared(f) == reported[f] \in {"CANCELED", "collected"} \/ (reported[f] # "none" /\ ~Tracked(f))

ReleaseInv == "delete" \notin happened => \A f \in Fleets : Cleared(f) => LiveNodes(f) = {}

\* Unless a deletion is refused, a block terminated with others has no instance left.
LEMMA DeletionStops ==
  ASSUME BookInv, NEW F \in SUBSET Fleets, NEW refused, NEW kept, NEW others,
         TerminateBlocks(F, refused, kept), DeletionAnd(refused, kept, others),
         "delete" \notin happened', NEW f \in F, Tracked(f)
  PROVE  LiveNodes(f)' = {} /\ refused = {}
<1>1. refused = {} /\ Remembered
  BY HappenKeeps, HappenRemembers DEF DeletionAnd, IfSo
<1>2. HasBlock(f)
  BY TypesOf DEF FleetSound
<1>3. QED
  BY <1>1, <1>2, TerminateSound

\* A block is cleared by a step only when it has no instance left.
LEMMA ClearedStep ==
  ASSUME BookInv, [Next]_vars, NEW f \in Fleets, "delete" \notin happened', Cleared(f)', ~Cleared(f)
  PROVE  LiveNodes(f)' = {}
<1>1. ASSUME NEW t \in Threads, Track(t) PROVE FALSE
  <2>1. \/ resources'[f] = resources[f] /\ reported'[f] = reported[f]
        \/ reported'[f] = "PENDING" /\ resources'[f].status = "PENDING"
    BY <1>1, TypesOf DEF Track, CallsOK, ModeOK
  <2>2. QED
    BY <2>1 DEF Cleared, Tracked, Absent
<1>2. ASSUME NEW t \in Threads, StatusBegin(t) PROVE FALSE
  <2>1. resources' = resources /\ reported'[f] \in {reported[f], "UNKNOWN", "INTERRUPTED"}
        /\ (reported'[f] = "none" <=> reported[f] = "none")
    BY <1>2 DEF StatusBegin, Answered, LocalStatus, Unsettled, Recorded
  <2>2. QED
    BY <2>1 DEF Cleared, Tracked
<1>3. ASSUME NEW t \in Threads, WriteStatus(t) PROVE LiveNodes(f)' = {}
  <2>1. frame[t].pc = "write" /\ Sound(frame[t]) /\ frame[t].answer \in Status
    BY <1>3, TypesOf DEF WriteStatus, Sound, Frame
  <2>2. Tracked(f)' => Tracked(f)
    BY <1>3 DEF WriteStatus, Tracked
  <2>3. Tracked(f) => Tracked(f)'
    BY <1>3, <2>1, NoRecords, TypesOf DEF WriteStatus, Tracked, ModeOK, Record
  <2>4. reported'[f] # reported[f] /\ reported'[f] \in {"CANCELED", "collected"}
    <3>1. reported'[f] # "none" => reported[f] # "none"
      BY <1>3 DEF WriteStatus, Recorded
    <3>2. QED
      BY <2>2, <2>3, <3>1 DEF Cleared
  <2>5. f \in frame[t].fleet /\ frame[t].answer = "CANCELED" /\ node' = node
    BY <1>3, <2>1, <2>4 DEF WriteStatus, Status, ec2Vars
  <2>6. QED
    BY <2>1, <2>5 DEF Sound, StatusSound, LiveNodes
<1>4. ASSUME NEW t \in Threads, NEW g \in Fleets, Cancel(t, g) PROVE LiveNodes(f)' = {}
  <2>1. PICK refused \in SUBSET (IF HasBlock(g) THEN {g} ELSE {}), kept \in SUBSET {g}, s \in Status :
        /\ TerminateBlocks({g} \cap TrackedFleets, refused, kept)
        /\ Deletion(refused, kept)
        /\ resources' = [resources EXCEPT ![g].status = IF Tracked(g) THEN s ELSE @]
        /\ reported' = [reported EXCEPT ![g] = s]
        /\ s = IF ~Tracked(g) THEN "UNKNOWN" ELSE IF refused = {} THEN "CANCELED" ELSE "FAILED"
    BY <1>4 DEF Cancel, Status
  <2>2. \A h \in Fleets : Tracked(h)' <=> Tracked(h)
    BY <2>1, NoRecords, TypesOf DEF Tracked, ModeOK, Record
  <2>3. f = g /\ Tracked(f)
    <3>1. reported[g] # "none"
      BY <1>4 DEF Cancel, Recorded
    <3>2. QED
      BY <2>1, <2>2, <3>1, TypesOf DEF Cleared, CallsOK
  <2>4. f \in {g} \cap TrackedFleets /\ {g} \cap TrackedFleets \in SUBSET Fleets
    BY <2>3 DEF TrackedFleets
  <2>5. QED
    BY <2>1, <2>3, <2>4, DeletionStops DEF Deletion
<1>5. ASSUME NEW t \in Threads, Cleanup(t) PROVE LiveNodes(f)' = {}
  <2> DEFINE ended == {h \in Recorded : reported[h] \in Terminal}
  <2>1. PICK refused, kept \in SUBSET (ended \cap TrackedFleets) :
          /\ TerminateBlocks(ended \cap TrackedFleets, refused, kept)
          /\ DropRecords(ended \ {h \in refused : HasBlock(h)})
          /\ Deletion(refused, kept)
    BY <1>5 DEF Cleanup
  <2>2. f \in ended
    BY <1>5, <2>1 DEF Cleanup, DropRecords, Cleared, Tracked
  <2>3. reported[f] # "none"
    BY <2>2 DEF Recorded
  <2>4. Tracked(f)
    BY <2>3 DEF Cleared
  <2>5. f \in ended \cap TrackedFleets /\ ended \cap TrackedFleets \in SUBSET Fleets
    BY <2>2, <2>4 DEF TrackedFleets
  <2>6. QED
    BY <2>1, <2>4, <2>5, DeletionStops DEF Deletion
<1>6. ASSUME NEW t \in Threads, Shutdown(t) PROVE LiveNodes(f)' = {}
  <2>1. reported' = reported /\ Tracked(f) /\ ~Tracked(f)'
    BY <1>6 DEF Shutdown, ShutdownUnchanged, Cleared
  <2>2. f \in TrackedFleets /\ TrackedFleets \in SUBSET Fleets
    BY <2>1 DEF TrackedFleets
  <2>3. PICK refused, kept, late :
          /\ refused \in SUBSET TrackedFleets
          /\ kept \in SUBSET TrackedFleets
          /\ TerminateBlocks(TrackedFleets, refused, kept)
          /\ DeletionAnd(refused, kept, late)
    BY <1>6, <2>2 DEF Shutdown
  <2>4. QED
    BY <2>1, <2>2, <2>3, DeletionStops
<1>7. CASE MarkInterrupted \/ Restart
  <2>1. (Tracked(f)' <=> Tracked(f)) /\ reported' = reported
    <3>1. CASE Restart
      BY <3>1, TypesOf DEF Restart, Tracked, FleetSound
    <3>2. CASE MarkInterrupted
      BY <3>2, TypesOf DEF MarkInterrupted, callVars, ResourceIdsForFleet, TrackedFleets, Tracked, ModeOK,
         Record, Absent
    <3>3. QED
      BY <1>7, <3>1, <3>2
  <2>2. QED
    BY <2>1 DEF Cleared
<1>8. CASE UNCHANGED <<resources, reported>>
  BY <1>8 DEF Cleared, Tracked
<1>9. QED
  BY <1>1, <1>2, <1>3, <1>4, <1>5, <1>6, <1>7, <1>8, RecordsStep

\* What is cleared has no instance left, and gets none.
LEMMA ReleaseInvariant == Spec => []ReleaseInv
<1>1. Init => ReleaseInv
  BY DEF Init, ReleaseInv, Cleared
<1>2. BookInv /\ ReleaseInv /\ [Next]_vars => ReleaseInv'
  <2> SUFFICES ASSUME BookInv, ReleaseInv, [Next]_vars, "delete" \notin happened',
                      NEW f \in Fleets, Cleared(f)'
               PROVE  LiveNodes(f)' = {}
    BY DEF ReleaseInv
  <2>1. "delete" \notin happened
    BY StepRemembers DEF Remembered
  <2>2. CASE Cleared(f)
    <3>1. LiveNodes(f) = {} /\ reported[f] # "none"
      BY <2>1, <2>2 DEF ReleaseInv, Cleared
    <3>2. QED
      BY <3>1, LiveStep
  <2>3. CASE ~Cleared(f)
    BY <2>3, ClearedStep
  <2>4. QED
    BY <2>2, <2>3
<1>3. QED
  BY <1>1, <1>2, BooksInvariant, PTL DEF Spec

\* A block its owner was told is canceled, or that the provider has forgotten, has no
\* instance left, in any process, unless EC2 refused a deletion.
THEOREM ReleaseStops == Spec => []ReleasedFleetStops
<1>1. ReleaseInv => ReleasedFleetStops
  BY DEF ReleaseInv, ReleasedFleetStops, Cleared
<1>2. QED
  BY <1>1, ReleaseInvariant, PTL

-----------------------------------------------------------------------------
(* A mark of interruption stays.                                           *)

Marked(f) == resources[f].status = "INTERRUPTED"

\* No poll is about to write over a mark.
MarkInv ==
  {"late_mark", "crash"} \cap happened = {} =>
    \A t \in Threads : \A f \in frame[t].todo : ~Marked(f)

\* Unless a mark comes late or the process dies, no step takes a mark away but a
\* cancel or a cleanup, and none sets one under a poll.
LEMMA MarkStep ==
  ASSUME BookInv, MarkInv, [Next]_vars, {"late_mark", "crash"} \cap happened' = {}, NEW f \in Fleets
  PROVE  /\ Marked(f) => resources'[f].status \in {"INTERRUPTED", "CANCELED", "FAILED", Absent}
         /\ Marked(f)' => Marked(f) \/ \A t \in Threads : f \notin frame[t].todo
         /\ Marked(f)' => Marked(f) \/ frame' = frame
<1>1. {"late_mark", "crash"} \cap happened = {}
  BY StepRemembers DEF Remembered
<1>2. ASSUME NEW t \in Threads, Track(t)
      PROVE  resources'[f] = resources[f] \/ (resources'[f].status = "PENDING" /\ ~Marked(f))
  <2>1. frame[t].pc = "track" /\ Sound(frame[t])
    BY <1>2, TypesOf DEF Track
  <2>2. \A g \in frame[t].fleet : ~Tracked(g)
    BY <2>1 DEF Sound, Launching
  <2>3. resources'[f] = resources[f] \/ (f \in frame[t].fleet /\ resources'[f].status = "PENDING")
    BY <1>2, TypesOf DEF Track, ModeOK
  <2>4. QED
    BY <2>2, <2>3 DEF Marked, Tracked, Absent
<1>3. ASSUME NEW t \in Threads, WriteStatus(t)
      PROVE  resources'[f] = resources[f] \/ (~Marked(f) /\ ~Marked(f)')
  <2>1. frame[t].pc = "write" /\ Sound(frame[t])
    BY <1>3, TypesOf DEF WriteStatus
  <2>2. \A g \in frame[t].fleet : g \in frame[t].todo /\ frame[t].answer # "INTERRUPTED"
    BY <2>1 DEF Sound, Launching, StatusSound
  <2>3. \/ resources'[f] = resources[f]
        \/ f \in frame[t].fleet /\ resources'[f] = [resources[f] EXCEPT !.status = frame[t].answer]
    BY <1>3 DEF WriteStatus
  <2>4. QED
    BY <1>1, <2>2, <2>3, TypesOf DEF MarkInv, Marked, ModeOK, Record
<1>4. ASSUME NEW t \in Threads, NEW g \in Fleets, Cancel(t, g)
      PROVE  resources'[f] = resources[f] \/ resources'[f].status \in {"CANCELED", "FAILED"}
  BY <1>4, TypesOf DEF Cancel, ModeOK, Record
<1>5. ASSUME NEW t \in Threads, Cleanup(t) \/ Shutdown(t)
      PROVE  resources'[f] = resources[f] \/ resources'[f].status = Absent
  <2>1. resources' = resources \/ \E F : DropRecords(F)
    <3>1. CASE Cleanup(t)
      BY <3>1 DEF Cleanup
    <3>2. CASE Shutdown(t)
      BY <3>2 DEF Shutdown
    <3>3. QED
      BY <1>5, <3>1, <3>2
  <2>2. QED
    BY <2>1 DEF DropRecords, NoRecord
<1>6. ASSUME NEW t \in Threads, StatusBegin(t) PROVE resources' = resources
  BY <1>6 DEF StatusBegin
<1>7. ASSUME MarkInterrupted
      PROVE  /\ resources'[f] = resources[f] \/ resources'[f].status = "INTERRUPTED"
             /\ resources'[f] = resources[f] \/ \A t \in Threads : f \notin frame[t].todo
             /\ frame' = frame
  <2> DEFINE F == UNION {ResourceIdsForFleet(g) : g \in monitor.fleet}
  <2>1. resources'[f] = IF f \in F THEN [resources[f] EXCEPT !.status = "INTERRUPTED"] ELSE resources[f]
    BY <1>7 DEF MarkInterrupted
  <2>2. ASSUME NEW t \in Threads, F \cap frame[t].todo # {} PROVE FALSE
    <3>1. "late_mark" \in happened'
      BY <1>7, <2>2, HappenKeeps DEF MarkInterrupted, IfSo
    <3>2. QED
      BY <3>1
  <2>3. frame' = frame
    BY <1>7 DEF MarkInterrupted, callVars
  <2>4. QED
    BY <2>1, <2>2, <2>3, TypesOf DEF ModeOK, Record
<1>8. ASSUME Restart PROVE FALSE
  BY <1>8, HappenKeeps DEF Restart
<1>9. resources'[f] = resources[f] \/ ~(UNCHANGED <<resources, reported>>)
  OBVIOUS
<1>10. QED
  BY <1>2, <1>3, <1>4, <1>5, <1>6, <1>7, <1>8, RecordsStep DEF Marked, Absent

\* Where a thread goes, in its frame's fields.
Others(t) == \A u \in Threads : u # t => frame'[u] = frame[u]

\* Where a thread went, and what its frame holds then.
LEMMA GoneTo ==
  ASSUME BookInv, NEW t \in Threads
  PROVE  /\ Goto(t, Idle) => /\ Others(t) /\ frame'[t].pc = "idle" /\ frame'[t].job = NoJob
                             /\ frame'[t].fleet = {} /\ frame'[t].todo = {}
         /\ \A l \in Labels : Goto(t, At(l)) =>
              /\ Others(t) /\ frame'[t].pc = l /\ frame'[t].job = NoJob
              /\ frame'[t].fleet = {} /\ frame'[t].todo = {}
         /\ \A j \in Jobs : Goto(t, [At("template") EXCEPT !.job = j]) =>
              /\ Others(t) /\ frame'[t].pc = "template" /\ frame'[t].job = j
              /\ frame'[t].fleet = {} /\ frame'[t].todo = {}
<1>1. ASSUME NEW r, Goto(t, r) PROVE Others(t) /\ frame'[t] = r
  BY <1>1, TypesOf DEF Others, Goto, CallsOK
<1>2. Goto(t, Idle) => /\ Others(t) /\ frame'[t].pc = "idle" /\ frame'[t].job = NoJob
                       /\ frame'[t].fleet = {} /\ frame'[t].todo = {}
  BY <1>1 DEF Idle
<1>3. ASSUME NEW l \in Labels, Goto(t, At(l))
      PROVE  /\ Others(t) /\ frame'[t].pc = l /\ frame'[t].job = NoJob
             /\ frame'[t].fleet = {} /\ frame'[t].todo = {}
  <2>1. Others(t) /\ frame'[t] = At(l)
    BY <1>1, <1>3
  <2>2. QED
    BY <2>1, Frames
<1>4. ASSUME NEW j \in Jobs, Goto(t, [At("template") EXCEPT !.job = j])
      PROVE  /\ Others(t) /\ frame'[t].pc = "template" /\ frame'[t].job = j
             /\ frame'[t].fleet = {} /\ frame'[t].todo = {}
  <2>1. Others(t) /\ frame'[t] = [At("template") EXCEPT !.job = j]
    BY <1>1, <1>4
  <2>2. QED
    BY <2>1, Frames
<1>5. QED
  BY <1>2, <1>3, <1>4

\* To the description of the blocks in F.
LEMMA GoneToDescribe ==
  ASSUME BookInv, NEW t \in Threads, NEW F \in SUBSET Fleets,
         Goto(t, [At("describe") EXCEPT !.todo = F])
  PROVE  /\ Others(t) /\ frame'[t].pc = "describe" /\ frame'[t].job = NoJob
         /\ frame'[t].fleet = {} /\ frame'[t].todo = F
<1>1. Others(t) /\ frame'[t] = [At("describe") EXCEPT !.todo = F]
  BY TypesOf DEF Others, Goto, CallsOK
<1>2. QED
  BY <1>1, Frames

\* Going on with some of the frame kept.
LEMMA GoneOn ==
  ASSUME BookInv, NEW t \in Threads, NEW l \in Labels, Goto(t, [frame[t] EXCEPT !.pc = l])
  PROVE  /\ Others(t) /\ frame'[t].pc = l /\ frame'[t].job = frame[t].job
         /\ frame'[t].fleet = frame[t].fleet /\ frame'[t].todo = frame[t].todo
<1>1. Others(t) /\ frame'[t] = [frame[t] EXCEPT !.pc = l]
  BY TypesOf DEF Others, Goto, CallsOK
<1>2. frame[t] \in Frame
  BY TypesOf
<1>3. QED
  BY <1>1, <1>2 DEF Frame

\* With another fleet.
LEMMA GoneOnWith ==
  ASSUME BookInv, NEW t \in Threads, NEW l \in Labels, NEW F \in SUBSET Fleets,
         Goto(t, [frame[t] EXCEPT !.pc = l, !.fleet = F])
  PROVE  /\ Others(t) /\ frame'[t].pc = l /\ frame'[t].job = frame[t].job
         /\ frame'[t].fleet = F /\ frame'[t].todo = frame[t].todo
<1>1. Others(t) /\ frame'[t] = [frame[t] EXCEPT !.pc = l, !.fleet = F]
  BY TypesOf DEF Others, Goto, CallsOK
<1>2. frame[t] \in Frame
  BY TypesOf
<1>3. QED
  BY <1>1, <1>2 DEF Frame

\* With an answer for a fleet.
LEMMA GoneOnAnswering ==
  ASSUME BookInv, NEW t \in Threads, NEW l \in Labels, NEW F \in SUBSET Fleets, NEW a \in Status,
         Goto(t, [frame[t] EXCEPT !.pc = l, !.fleet = F, !.answer = a])
  PROVE  /\ Others(t) /\ frame'[t].pc = l /\ frame'[t].job = frame[t].job
         /\ frame'[t].fleet = F /\ frame'[t].todo = frame[t].todo
<1>1. Others(t) /\ frame'[t] = [frame[t] EXCEPT !.pc = l, !.fleet = F, !.answer = a]
  BY TypesOf DEF Others, Goto, CallsOK
<1>2. frame[t] \in Frame
  BY TypesOf
<1>3. QED
  BY <1>1, <1>2 DEF Frame

\* What the threads do, as far as their frames show it.  A thread takes up a job, goes
\* on with it or ends; or it polls, or cleans up, without a job.
TakesUp(t) ==
  /\ frame[t].pc = "idle" /\ frame'[t].pc = "template" /\ frame'[t].job \in Jobs
  /\ frame'[t].fleet = {} /\ frame'[t].todo = {}

GoesOn(t) ==
  /\ frame[t].pc \in Launching \cup {"template"} /\ frame'[t].pc \in Launching
  /\ frame'[t].job = frame[t].job /\ frame'[t].todo = frame[t].todo
  /\ frame[t].pc # "template" => frame'[t].fleet = frame[t].fleet

Ends(t) ==
  /\ frame[t].pc \in Launching \cup {"template"} /\ frame'[t].pc = "idle"
  /\ frame'[t].job = NoJob /\ frame'[t].todo = {}

Aside(t) ==
  /\ frame[t].pc \notin Launching \cup {"template"} /\ frame'[t].pc \notin Launching \cup {"template"}
  /\ frame'[t].job = NoJob \/ frame'[t].job = frame[t].job
  /\ frame'[t].todo \subseteq frame[t].todo
       \/ (frame'[t].todo \subseteq MustAsk(Unsettled) /\ resources' = resources)

\* submit_job() takes up a job.
LEMMA SubmitFrame ==
  ASSUME BookInv, NEW t \in Threads, NEW j \in Jobs, Submit(t, j)
  PROVE  Others(t) /\ TakesUp(t) /\ frame'[t].job = j
BY GoneTo DEF Submit, TakesUp, Idle

\* The template made, it goes on with a fleet; else it ends.
LEMMA CreateTemplateFrame ==
  ASSUME BookInv, NEW t \in Threads, CreateTemplate(t)
  PROVE  /\ Others(t)
         /\ \/ Ends(t) /\ Raise(t)
            \/ GoesOn(t) /\ \E f \in Fleets : frame'[t].fleet = {f} /\ BuildLaunchTemplateConfig(f)
                                              /\ submits' = submits
<1>1. CASE Raise(t)
  BY <1>1, GoneTo DEF Raise, Ends, CreateTemplate
<1>2. ASSUME NEW f \in Fleets, BuildLaunchTemplateConfig(f), submits' = submits,
             Goto(t, [frame[t] EXCEPT !.pc = "fleet", !.fleet = {f}])
      PROVE  Others(t) /\ GoesOn(t) /\ frame'[t].fleet = {f}
  <2>1. "fleet" \in Labels /\ {f} \in SUBSET Fleets
    BY DEF Labels
  <2>2. Others(t) /\ frame'[t].pc = "fleet" /\ frame'[t].job = frame[t].job
        /\ frame'[t].fleet = {f} /\ frame'[t].todo = frame[t].todo
    BY <1>2, <2>1, GoneOnWith
  <2>3. QED
    BY <2>2 DEF GoesOn, Launching, CreateTemplate
<1>3. QED
  BY <1>1, <1>2 DEF CreateTemplate

\* The rest of submit_job() goes on with that fleet, or ends.
LEMMA LaunchFrame ==
  ASSUME BookInv, NEW t \in Threads,
         Create(t) \/ WaitRunning(t) \/ Discard(t) \/ Register(t) \/ Track(t)
  PROVE  Others(t) /\ (Ends(t) \/ GoesOn(t))
<1>1. frame[t].pc \in Launching
  BY DEF Create, WaitRunning, Discard, Register, Track, Launching
<1>2. \/ Goto(t, Idle)
      \/ \E l \in Launching : Goto(t, [frame[t] EXCEPT !.pc = l])
  BY DEF Create, WaitRunning, Discard, Register, Track, Raise, Launching
<1>3. CASE Goto(t, Idle)
  BY <1>1, <1>3, GoneTo DEF Ends
<1>4. ASSUME NEW l \in Launching, Goto(t, [frame[t] EXCEPT !.pc = l])
      PROVE  Others(t) /\ GoesOn(t)
  <2>1. l \in Labels
    BY DEF Launching, Labels
  <2>2. Others(t) /\ frame'[t].pc = l /\ frame'[t].job = frame[t].job
        /\ frame'[t].fleet = frame[t].fleet /\ frame'[t].todo = frame[t].todo
    BY <1>4, <2>1, GoneOn
  <2>3. QED
    BY <1>1, <2>2 DEF GoesOn
<1>5. QED
  BY <1>2, <1>3, <1>4

\* The poll has no job.
LEMMA PollFrame ==
  ASSUME BookInv, NEW t \in Threads, StatusBegin(t) \/ StatusStep(t)
  PROVE  Others(t) /\ Aside(t)
<1>1. CASE StatusBegin(t)
  <2>1. MustAsk(Unsettled) \in SUBSET Fleets
    BY DEF MustAsk, Unsettled, Recorded
  <2>2. Goto(t, Idle) \/ Goto(t, [At("describe") EXCEPT !.todo = MustAsk(Unsettled)])
    BY <1>1 DEF StatusBegin
  <2>3. /\ Others(t) /\ frame'[t].pc \in {"idle", "describe"} /\ frame'[t].job = NoJob
        /\ frame'[t].todo \subseteq MustAsk(Unsettled)
    <3>1. CASE Goto(t, Idle)
      BY <3>1, GoneTo
    <3>2. CASE Goto(t, [At("describe") EXCEPT !.todo = MustAsk(Unsettled)])
      BY <2>1, <3>2, GoneToDescribe
    <3>3. QED
      BY <2>2, <3>1, <3>2
  <2>4. frame[t].pc = "idle" /\ resources' = resources
    BY <1>1 DEF StatusBegin, Idle
  <2>5. QED
    BY <2>3, <2>4 DEF Aside, Launching
<1>2. CASE DescribeBlock(t)
  <2>1. PICK f \in Fleets, a \in Status : Goto(t, [frame[t] EXCEPT !.pc = "write", !.fleet = {f}, !.answer = a])
    BY <1>2, AnswersType, TypesOf DEF DescribeBlock
  <2>2. "write" \in Labels /\ {f} \in SUBSET Fleets
    BY DEF Labels
  <2>3. Others(t) /\ frame'[t].pc = "write" /\ frame'[t].job = frame[t].job
        /\ frame'[t].todo = frame[t].todo
    BY <2>1, <2>2, GoneOnAnswering
  <2>4. QED
    BY <1>2, <2>3 DEF Aside, DescribeBlock, Launching
<1>3. CASE WriteStatus(t)
  <2>1. frame[t].todo \ frame[t].fleet \in SUBSET Fleets
    BY TypesOf
  <2>2. Goto(t, Idle) \/ Goto(t, [At("describe") EXCEPT !.todo = frame[t].todo \ frame[t].fleet])
    BY <1>3 DEF WriteStatus
  <2>3. /\ Others(t) /\ frame'[t].pc \in {"idle", "describe"} /\ frame'[t].job = NoJob
        /\ frame'[t].todo \subseteq frame[t].todo
    <3>1. CASE Goto(t, Idle)
      BY <3>1, GoneTo
    <3>2. CASE Goto(t, [At("describe") EXCEPT !.todo = frame[t].todo \ frame[t].fleet])
      <4>1. PICK F \in SUBSET Fleets : F = frame[t].todo \ frame[t].fleet
        BY <2>1
      <4>2. Goto(t, [At("describe") EXCEPT !.todo = F])
        BY <3>2, <4>1
      <4>3. QED
        BY <4>1, <4>2, GoneToDescribe
    <3>3. QED
      BY <2>2, <3>1, <3>2
  <2>4. frame[t].pc = "write"
    BY <1>3 DEF WriteStatus
  <2>5. QED
    BY <2>3, <2>4 DEF Aside, Launching
<1>4. QED
  BY <1>1, <1>2, <1>3 DEF StatusStep

\* Nor do cancel(), the cleanups and shutdown().
LEMMA ReleaseFrame ==
  ASSUME BookInv, NEW t \in Threads,
         (\E f \in Fleets : Cancel(t, f)) \/ Cleanup(t) \/ Shutdown(t) \/ Sweep(t) \/ LastSweep(t)
  PROVE  Others(t) /\ Aside(t)
<1>1. frame[t].pc \in {"idle", "cleanup", "sweep", "last_sweep"}
  <2>1. \/ frame[t] = Idle
        \/ frame[t].pc \in {"cleanup", "sweep", "last_sweep"}
    BY DEF Cancel, Cleanup, Shutdown, Sweep, LastSweep
  <2>2. QED
    BY <2>1 DEF Idle
<1>2. Goto(t, Idle) \/ \E l \in {"cleanup", "sweep", "last_sweep"} : Goto(t, At(l))
  BY DEF Cancel, Cleanup, Shutdown, Sweep, LastSweep
<1>3. Others(t) /\ frame'[t].pc \in {"idle", "cleanup", "sweep", "last_sweep"}
      /\ frame'[t].job = NoJob /\ frame'[t].todo = {}
  BY <1>2, GoneTo DEF Labels
<1>4. QED
  BY <1>1, <1>3 DEF Aside, Launching

\* Every step but a restart is one of these.
LEMMA FrameStep ==
  ASSUME BookInv, [Next]_vars
  PROVE  \/ frame' = frame
         \/ Restart
         \/ \E t \in Threads : Others(t) /\ (TakesUp(t) \/ GoesOn(t) \/ Ends(t) \/ Aside(t))
<1>1. ASSUME NEW t \in Threads, Call(t) PROVE Others(t) /\ (TakesUp(t) \/ Aside(t))
  BY <1>1, SubmitFrame, PollFrame, ReleaseFrame DEF Call
<1>2. ASSUME NEW t \in Threads, Continue(t) PROVE Others(t) /\ (GoesOn(t) \/ Ends(t) \/ Aside(t))
  BY <1>2, CreateTemplateFrame, LaunchFrame, PollFrame, ReleaseFrame DEF Continue, SubmitStep
<1>3. ASSUME MonitorStep \/ EnvironmentStep \/ UNCHANGED vars PROVE frame' = frame
  BY <1>3 DEF MonitorStep, MonitorUnchanged, MarkInterrupted, HandlerRaises, EnvironmentStep, Warn,
     NodeStep, FleetGone, vars, callVars
<1>4. QED
  BY <1>1, <1>2, <1>3 DEF Next

\* A block marked INTERRUPTED stays so until it is canceled or dropped, unless the poll
\* had already read the record when the mark was set, or the process died before
\* saving it.
THEOREM InterruptionStays == Spec => InterruptionIsSticky
<1>1. Init => MarkInv
  BY DEF Init, MarkInv, Idle
<1>2. BookInv /\ MarkInv /\ [Next]_vars => MarkInv'
  <2> SUFFICES ASSUME BookInv, MarkInv, [Next]_vars, {"late_mark", "crash"} \cap happened' = {},
                      NEW t \in Threads, NEW f \in frame'[t].todo, Marked(f)'
               PROVE  FALSE
    BY DEF MarkInv
  <2>1. {"late_mark", "crash"} \cap happened = {} /\ f \in Fleets
    BY StepRemembers, BookStep, TypeParts DEF Remembered, BookInv, CallsOK, Frame
  <2>2. /\ Marked(f) \/ \A u \in Threads : f \notin frame[u].todo
        /\ Marked(f) \/ frame' = frame
    BY <2>1, MarkStep
  <2>3. Marked(f) /\ f \notin frame[t].todo
    BY <2>1, <2>2 DEF MarkInv
  <2>4. ~Restart /\ frame' # frame
    BY <2>3, HappenKeeps DEF Restart
  <2>5. PICK u \in Threads : Others(u) /\ (TakesUp(u) \/ GoesOn(u) \/ Ends(u) \/ Aside(u))
    BY <2>4, FrameStep
  <2>6. u = t /\ Aside(t) /\ frame'[t].todo \subseteq MustAsk(Unsettled)
    BY <2>3, <2>5 DEF Others, TakesUp, GoesOn, Ends, Aside
  <2>7. QED
    BY <2>3, <2>6 DEF MustAsk, Marked
<1>3. BookInv /\ MarkInv /\ [Next]_vars =>
        [{"late_mark", "crash"} \cap happened' = {} =>
           \A f \in Fleets : resources[f].status = "INTERRUPTED" =>
             resources'[f].status \in {"INTERRUPTED", "CANCELED", "FAILED", Absent}]_vars
  BY MarkStep DEF Marked
<1>4. QED
  BY <1>1, <1>2, <1>3, BooksInvariant, PTL DEF Spec, InterruptionIsSticky

-----------------------------------------------------------------------------
(* Which job a fleet runs.                                                 *)

\* A thread between its template and its end works on a job that was called for, no
\* other thread on the same.
JobFrames ==
  \A t \in Threads :
    /\ frame[t].job \in Jobs <=> frame[t].pc \in Launching \cup {"template"}
    /\ frame[t].job \in Jobs => submits[frame[t].job] = "called"
    /\ \A u \in Threads : u # t /\ frame[t].job \in Jobs => frame[u].job # frame[t].job

\* The script of a job not called for is nowhere.
Used ==
  \A j \in Jobs : submits[j] = "none" => worker_init # j /\ \A f \in Fleets : user_data[f] # j

\* From the manager's attribute to the template and on to the record, the script is
\* that of the job.
Scripts ==
  "overlap" \notin happened =>
    /\ \A t \in Threads :
         /\ frame[t].pc = "template" => worker_init = frame[t].job
         /\ frame[t].pc \in Launching => \A f \in frame[t].fleet : user_data[f] = frame[t].job
    /\ \A f \in Fleets : Tracked(f) => user_data[f] = resources[f].job

\* A fleet with instances runs no job whose call raised, and if the call is still going
\* on, it is that call's fleet.
RaisedStops ==
  {"overlap", "delete", "lost"} \cap happened = {} =>
    \A f \in Fleets : \A j \in Jobs : user_data[f] = j /\ LiveNodes(f) # {} =>
      /\ submits[j] # "raised"
      /\ \A t \in Threads : frame[t].job = j => f \in frame[t].fleet

JobInv == JobFrames /\ Used /\ Scripts /\ RaisedStops

\* The frames after each kind of step.
LEMMA JobFramesStep ==
  ASSUME BookInv, JobFrames, NEW t \in Threads, Others(t),
         \/ Aside(t) /\ submits' = submits
         \/ GoesOn(t) /\ submits' = submits
         \/ Ends(t) /\ \E x : submits' = [submits EXCEPT ![frame[t].job] = x]
  PROVE  JobFrames'
<1>1. NoJob \notin Jobs
  BY FleetAssumption
<1>2. frame[t].job \in Jobs \cup {NoJob} /\ \A u \in Threads : u # t => frame'[u] = frame[u]
  BY TypesOf DEF Frame, Others
<1>3. CASE Aside(t) /\ submits' = submits
  <2>1. frame[t].job \notin Jobs /\ frame'[t].job \notin Jobs /\ frame'[t].pc \notin Launching \cup {"template"}
    BY <1>1, <1>3 DEF Aside, JobFrames
  <2>2. QED
    BY <1>2, <1>3, <2>1 DEF JobFrames
<1>4. CASE GoesOn(t) /\ submits' = submits
  BY <1>2, <1>4 DEF GoesOn, JobFrames
<1>5. CASE Ends(t) /\ \E x : submits' = [submits EXCEPT ![frame[t].job] = x]
  <2>1. frame[t].job \in Jobs /\ frame'[t].job \notin Jobs /\ frame'[t].pc \notin Launching \cup {"template"}
    BY <1>1, <1>5 DEF Ends, JobFrames, Launching
  <2>2. \A j \in Jobs : j # frame[t].job => submits'[j] = submits[j]
    BY <1>5, TypesOf DEF CallsOK
  <2>3. ASSUME NEW u \in Threads, u # t, frame[u].job \in Jobs PROVE frame[u].job # frame[t].job
    BY <2>1, <2>3 DEF JobFrames
  <2>4. QED
    BY <1>2, <2>1, <2>2, <2>3 DEF JobFrames
<1>6. QED
  BY <1>3, <1>4, <1>5

\* A thread that launches, or is about to, holds no fleet but the one it launches.
LEMMA LaunchFleet ==
  ASSUME BookInv, NEW t \in Threads
  PROVE  /\ frame[t].pc = "template" => frame[t].fleet = {}
         /\ frame[t].pc \in Launching =>
              \E f \in Fleets : frame[t].fleet = {f} /\ ~Tracked(f) /\ reported[f] = "none"
                                /\ (frame[t].pc = "fleet" <=> fleet[f] = "none")
BY TypesOf DEF Sound, Launching

\* No step but Track makes a record, and none changes the job of one.
LEMMA RecordKept ==
  ASSUME BookInv, [Next]_vars, \A t \in Threads : ~Track(t), NEW f \in Fleets, Tracked(f)'
  PROVE  Tracked(f) /\ resources'[f].job = resources[f].job
<1> USE TypesOf
<1>1. ASSUME NEW t \in Threads, WriteStatus(t)
      PROVE  Tracked(f) /\ resources'[f].job = resources[f].job
  BY <1>1 DEF WriteStatus, Tracked, ModeOK, Record
<1>2. ASSUME NEW t \in Threads, NEW g \in Fleets, Cancel(t, g)
      PROVE  Tracked(f) /\ resources'[f].job = resources[f].job
  BY <1>2 DEF Cancel, Tracked, ModeOK, Record
<1>3. ASSUME NEW F, DropRecords(F)
      PROVE  Tracked(f) /\ resources'[f].job = resources[f].job
  BY <1>3 DEF DropRecords, Tracked, NoRecord
<1>4. ASSUME resources' = resources
      PROVE  Tracked(f) /\ resources'[f].job = resources[f].job
  BY <1>4 DEF Tracked
<1>5. ASSUME NEW t \in Threads, Cleanup(t) \/ Shutdown(t)
      PROVE  Tracked(f) /\ resources'[f].job = resources[f].job
  <2>1. resources' = resources \/ \E F : DropRecords(F)
    <3>1. CASE Cleanup(t)
      BY <3>1 DEF Cleanup
    <3>2. CASE Shutdown(t)
      BY <3>2 DEF Shutdown
    <3>3. QED
      BY <1>5, <3>1, <3>2
  <2>2. QED
    BY <1>3, <1>4, <2>1
<1>6. ASSUME MarkInterrupted
      PROVE  Tracked(f) /\ resources'[f].job = resources[f].job
  BY <1>6 DEF MarkInterrupted, ResourceIdsForFleet, TrackedFleets, Tracked, ModeOK, Record
<1>7. ASSUME Restart
      PROVE  Tracked(f) /\ resources'[f].job = resources[f].job
  BY <1>7 DEF Restart, FleetSound, Tracked
<1>8. \A t \in Threads : StatusBegin(t) => resources' = resources
  BY DEF StatusBegin
<1>9. QED
  BY <1>1, <1>2, <1>4, <1>5, <1>6, <1>7, <1>8, RecordsStep

\* A new job's script goes into the attribute, where no other call's is waiting unless the
\* two overlap.
LEMMA SubmitJob ==
  ASSUME BookInv, JobInv, NEW t \in Threads, NEW j \in Jobs, Submit(t, j)
  PROVE  JobInv'
<1>1. /\ Others(t) /\ TakesUp(t) /\ frame'[t].job = j
      /\ UNCHANGED <<user_data, resources, node>> /\ worker_init' = j
      /\ submits[j] = "none" /\ submits' = [submits EXCEPT ![j] = "called"] /\ Remembered
      /\ "overlap" \notin happened' => \A u \in Threads : frame[u].pc # "template"
  <2>1. Others(t) /\ TakesUp(t) /\ frame'[t].job = j
    BY SubmitFrame
  <2>2. /\ UNCHANGED <<user_data, resources, node>> /\ worker_init' = j
        /\ submits[j] = "none" /\ submits' = [submits EXCEPT ![j] = "called"]
    BY DEF Submit, SubmitUnchanged, ec2Vars, modeVars
  <2>3. Remembered
    BY HappenRemembers DEF Submit
  <2>4. "overlap" \notin happened' => \A u \in Threads : frame[u].pc # "template"
    BY HappenKeeps DEF Submit, IfSo
  <2>5. QED
    BY <2>1, <2>2, <2>3, <2>4
<1>2. /\ \A u \in Threads : u # t => frame'[u] = frame[u] /\ frame[u].job # j
      /\ frame[t].job \notin Jobs
      /\ \A i \in Jobs : submits'[i] = IF i = j THEN "called" ELSE submits[i]
  <2>1. \A u \in Threads : frame[u].job # j
    BY <1>1 DEF JobInv, JobFrames
  <2>2. \A i \in Jobs : submits'[i] = IF i = j THEN "called" ELSE submits[i]
    BY <1>1, TypesOf DEF CallsOK
  <2>3. QED
    BY <1>1, <2>1, <2>2 DEF Others, TakesUp, JobInv, JobFrames, Launching
<1>3. JobFrames'
  BY <1>1, <1>2 DEF JobInv, JobFrames, TakesUp
<1>4. Used'
  BY <1>1, <1>2 DEF JobInv, Used
<1>5. Scripts'
  <2>1. "overlap" \notin happened' => "overlap" \notin happened
    BY <1>1 DEF Remembered
  <2>2. QED
    BY <1>1, <1>2, <2>1 DEF JobInv, Scripts, TakesUp, Launching, Tracked
<1>6. RaisedStops'
  <2>1. {"overlap", "delete", "lost"} \cap happened' = {} => {"overlap", "delete", "lost"} \cap happened = {}
    BY <1>1 DEF Remembered
  <2>2. \A f \in Fleets : user_data[f] # j /\ LiveNodes(f)' = LiveNodes(f)
    BY <1>1 DEF JobInv, Used, LiveNodes
  <2>3. QED
    BY <1>1, <1>2, <2>1, <2>2 DEF JobInv, RaisedStops
<1>7. QED
  BY <1>3, <1>4, <1>5, <1>6 DEF JobInv

\* A step that passes no script on leaves the scripts where they belong.
LEMMA ScriptsKept ==
  ASSUME BookInv, Scripts, [Next]_vars, \A u \in Threads : ~Track(u),
         UNCHANGED <<user_data, worker_init>>,
         \/ frame' = frame
         \/ \E t \in Threads :
              Others(t) /\ ((GoesOn(t) /\ frame[t].pc # "template") \/ Ends(t) \/ Aside(t))
  PROVE  Scripts'
<1> SUFFICES ASSUME "overlap" \notin happened' PROVE Scripts'
  BY DEF Scripts
<1>1. "overlap" \notin happened
  BY StepRemembers DEF Remembered
<1>2. \A f \in Fleets : Tracked(f)' => user_data'[f] = resources'[f].job
  BY <1>1, RecordKept DEF Scripts
<1>3. ASSUME NEW u \in Threads
      PROVE  /\ frame'[u].pc = "template" => worker_init' = frame'[u].job
             /\ frame'[u].pc \in Launching => \A f \in frame'[u].fleet : user_data'[f] = frame'[u].job
  <2>1. CASE frame'[u] = frame[u]
    BY <1>1, <2>1 DEF Scripts
  <2>2. CASE GoesOn(u) /\ frame[u].pc # "template"
    BY <1>1, <2>2 DEF Scripts, GoesOn, Launching
  <2>3. CASE Ends(u) \/ Aside(u)
    BY <2>3 DEF Ends, Aside, Launching
  <2>4. QED
    BY <2>1, <2>2, <2>3 DEF Others
<1>4. QED
  BY <1>2, <1>3 DEF Scripts

\* Nor does it leave instances for a job whose call raised, if it leaves none for one
\* whose call it ends.
LEMMA RaisedKept ==
  ASSUME BookInv, JobInv, [Next]_vars, user_data' = user_data, NEW t \in Threads, Others(t),
         \/ (Aside(t) \/ GoesOn(t)) /\ submits' = submits
         \/ Ends(t) /\ submits' = [submits EXCEPT ![frame[t].job] = "accepted"]
         \/ /\ Ends(t) /\ submits' = [submits EXCEPT ![frame[t].job] = "raised"]
            /\ {"overlap", "delete", "lost"} \cap happened' = {} =>
                 \A f \in frame[t].fleet : LiveNodes(f)' = {},
         \A f \in Fleets : LiveNodes(f)' \subseteq LiveNodes(f)
                           \/ (GoesOn(t) /\ frame[t].pc # "template" /\ f \in frame[t].fleet)
                           \/ "lost" \in happened'
  PROVE  RaisedStops'
<1> SUFFICES ASSUME {"overlap", "delete", "lost"} \cap happened' = {},
                    NEW f \in Fleets, NEW j \in Jobs, user_data'[f] = j, LiveNodes(f)' # {}
             PROVE  /\ submits'[j] # "raised"
                    /\ \A u \in Threads : frame'[u].job = j => f \in frame'[u].fleet
  BY DEF RaisedStops
<1>1. {"overlap", "delete", "lost"} \cap happened = {} /\ user_data[f] = j /\ NoJob \notin Jobs
  BY StepRemembers, FleetAssumption DEF Remembered
<1>2. /\ submits[j] # "raised"
      /\ \A u \in Threads : frame[u].job = j => f \in frame[u].fleet
  <2>1. CASE LiveNodes(f)' \subseteq LiveNodes(f)
    BY <1>1, <2>1 DEF JobInv, RaisedStops
  <2>2. CASE GoesOn(t) /\ frame[t].pc # "template" /\ f \in frame[t].fleet
    <3>1. frame[t].pc \in Launching
      BY <2>2 DEF GoesOn
    <3>2. user_data[f] = frame[t].job
      BY <1>1, <2>2, <3>1 DEF JobInv, Scripts
    <3>3. submits[j] = "called" /\ \A u \in Threads : u # t => frame[u].job # j
      BY <1>1, <3>2 DEF JobInv, JobFrames
    <3>4. QED
      BY <2>2, <3>3
  <2>3. QED
    BY <2>1, <2>2
<1>3. ASSUME NEW u \in Threads, frame'[u].job = j PROVE f \in frame'[u].fleet
  <2>1. CASE frame'[u] = frame[u]
    BY <1>2, <1>3, <2>1
  <2>2. CASE u = t
    <3>1. ~Ends(t)
      BY <1>1, <1>3, <2>2 DEF Ends
    <3>2. CASE GoesOn(t)
      <4>1. f \in frame[t].fleet
        BY <1>2, <1>3, <2>2, <3>2 DEF GoesOn
      <4>2. frame[t].pc # "template"
        BY <4>1, LaunchFleet
      <4>3. QED
        BY <2>2, <3>2, <4>1, <4>2 DEF GoesOn
    <3>3. CASE Aside(t)
      <4>1. frame'[t].job \notin Jobs
        BY <1>1, <3>3 DEF Aside, JobInv, JobFrames
      <4>2. QED
        BY <1>3, <2>2, <4>1
    <3>4. QED
      BY <3>1, <3>2, <3>3
  <2>3. QED
    BY <2>1, <2>2 DEF Others
<1>4. submits'[j] # "raised"
  <2>1. CASE submits' = submits \/ submits' = [submits EXCEPT ![frame[t].job] = "accepted"]
    BY <1>2, <2>1, TypesOf DEF CallsOK
  <2>2. CASE /\ submits' = [submits EXCEPT ![frame[t].job] = "raised"]
             /\ \A g \in frame[t].fleet : LiveNodes(g)' = {}
    <3>1. frame[t].job # j
      BY <1>2, <2>2
    <3>2. QED
      BY <1>2, <2>2, <3>1, TypesOf DEF CallsOK
  <2>3. QED
    BY <2>1, <2>2
<1>5. QED
  BY <1>3, <1>4

\* What a step of a launching thread leaves, if it passes no script on.
LEMMA LaunchJob ==
  ASSUME BookInv, JobInv, NEW t \in Threads,
         Create(t) \/ WaitRunning(t) \/ Discard(t) \/ Register(t)
  PROVE  JobInv'
<1>1. [Next]_vars /\ \A u \in Threads : ~Track(u)
  <2>1. Continue(t)
    BY DEF Continue, SubmitStep
  <2>2. ASSUME NEW u \in Threads, Track(u) PROVE FALSE
    <3>1. submits' = [submits EXCEPT ![frame[u].job] = "accepted"] /\ resources' # resources
      BY <2>2, LaunchFleet, TypesOf DEF Track, Launching, ModeOK, Tracked, Absent
    <3>2. QED
      BY <3>1 DEF Create, WaitRunning, Discard, Register, SubmitUnchanged, modeVars
  <2>3. QED
    BY <2>1, <2>2 DEF Next
<1>2. UNCHANGED <<user_data, worker_init>>
  BY DEF Create, WaitRunning, Discard, Register, CreateFleet, CreateFleetRefused, CreateFleetLost,
     managerVars, ec2Vars
<1>3. PICK f \in Fleets : frame[t].fleet = {f} /\ (frame[t].pc = "fleet" <=> fleet[f] = "none")
  BY LaunchFleet DEF Create, WaitRunning, Discard, Register, Launching
<1>4. Others(t) /\ (GoesOn(t) \/ Ends(t)) /\ frame[t].pc # "template"
  BY LaunchFrame DEF Create, WaitRunning, Discard, Register
<1>5. \/ GoesOn(t) /\ submits' = submits
      \/ /\ Ends(t) /\ submits' = [submits EXCEPT ![frame[t].job] = "raised"]
         /\ "delete" \notin happened' => LiveNodes(f)' = {} \/ "lost" \in happened'
  <2>1. CASE Raise(t)
    <3>1. Ends(t)
      BY <1>4, <2>1, GoneTo DEF Raise, GoesOn, Launching
    <3>2. ASSUME Create(t), "lost" \notin happened' PROVE LiveNodes(f)' = {}
      <4>1. CASE \E N \in SUBSET Nodes : Goto(t, [frame[t] EXCEPT !.pc = IF N = {} THEN "discard" ELSE "wait"])
        <5>1. GoesOn(t)
          <6>1. PICK l \in Labels : l \in Launching /\ Goto(t, [frame[t] EXCEPT !.pc = l])
            BY <4>1 DEF Labels, Launching
          <6>2. frame'[t].pc = l
            BY <6>1, GoneOn
          <6>3. QED
            BY <1>4, <3>1, <6>1, <6>2 DEF Ends, Launching
        <5>2. QED
          BY <3>1, <5>1 DEF GoesOn, Ends, Launching
      <4>2. CASE \E kept \in SUBSET {f} : CreateFleetRefused(f, kept)
        <5>1. LiveNodes(f) = {} /\ node' = node
          BY <1>3, <3>2, <4>2, TypesOf DEF Create, CreateFleetRefused, FleetSound
        <5>2. QED
          BY <5>1 DEF LiveNodes
      <4>3. CASE Happen({"lost"})
        BY <3>2, <4>3, HappenKeeps
      <4>4. QED
        BY <1>3, <3>2, <4>1, <4>2, <4>3 DEF Create
    <3>3. ASSUME Discard(t), "delete" \notin happened' PROVE LiveNodes(f)' = {}
      <4>1. PICK refused, kept \in SUBSET frame[t].fleet :
              DeleteFleets(frame[t].fleet \ refused) /\ Deletion(refused, kept)
        BY <3>3 DEF Discard
      <4>2. refused = {}
        BY <3>3, <4>1, HappenKeeps DEF Deletion, DeletionAnd, IfSo
      <4>3. DeleteFleets({f})
        BY <1>3, <4>1, <4>2
      <4>4. QED
        BY <4>3, AgingDelete, TypesOf
    <3>4. ~WaitRunning(t) /\ ~Register(t)
      <4>1. submits' # submits
        BY <1>4, <2>1, TypesOf DEF Raise, JobInv, JobFrames, Create, WaitRunning, Discard, Register,
           Launching, CallsOK
      <4>2. QED
        BY <4>1 DEF WaitRunning, Register
    <3>5. QED
      BY <2>1, <3>1, <3>2, <3>3, <3>4 DEF Raise
  <2>2. CASE ~Raise(t)
    <3>1. submits' = submits /\ \E l \in Launching : Goto(t, [frame[t] EXCEPT !.pc = l])
      BY <2>2 DEF Create, WaitRunning, Discard, Register, Launching
    <3>2. PICK l \in Labels : l \in Launching /\ Goto(t, [frame[t] EXCEPT !.pc = l])
      BY <3>1 DEF Labels, Launching
    <3>3. frame'[t].pc = l
      BY <3>2, GoneOn
    <3>4. QED
      BY <1>4, <3>1, <3>2, <3>3 DEF Ends, Launching
  <2>3. QED
    BY <2>1, <2>2
<1>6. \A g \in Fleets : LiveNodes(g)' \subseteq LiveNodes(g)
                        \/ (GoesOn(t) /\ frame[t].pc # "template" /\ g \in frame[t].fleet)
                        \/ "lost" \in happened'
  <2>1. ASSUME NEW g \in Fleets, ~(LiveNodes(g)' \subseteq LiveNodes(g))
        PROVE  (GoesOn(t) /\ g = f) \/ "lost" \in happened'
    <3>1. PICK u \in Threads : Create(u) /\ frame[u].fleet = {g}
      BY <1>1, <2>1, LiveStep
    <3>2. u = t
      <4>1. Goto(u, Idle) \/ \E l \in {"discard", "wait"} : Goto(u, [frame[u] EXCEPT !.pc = l])
        BY <3>1 DEF Create, Raise
      <4>2. frame'[u].pc # "fleet" /\ frame[u].pc = "fleet"
        BY <3>1, <4>1, GoneTo, GoneOn DEF Labels, Create
      <4>3. QED
        BY <1>4, <4>2 DEF Others
    <3>3. node' # node
      BY <2>1 DEF LiveNodes
    <3>4. \/ \E l \in {"discard", "wait"} : Goto(t, [frame[t] EXCEPT !.pc = l])
          \/ "lost" \in happened'
      BY <3>1, <3>2, <3>3, HappenKeeps DEF Create, CreateFleetRefused
    <3>5. frame'[t].pc \in {"discard", "wait"} \/ "lost" \in happened'
      BY <3>4, GoneOn DEF Labels
    <3>6. QED
      BY <1>3, <1>4, <3>1, <3>2, <3>5 DEF Ends
  <2>2. QED
    BY <1>3, <1>4, <2>1
<1>7. JobFrames'
  BY <1>4, <1>5, JobFramesStep DEF JobInv
<1>8. Used'
  BY <1>2, <1>5, TypesOf DEF JobInv, Used, CallsOK
<1>9. Scripts'
  BY <1>1, <1>2, <1>4, ScriptsKept DEF JobInv
<1>10. RaisedStops'
  BY <1>1, <1>2, <1>3, <1>4, <1>5, <1>6, RaisedKept
<1>11. QED
  BY <1>7, <1>8, <1>9, <1>10 DEF JobInv

\* A new template carries the script of the manager's attribute, on an identifier that
\* no record, no other thread and no instance has.
LEMMA CreateTemplateJob ==
  ASSUME BookInv, JobInv, NEW t \in Threads, CreateTemplate(t)
  PROVE  JobInv'
<1>1. [Next]_vars /\ UNCHANGED <<worker_init, node, resources>> /\ frame[t].pc = "template"
  BY DEF CreateTemplate, BuildLaunchTemplateConfig, SubmitUnchanged, modeVars, managerVars, ec2Vars,
     Next, Continue, SubmitStep
<1>2. frame[t].fleet = {}
  BY <1>1, LaunchFleet
<1>3. \A f \in Fleets : LiveNodes(f)' = LiveNodes(f)
  BY <1>1 DEF LiveNodes
<1>4. CASE Ends(t) /\ Raise(t) /\ Others(t) /\ user_data' = user_data
  <2>1. submits' = [submits EXCEPT ![frame[t].job] = "raised"]
    BY <1>4 DEF Raise
  <2>2. JobFrames'
    BY <1>4, <2>1, JobFramesStep DEF JobInv
  <2>3. Used'
    BY <1>1, <1>4, <2>1, TypesOf DEF JobInv, Used, CallsOK
  <2>4. \A u \in Threads : ~Track(u)
    <3>1. frame'[t] # frame[t] /\ \A u \in Threads : Track(u) => u # t
      BY <1>1, <1>4 DEF Ends, Track
    <3>2. \A u \in Threads : Track(u) => frame'[u] # frame[u]
      BY LaunchFrame, GoneTo DEF Track, Idle
    <3>3. QED
      BY <1>4, <3>1, <3>2 DEF Others
  <2>5. Scripts'
    BY <1>1, <1>4, <2>4, ScriptsKept DEF JobInv
  <2>6. RaisedStops'
    BY <1>1, <1>2, <1>3, <1>4, <2>1, RaisedKept
  <2>7. QED
    BY <2>2, <2>3, <2>5, <2>6 DEF JobInv
<1>5. ASSUME NEW f \in Fleets, Others(t), GoesOn(t), frame'[t].fleet = {f}, submits' = submits,
             \A u \in Threads : f \notin frame[u].fleet, BuildLaunchTemplateConfig(f)
      PROVE  JobInv'
  <2>1. /\ fleet[f] = "none"
        /\ \A g \in Fleets : user_data'[g] = IF g = f THEN worker_init ELSE user_data[g]
    BY <1>5, TypesOf DEF BuildLaunchTemplateConfig, FreshFleet, Ec2OK
  <2>2. LiveNodes(f) = {} /\ ~Tracked(f)
    BY <2>1, TypesOf DEF FleetSound
  <2>3. \A u \in Threads : u # t => frame'[u] = frame[u]
    BY <1>5 DEF Others
  <2>4. frame'[t].job = frame[t].job /\ frame'[t].pc \in Launching
    BY <1>5 DEF GoesOn
  <2>5. JobFrames'
    BY <1>5, JobFramesStep DEF JobInv
  <2>6. Used'
    BY <1>1, <1>5, <2>1 DEF JobInv, Used
  <2>7. ASSUME "overlap" \notin happened' PROVE "overlap" \notin happened
    BY <1>1, <2>7, StepRemembers DEF Remembered
  <2>8. Scripts'
    <3> SUFFICES ASSUME "overlap" \notin happened' PROVE Scripts'
      BY DEF Scripts
    <3>1. worker_init = frame[t].job
      BY <1>1, <2>7 DEF JobInv, Scripts
    <3>2. \A g \in Fleets : Tracked(g)' => user_data'[g] = resources'[g].job
      BY <1>1, <2>1, <2>2, <2>7 DEF JobInv, Scripts, Tracked
    <3>3. ASSUME NEW u \in Threads, u # t
          PROVE  /\ frame'[u].pc = "template" => worker_init' = frame'[u].job
                 /\ frame'[u].pc \in Launching => \A g \in frame'[u].fleet : user_data'[g] = frame'[u].job
      <4>1. frame'[u] = frame[u] /\ frame[u].fleet \subseteq Fleets
        BY <2>3, <3>3, TypesOf
      <4>2. \A g \in frame[u].fleet : user_data'[g] = user_data[g]
        BY <1>5, <2>1, <4>1
      <4>3. QED
        BY <1>1, <2>7, <4>1, <4>2 DEF JobInv, Scripts
    <3>4. /\ frame'[t].pc # "template"
          /\ \A g \in frame'[t].fleet : user_data'[g] = frame'[t].job
      BY <1>5, <2>1, <2>4, <3>1 DEF Launching
    <3>5. QED
      BY <3>2, <3>3, <3>4 DEF Scripts
  <2>9. RaisedStops'
    <3> SUFFICES ASSUME {"overlap", "delete", "lost"} \cap happened' = {},
                        NEW g \in Fleets, NEW j \in Jobs, user_data'[g] = j, LiveNodes(g)' # {}
                 PROVE  /\ submits'[j] # "raised"
                        /\ \A u \in Threads : frame'[u].job = j => g \in frame'[u].fleet
      BY DEF RaisedStops
    <3>1. {"overlap", "delete", "lost"} \cap happened = {}
      BY <1>1, StepRemembers DEF Remembered
    <3>2. g # f /\ user_data[g] = j /\ LiveNodes(g) # {}
      BY <1>3, <2>1, <2>2
    <3>3. submits[j] # "raised" /\ \A u \in Threads : frame[u].job = j => g \in frame[u].fleet
      BY <3>1, <3>2 DEF JobInv, RaisedStops
    <3>4. QED
      BY <1>2, <1>5, <2>3, <2>4, <3>3
  <2>10. QED
    BY <2>5, <2>6, <2>8, <2>9 DEF JobInv
<1>6. (Ends(t) /\ Raise(t)) \/ GoesOn(t)
  BY CreateTemplateFrame
<1>7. CASE GoesOn(t)
  <2>1. PICK f \in Fleets : /\ BuildLaunchTemplateConfig(f) /\ submits' = submits
                            /\ \A u \in Threads : f \notin frame[u].fleet
                            /\ Goto(t, [frame[t] EXCEPT !.pc = "fleet", !.fleet = {f}])
    <3>1. ~Raise(t)
      BY <1>7, GoneTo DEF Raise, GoesOn, Launching
    <3>2. QED
      BY <3>1 DEF CreateTemplate
  <2>2. Others(t) /\ frame'[t].fleet = {f}
    <3>1. "fleet" \in Labels /\ {f} \in SUBSET Fleets
      BY DEF Labels
    <3>2. QED
      BY <2>1, <3>1, GoneOnWith
  <2>3. QED
    BY <1>5, <1>7, <2>1, <2>2
<1>8. CASE Ends(t) /\ Raise(t)
  <2>1. Others(t)
    BY CreateTemplateFrame
  <2>2. user_data' = user_data
    <3>1. ASSUME NEW f \in Fleets, Goto(t, [frame[t] EXCEPT !.pc = "fleet", !.fleet = {f}])
          PROVE  FALSE
      <4>1. "fleet" \in Labels /\ {f} \in SUBSET Fleets
        BY DEF Labels
      <4>2. frame'[t].pc = "fleet"
        BY <3>1, <4>1, GoneOnWith
      <4>3. QED
        BY <1>8, <4>2 DEF Ends
    <3>2. QED
      BY <3>1 DEF CreateTemplate, ec2Vars
  <2>3. QED
    BY <1>4, <1>8, <2>1, <2>2
<1>9. QED
  BY <1>6, <1>7, <1>8

\* A record is made for the job whose script the fleet carries.
LEMMA TrackJob ==
  ASSUME BookInv, JobInv, NEW t \in Threads, Track(t)
  PROVE  JobInv'
<1>1. PICK f \in Fleets : frame[t].fleet = {f}
  BY LaunchFleet DEF Track, Launching
<1>2. /\ [Next]_vars /\ UNCHANGED <<user_data, worker_init, node>>
      /\ submits' = [submits EXCEPT ![frame[t].job] = "accepted"]
      /\ frame[t].pc = "track"
  BY DEF Track, Next, Continue, SubmitStep, managerVars, ec2Vars
<1>3. Others(t) /\ Ends(t)
  BY LaunchFrame, GoneTo DEF Track, GoesOn, Launching
<1>4. \A g \in Fleets : IF g = f THEN resources'[g].job = frame[t].job ELSE resources'[g] = resources[g]
  BY <1>1, TypesOf DEF Track, ModeOK
<1>5. \A g \in Fleets : LiveNodes(g)' = LiveNodes(g)
  BY <1>2 DEF LiveNodes
<1>6. JobFrames'
  BY <1>2, <1>3, JobFramesStep DEF JobInv
<1>7. Used'
  BY <1>2, TypesOf DEF JobInv, Used, CallsOK
<1>8. Scripts'
  <2> SUFFICES ASSUME "overlap" \notin happened' PROVE Scripts'
    BY DEF Scripts
  <2>1. "overlap" \notin happened
    BY <1>2, StepRemembers DEF Remembered
  <2>2. user_data[f] = frame[t].job
    BY <1>1, <1>2, <2>1 DEF JobInv, Scripts, Launching
  <2>3. \A g \in Fleets : Tracked(g)' => user_data'[g] = resources'[g].job
    BY <1>2, <1>4, <2>1, <2>2 DEF JobInv, Scripts, Tracked
  <2>4. \A u \in Threads : /\ frame'[u].pc = "template" => worker_init' = frame'[u].job
                           /\ frame'[u].pc \in Launching => \A g \in frame'[u].fleet : user_data'[g] = frame'[u].job
    BY <1>2, <1>3, <2>1 DEF JobInv, Scripts, Others, Ends, Launching
  <2>5. QED
    BY <2>3, <2>4 DEF Scripts
<1>9. RaisedStops'
  BY <1>2, <1>3, <1>5, RaisedKept
<1>10. QED
  BY <1>6, <1>7, <1>8, <1>9 DEF JobInv

\* The poll, the release of blocks, the monitor and the environment pass no script on.
LEMMA AsideJob ==
  ASSUME BookInv, JobInv, [Next]_vars, UNCHANGED <<submits, user_data, worker_init>>,
         \A u \in Threads : ~Track(u) /\ ~Create(u),
         frame' = frame \/ \E t \in Threads : Others(t) /\ Aside(t)
  PROVE  JobInv'
<1>1. \A f \in Fleets : LiveNodes(f)' \subseteq LiveNodes(f)
  BY LiveStep
<1>2. Scripts'
  BY ScriptsKept DEF JobInv
<1>3. Used'
  BY DEF JobInv, Used
<1>4. CASE frame' = frame
  <2>1. JobFrames'
    BY <1>4 DEF JobInv, JobFrames
  <2>2. {"overlap", "delete", "lost"} \cap happened' = {} => {"overlap", "delete", "lost"} \cap happened = {}
    BY StepRemembers DEF Remembered
  <2>3. RaisedStops'
    BY <1>1, <1>4, <2>2 DEF JobInv, RaisedStops
  <2>4. QED
    BY <1>2, <1>3, <2>1, <2>3 DEF JobInv
<1>5. ASSUME NEW t \in Threads, Others(t), Aside(t) PROVE JobInv'
  <2>1. JobFrames'
    BY <1>5, JobFramesStep DEF JobInv
  <2>2. RaisedStops'
    BY <1>1, <1>5, RaisedKept
  <2>3. QED
    BY <1>2, <1>3, <2>1, <2>2 DEF JobInv
<1>6. QED
  BY <1>4, <1>5

\* A successor has no thread at work, and its records are those of the document.
LEMMA RestartJob ==
  ASSUME BookInv, JobInv, Restart
  PROVE  JobInv'
<1>1. /\ UNCHANGED <<user_data, node, submits>> /\ worker_init' = NoJob /\ NoJob \notin Jobs
      /\ \A t \in Threads : frame'[t] = Idle
  BY FleetAssumption DEF Restart, ec2Vars
<1>2. Remembered /\ [Next]_vars
  BY HappenRemembers DEF Restart, Next
<1>3. \A f \in Fleets : resources'[f].job = resources[f].job /\ (Tracked(f)' => Tracked(f))
  BY TypesOf DEF Restart, FleetSound, Tracked
<1>4. JobFrames'
  BY <1>1 DEF JobFrames, Idle, Launching
<1>5. Used'
  BY <1>1 DEF JobInv, Used
<1>6. Scripts'
  BY <1>1, <1>2, <1>3 DEF JobInv, Scripts, Remembered, Idle, Launching
<1>7. RaisedStops'
  BY <1>1, <1>2 DEF JobInv, RaisedStops, Remembered, Idle, LiveNodes
<1>8. QED
  BY <1>4, <1>5, <1>6, <1>7 DEF JobInv

\* No step breaks the relation of jobs, scripts and fleets.
LEMMA JobStep ==
  ASSUME BookInv, JobInv, [Next]_vars
  PROVE  JobInv'
<1>1. ASSUME NEW t \in Threads, NEW j \in Jobs, Submit(t, j) PROVE JobInv'
  BY <1>1, SubmitJob
<1>2. ASSUME NEW t \in Threads, SubmitStep(t) PROVE JobInv'
  BY <1>2, CreateTemplateJob, LaunchJob, TrackJob DEF SubmitStep
<1>3. ASSUME NEW t \in Threads, Create(t) PROVE JobInv'
  BY <1>3, LaunchJob
<1>4. ASSUME NEW t \in Threads, Track(t) PROVE JobInv'
  BY <1>4, TrackJob
<1>5. CASE Restart
  BY <1>5, RestartJob
<1>6. CASE /\ ~Restart
           /\ \A t \in Threads : /\ ~SubmitStep(t) /\ ~Create(t) /\ ~Track(t)
                                 /\ \A j \in Jobs : ~Submit(t, j)
  <2>1. frame' = frame \/ \E t \in Threads : Others(t) /\ Aside(t)
    <3>1. ASSUME NEW t \in Threads, Call(t) PROVE Others(t) /\ Aside(t)
      BY <1>6, <3>1, PollFrame, ReleaseFrame DEF Call
    <3>2. ASSUME NEW t \in Threads, Continue(t) PROVE Others(t) /\ Aside(t)
      BY <1>6, <3>2, PollFrame, ReleaseFrame DEF Continue
    <3>3. ASSUME MonitorStep \/ EnvironmentStep \/ UNCHANGED vars PROVE frame' = frame
      BY <3>3 DEF MonitorStep, MonitorUnchanged, MarkInterrupted, HandlerRaises, EnvironmentStep, Warn,
         NodeStep, FleetGone, vars, callVars
    <3>4. QED
      BY <1>6, <3>1, <3>2, <3>3 DEF Next
  <2>2. UNCHANGED <<submits, user_data, worker_init>>
    <3>1. ASSUME NEW t \in Threads, Call(t) PROVE UNCHANGED <<submits, user_data, worker_init>>
      BY <1>6, <3>1 DEF Call, StatusBegin, Cancel, Shutdown, TerminateBlocks, ShutdownUnchanged,
         managerVars, ec2Vars
    <3>2. ASSUME NEW t \in Threads, Continue(t) PROVE UNCHANGED <<submits, user_data, worker_init>>
      BY <1>6, <3>2 DEF Continue, StatusStep, DescribeBlock, WriteStatus, Cleanup, Sweep, LastSweep,
         TerminateBlocks, CleanupAllResources, ShutdownUnchanged, managerVars, ec2Vars
    <3>3. ASSUME MonitorStep \/ UNCHANGED vars PROVE UNCHANGED <<submits, user_data, worker_init>>
      BY <3>3 DEF MonitorStep, MonitorUnchanged, MarkInterrupted, HandlerRaises, vars, callVars,
         managerVars, ec2Vars
    <3>4. ASSUME EnvironmentStep PROVE UNCHANGED <<submits, user_data, worker_init>>
      BY <3>4 DEF EnvironmentStep, Warn, NodeStep, FleetGone, Boot, Finish, Forget, ForgetFleet,
         callVars, managerVars, ec2Vars
    <3>5. QED
      BY <1>6, <3>1, <3>2, <3>3, <3>4 DEF Next
  <2>3. QED
    BY <1>6, <2>1, <2>2, AsideJob
<1>7. QED
  BY <1>1, <1>2, <1>3, <1>4, <1>5, <1>6

\* So it holds throughout.
LEMMA JobInvariant == Spec => []JobInv
<1>1. Init => JobInv
  <2> SUFFICES ASSUME Init PROVE JobInv
    OBVIOUS
  <2>1. /\ \A t \in Threads : frame[t] = Idle
        /\ \A f \in Fleets : user_data[f] = NoJob /\ ~Tracked(f) /\ LiveNodes(f) = {}
        /\ worker_init = NoJob /\ NoJob \notin Jobs
    BY FleetAssumption DEF Init, ManagerInit, Tracked, NoRecord, LiveNodes, NoNodes, Up
  <2>2. QED
    BY <2>1 DEF JobInv, JobFrames, Used, Scripts, RaisedStops, Idle, Launching
<1>2. BookInv /\ JobInv /\ [Next]_vars => JobInv'
  BY JobStep
<1>3. QED
  BY <1>1, <1>2, BooksInvariant, PTL DEF Spec

\* Every block runs the command of the job that Parsl was given it for, unless two
\* submits overlap.
THEOREM ScriptReachesItsFleet == Spec => []FleetRunsItsJob
<1>1. JobInv => FleetRunsItsJob
  BY DEF JobInv, Scripts, FleetRunsItsJob, TrackedFleets
<1>2. QED
  BY <1>1, JobInvariant, PTL

\* A job whose submit_job() raised is not running anywhere, unless the deletion of its
\* fleet was refused, the reply to create_fleet() was lost, or two submits overlapped.
THEOREM RaisedJobStops == Spec => []FailedSubmitRunsNothing
<1>1. JobInv => FailedSubmitRunsNothing
  BY DEF JobInv, RaisedStops, FailedSubmitRunsNothing
<1>2. QED
  BY <1>1, JobInvariant, PTL

-----------------------------------------------------------------------------
(* What a shutdown leaves.                                                 *)

Sweeping(t) == frame[t].pc \in {"sweep", "last_sweep"}

\* A fleet the program cannot know of: its creation was not answered, or the process
\* that was creating it died.
Unknowable(f) == reported[f] = "none" /\ {"lost", "crash"} \cap happened # {}

\* A shutdown that started while no submit was under way, and that none followed, has
\* none beside it.
NoneLate ==
  "late_submit" \notin happened /\ (~initialized \/ \E t \in Threads : Sweeping(t)) =>
    \A t \in Threads : frame[t].job = NoJob

\* The manager knows every fleet that was created, in the document as well once the
\* provider was told of it.
Requested ==
  /\ \A f \in Fleets : reported[f] # "none" => f \in fleet_requests /\ f \in mode_store.fleet_requests
  /\ \A t \in Threads : frame[t].pc \in Launching \ {"fleet"} => frame[t].fleet \subseteq fleet_requests
  /\ \A f \in Fleets : LiveNodes(f) # {} => f \in fleet_requests \/ Unknowable(f)

\* And every template.
TemplatesKnown ==
  templates \subseteq launch_templates \/ {"crash", "keep_template"} \cap happened # {}

\* A fleet with instances was reported, or its submit is still going on.
Held ==
  "delete" \notin happened =>
    \A f \in Fleets : LiveNodes(f) # {} =>
      reported[f] # "none" \/ Unknowable(f) \/ \E t \in Threads : Own(t, f)

Clean == \A f \in Fleets : LiveNodes(f) = {} \/ Unknowable(f)

\* Before the second sweep, nothing is left unless a deletion was refused.
Swept ==
  {"delete", "late_submit"} \cap happened = {} /\ (\E t \in Threads : frame[t].pc = "last_sweep") => Clean

Counted == events \in Nat /\ ("delete" \in happened => events >= 1)

\* At most one deletion was refused.
RefusedOnce == "delete" \notin happened \/ events <= 1

Done == RefusedOnce => ShutdownLeavesNothing

ShutInv == NoneLate /\ Requested /\ TemplatesKnown /\ Held /\ Swept /\ Counted /\ Done

\* A refused deletion is counted.
LEMMA HappenCounts ==
  ASSUME EventsOK, NEW K, Happen(K)
  PROVE  events' \in Nat /\ events' >= events /\ ("delete" \in K => events' >= events + 1)
<1>1. IsFiniteSet(K \ ScheduleKinds)
  <2>1. K \ ScheduleKinds \subseteq EventKinds
    BY FleetAssumption DEF Happen
  <2>2. IsFiniteSet(EventKinds)
    BY FiniteEvents
  <2>3. QED
    BY <2>1, <2>2, FS_Subset
<1>2. Cardinality(K \ ScheduleKinds) \in Nat
      /\ (Cardinality(K \ ScheduleKinds) = 0 <=> K \ ScheduleKinds = {})
  BY <1>1, FS_CardinalityType, FS_EmptySet
<1>3. "delete" \notin ScheduleKinds
  BY DEF ScheduleKinds
<1>4. QED
  BY <1>2, <1>3 DEF Happen, EventsOK

\* The count of events only grows, and with it what a second refusal would need.
LEMMA CountedStep ==
  ASSUME BookInv, Counted, [Next]_vars
  PROVE  Counted' /\ events' >= events /\ (RefusedOnce' => RefusedOnce)
<1>1. CASE UNCHANGED vars
  BY <1>1 DEF vars, eventVars, Counted, RefusedOnce
<1>2. ASSUME NEW K, Happen(K) PROVE Counted' /\ events' >= events /\ (RefusedOnce' => RefusedOnce)
  <2>1. events' \in Nat /\ events' >= events /\ ("delete" \in K => events' >= events + 1)
    BY <1>2, TypesOf, HappenCounts
  <2>2. "delete" \in happened' <=> "delete" \in happened \/ "delete" \in K
    BY <1>2 DEF Happen
  <2>3. QED
    BY <2>1, <2>2 DEF Counted, RefusedOnce
<1>3. QED
  BY <1>1, <1>2, StepHappens

\* What books a step may change: the mode's document is saved or left alone; the
\* requests grow; templates are made in CreateTemplate only, and every template that
\* goes out of the manager's sight is deleted; blocks are reported in Track first.
LEMMA DocumentStep ==
  ASSUME [Next]_vars
  PROVE  Save \/ mode_store' = mode_store
<1>1. ASSUME NEW t \in Threads, Call(t) PROVE Save \/ mode_store' = mode_store
  <2>1. CASE Shutdown(t)
    BY <2>1 DEF Shutdown
  <2>2. CASE StatusBegin(t)
    BY <2>2 DEF StatusBegin
  <2>3. QED
    BY <1>1, <2>1, <2>2 DEF Call, Submit, Cancel, SubmitUnchanged, modeVars
<1>2. ASSUME NEW t \in Threads, Continue(t) PROVE Save \/ mode_store' = mode_store
  <2>1. CASE WriteStatus(t)
    BY <2>1 DEF WriteStatus
  <2>2. CASE SubmitStep(t)
    BY <2>2 DEF SubmitStep, CreateTemplate, Create, WaitRunning, Discard, Register, Track,
       SubmitUnchanged, modeVars
  <2>3. QED
    BY <1>2, <2>1, <2>2 DEF Continue, StatusStep, DescribeBlock, Cleanup, Sweep, LastSweep, modeVars
<1>3. CASE MonitorStep \/ EnvironmentStep \/ Restart \/ UNCHANGED vars
  BY <1>3 DEF MonitorStep, MonitorUnchanged, MarkInterrupted, HandlerRaises, EnvironmentStep, Warn,
     NodeStep, FleetGone, Restart, vars, modeVars
<1>4. QED
  BY <1>1, <1>2, <1>3 DEF Next

\* The manager's list of requests only grows while the process lives.
LEMMA RequestsStep ==
  ASSUME [Next]_vars, ~Restart
  PROVE  fleet_requests \subseteq fleet_requests'
<1>1. ASSUME NEW t \in Threads, Call(t) PROVE fleet_requests' = fleet_requests
  <2>1. CASE Shutdown(t)
    BY <2>1 DEF Shutdown, TerminateBlocks, managerVars
  <2>2. QED
    BY <1>1, <2>1 DEF Call, Submit, Cancel, StatusBegin, TerminateBlocks, managerVars
<1>2. ASSUME NEW t \in Threads, Continue(t) PROVE fleet_requests \subseteq fleet_requests'
  <2>1. CASE SubmitStep(t)
    BY <2>1 DEF SubmitStep, CreateTemplate, Create, WaitRunning, Discard, Register, Track,
       BuildLaunchTemplateConfig, CreateFleet, CreateFleetRefused, CreateFleetLost, managerVars
  <2>2. QED
    BY <1>2, <2>1 DEF Continue, StatusStep, DescribeBlock, WriteStatus, Cleanup, Sweep, LastSweep,
       TerminateBlocks, CleanupAllResources, managerVars
<1>3. CASE MonitorStep \/ EnvironmentStep \/ UNCHANGED vars
  BY <1>3 DEF MonitorStep, MonitorUnchanged, MarkInterrupted, HandlerRaises, EnvironmentStep, Warn,
     NodeStep, FleetGone, vars, managerVars
<1>4. QED
  BY <1>1, <1>2, <1>3 DEF Next

\* A deletion of templates leaves those it was asked to, and what it could not delete.
LEMMA TemplatesDeleted ==
  ASSUME NEW F, NEW kept, DeleteLaunchTemplates(F, kept)
  PROVE  /\ templates' \subseteq templates
         /\ kept = {} /\ templates \subseteq launch_templates => templates' \subseteq launch_templates'
         /\ kept = {} /\ templates \subseteq launch_templates /\ launch_templates \subseteq F => templates' = {}
BY DEF DeleteLaunchTemplates

\* What a deletion refuses is noted.
LEMMA DeletionNotes ==
  ASSUME NEW refused, NEW kept, NEW others, DeletionAnd(refused, kept, others)
  PROVE  /\ refused # {} => "delete" \in happened'
         /\ kept # {} => "keep_template" \in happened'
BY HappenKeeps DEF DeletionAnd, IfSo

\* Every template is in the list of templates, until one of them was kept or the process died.
LEMMA TemplatesStep ==
  ASSUME [Next]_vars, TemplatesKnown
  PROVE  /\ TemplatesKnown'
         /\ templates' \subseteq templates \/ \E t \in Threads : CreateTemplate(t)
<1> DEFINE Goal == TemplatesKnown' /\ (templates' \subseteq templates \/ \E t \in Threads : CreateTemplate(t))
<1>1. Remembered
  BY StepRemembers
<1>2. ASSUME UNCHANGED <<templates, launch_templates>> PROVE Goal
  BY <1>1, <1>2 DEF TemplatesKnown, Remembered
<1>3. ASSUME NEW F, NEW kept, DeleteLaunchTemplates(F, kept),
             kept # {} => "keep_template" \in happened'
      PROVE  Goal
  BY <1>1, <1>3, TemplatesDeleted DEF TemplatesKnown, Remembered
<1>4. ASSUME NEW F, NEW refused, NEW kept, NEW others, TerminateBlocks(F, refused, kept),
             DeletionAnd(refused, kept, others)
      PROVE  Goal
  BY <1>3, <1>4, DeletionNotes DEF TerminateBlocks
<1>5. ASSUME NEW refused, NEW kept, CleanupAllResources(refused, kept), Deletion(refused, kept)
      PROVE  Goal
  BY <1>3, <1>5, DeletionNotes DEF CleanupAllResources, Deletion
<1>6. ASSUME NEW t \in Threads, Call(t) PROVE Goal
  <2>1. CASE Shutdown(t)
    <3>1. UNCHANGED <<templates, launch_templates>>
          \/ \E F, refused, kept, others :
               TerminateBlocks(F, refused, kept) /\ DeletionAnd(refused, kept, others)
      BY <2>1 DEF Shutdown, managerVars, ec2Vars
    <3>2. QED
      BY <1>2, <1>4, <3>1
  <2>2. CASE \E f \in Fleets : Cancel(t, f)
    BY <1>4, <2>2 DEF Cancel, Deletion
  <2>3. CASE StatusBegin(t) \/ \E j \in Jobs : Submit(t, j)
    <3>1. UNCHANGED <<templates, launch_templates>>
      BY <2>3 DEF StatusBegin, Submit, managerVars, ec2Vars
    <3>2. QED
      BY <1>2, <3>1
  <2>4. QED
    BY <1>6, <2>1, <2>2, <2>3 DEF Call
<1>7. ASSUME NEW t \in Threads, Continue(t) PROVE Goal
  <2>1. CASE Cleanup(t)
    BY <1>4, <2>1 DEF Cleanup, Deletion
  <2>2. CASE Sweep(t) \/ LastSweep(t)
    BY <1>5, <2>2 DEF Sweep, LastSweep
  <2>3. CASE Discard(t)
    <3>1. PICK F, refused, kept : DeleteLaunchTemplates(F, kept) /\ DeletionAnd(refused, kept, {})
      BY <2>3 DEF Discard, Deletion
    <3>2. QED
      BY <1>3, <3>1, DeletionNotes
  <2>4. CASE CreateTemplate(t)
    <3>1. CASE UNCHANGED <<templates, launch_templates>>
      BY <1>2, <3>1
    <3>2. CASE \E f \in Fleets : templates' = templates \cup {f} /\ launch_templates' = launch_templates \cup {f}
      BY <1>1, <2>4, <3>2 DEF TemplatesKnown, Remembered
    <3>3. QED
      BY <2>4, <3>1, <3>2 DEF CreateTemplate, BuildLaunchTemplateConfig, managerVars, ec2Vars
  <2>5. CASE Create(t)
    <3>1. CASE UNCHANGED <<templates, launch_templates>>
      BY <1>2, <3>1
    <3>2. ASSUME NEW f, NEW kept, CreateFleetRefused(f, kept),
                 Happen({"refused"} \cup IfSo(kept # {}, "keep_template"))
          PROVE  Goal
      BY <1>3, <3>2, HappenKeeps DEF CreateFleetRefused, IfSo
    <3>3. QED
      BY <2>5, <3>1, <3>2 DEF Create, CreateFleet, CreateFleetLost
  <2>6. CASE WaitRunning(t) \/ Register(t) \/ Track(t) \/ StatusStep(t)
    <3>1. UNCHANGED <<templates, launch_templates>>
      BY <2>6 DEF WaitRunning, Register, Track, StatusStep, DescribeBlock, WriteStatus, managerVars, ec2Vars
    <3>2. QED
      BY <1>2, <3>1
  <2>7. QED
    BY <1>7, <2>1, <2>2, <2>3, <2>4, <2>5, <2>6 DEF Continue, SubmitStep
<1>8. CASE Restart
  <2>1. "crash" \in happened' /\ templates' = templates
    BY <1>8, HappenKeeps DEF Restart, ec2Vars
  <2>2. QED
    BY <2>1 DEF TemplatesKnown
<1>9. CASE MonitorStep \/ EnvironmentStep \/ UNCHANGED vars
  <2>1. UNCHANGED <<templates, launch_templates>>
    BY <1>9 DEF MonitorStep, MonitorUnchanged, MarkInterrupted, HandlerRaises, EnvironmentStep, Warn,
       NodeStep, Boot, Finish, Forget, FleetGone, ForgetFleet, vars, managerVars, ec2Vars
  <2>2. QED
    BY <1>2, <2>1
<1>10. QED
  BY <1>6, <1>7, <1>8, <1>9 DEF Next

\* A block is reported first when its submit ends, and the document is saved then.
LEMMA ReportedFirst ==
  ASSUME BookInv, [Next]_vars, NEW f \in Fleets, reported[f] = "none", reported'[f] # "none"
  PROVE  \E t \in Threads : Track(t) /\ f \in frame[t].fleet
<1>1. ASSUME NEW t \in Threads, Track(t) PROVE f \in frame[t].fleet
  BY <1>1, TypesOf DEF Track, CallsOK
<1>2. ASSUME NEW t \in Threads,
             StatusBegin(t) \/ WriteStatus(t) \/ (\E g \in Fleets : Cancel(t, g)) \/ Cleanup(t) \/ Shutdown(t)
      PROVE  reported'[f] = reported[f]
  <2>1. f \notin Recorded
    BY DEF Recorded
  <2>2. CASE StatusBegin(t)
    BY <2>1, <2>2 DEF StatusBegin, Answered, Unsettled
  <2>3. CASE WriteStatus(t)
    BY <2>1, <2>3 DEF WriteStatus
  <2>4. ASSUME NEW g \in Fleets, Cancel(t, g) PROVE reported'[f] = reported[f]
    BY <2>1, <2>4, TypesOf DEF Cancel, CallsOK
  <2>5. CASE Cleanup(t)
    BY <2>1, <2>5 DEF Cleanup
  <2>6. CASE Shutdown(t)
    BY <2>6 DEF Shutdown, ShutdownUnchanged
  <2>7. QED
    BY <1>2, <2>2, <2>3, <2>4, <2>5, <2>6
<1>3. (MarkInterrupted \/ Restart) => reported' = reported
  BY DEF MarkInterrupted, Restart, callVars
<1>4. QED
  BY <1>1, <1>2, <1>3, RecordsStep

\* Only LastSweep ends the mode's initialized life, and nothing begins it anew.
LEMMA InitializedStep ==
  ASSUME [Next]_vars
  PROVE  initialized' = initialized \/ (~initialized' /\ \E t \in Threads : LastSweep(t))
<1>1. ASSUME NEW t \in Threads, Call(t) PROVE initialized' = initialized
  <2>1. CASE Shutdown(t)
    BY <2>1 DEF Shutdown
  <2>2. QED
    BY <1>1, <2>1 DEF Call, Submit, StatusBegin, Cancel, SubmitUnchanged, modeVars
<1>2. ASSUME NEW t \in Threads, Continue(t), ~LastSweep(t) PROVE initialized' = initialized
  <2>1. CASE SubmitStep(t)
    BY <2>1 DEF SubmitStep, CreateTemplate, Create, WaitRunning, Discard, Register, Track,
       SubmitUnchanged, modeVars
  <2>2. QED
    BY <1>2, <2>1 DEF Continue, StatusStep, DescribeBlock, WriteStatus, Cleanup, Sweep, modeVars
<1>3. \A t \in Threads : LastSweep(t) => ~initialized'
  BY DEF LastSweep
<1>4. CASE MonitorStep \/ EnvironmentStep \/ Restart \/ UNCHANGED vars
  BY <1>4 DEF MonitorStep, MonitorUnchanged, MarkInterrupted, HandlerRaises, EnvironmentStep, Warn,
     NodeStep, FleetGone, Restart, vars, modeVars
<1>5. QED
  BY <1>1, <1>2, <1>3, <1>4 DEF Next

\* A sweep begins with a shutdown, and a second sweep with the first or, if the mode
\* tracks nothing, at once.
LEMMA SweepingStep ==
  ASSUME BookInv, [Next]_vars, NEW t \in Threads, Sweeping(t)'
  PROVE  \/ Sweeping(t) /\ (frame'[t].pc = "last_sweep" => frame[t].pc = "last_sweep" \/ Sweep(t))
         \/ Shutdown(t) /\ (frame'[t].pc = "last_sweep" => TrackedFleets = {})
<1>1. CASE frame'[t] = frame[t]
  BY <1>1 DEF Sweeping
<1>2. ASSUME Call(t), ~Shutdown(t) PROVE FALSE
  <2>1. ASSUME StatusBegin(t) PROVE FALSE
    <3>1. MustAsk(Unsettled) \in SUBSET Fleets
      BY DEF MustAsk, Unsettled, Recorded
    <3>2. Goto(t, Idle) \/ Goto(t, [At("describe") EXCEPT !.todo = MustAsk(Unsettled)])
      BY <2>1 DEF StatusBegin
    <3>3. frame'[t].pc \in {"idle", "describe"}
      BY <3>1, <3>2, GoneTo, GoneToDescribe
    <3>4. QED
      BY <3>3 DEF Sweeping
  <2>2. ASSUME NEW f \in Fleets, Cancel(t, f) PROVE FALSE
    BY <2>2, GoneTo DEF Cancel, Sweeping, Labels
  <2>3. ASSUME NEW j \in Jobs, Submit(t, j) PROVE FALSE
    BY <2>3, SubmitFrame DEF TakesUp, Sweeping
  <2>4. QED
    BY <1>2, <2>1, <2>2, <2>3 DEF Call
<1>3. CASE Shutdown(t)
  <2>1. (Goto(t, At("last_sweep")) /\ TrackedFleets = {}) \/ Goto(t, At("sweep"))
    BY <1>3 DEF Shutdown
  <2>2. QED
    BY <1>3, <2>1, GoneTo DEF Labels
<1>4. ASSUME Continue(t), ~Sweep(t) PROVE FALSE
  <2>1. ASSUME SubmitStep(t) PROVE FALSE
    BY <2>1, CreateTemplateFrame, LaunchFrame DEF SubmitStep, GoesOn, Ends, Launching, Sweeping
  <2>2. ASSUME StatusStep(t) PROVE FALSE
    <3>1. CASE DescribeBlock(t)
      <4>1. PICK f \in Fleets, a \in Status : Goto(t, [frame[t] EXCEPT !.pc = "write", !.fleet = {f}, !.answer = a])
        BY <3>1, AnswersType, TypesOf DEF DescribeBlock
      <4>2. "write" \in Labels /\ {f} \in SUBSET Fleets
        BY DEF Labels
      <4>3. frame'[t].pc = "write"
        BY <4>1, <4>2, GoneOnAnswering
      <4>4. QED
        BY <4>3 DEF Sweeping
    <3>2. CASE WriteStatus(t)
      <4>1. PICK F \in SUBSET Fleets : F = frame[t].todo \ frame[t].fleet
        BY TypesOf
      <4>2. Goto(t, Idle) \/ Goto(t, [At("describe") EXCEPT !.todo = F])
        BY <3>2, <4>1 DEF WriteStatus
      <4>3. frame'[t].pc \in {"idle", "describe"}
        BY <4>2, GoneTo, GoneToDescribe
      <4>4. QED
        BY <4>3 DEF Sweeping
    <3>3. QED
      BY <2>2, <3>1, <3>2 DEF StatusStep
  <2>3. ASSUME Cleanup(t) \/ LastSweep(t) PROVE FALSE
    BY <2>3, GoneTo DEF Cleanup, LastSweep, Sweeping
  <2>4. QED
    BY <1>4, <2>1, <2>2, <2>3 DEF Continue
<1>5. CASE Sweep(t)
  BY <1>5 DEF Sweep, Sweeping
<1>6. ASSUME NEW u \in Threads, u # t, Call(u) \/ Continue(u) PROVE frame'[t] = frame[t]
  <2>1. Others(u)
    BY <1>6, SubmitFrame, CreateTemplateFrame, LaunchFrame, PollFrame, ReleaseFrame
       DEF Call, Continue, SubmitStep
  <2>2. QED
    BY <1>6, <2>1 DEF Others
<1>7. CASE MonitorStep \/ EnvironmentStep \/ UNCHANGED vars
  <2>1. frame' = frame
    BY <1>7 DEF MonitorStep, MonitorUnchanged, MarkInterrupted, HandlerRaises, EnvironmentStep, Warn,
       NodeStep, FleetGone, vars, callVars
  <2>2. QED
    BY <1>1, <2>1
<1>8. ASSUME Restart PROVE FALSE
  BY <1>8 DEF Restart, Idle, Sweeping
<1>9. QED
  BY <1>1, <1>2, <1>3, <1>4, <1>5, <1>6, <1>7, <1>8 DEF Next

\* While no submit is under way none gets instances, and no block is reported first.
LEMMA NoSubmit ==
  ASSUME BookInv, JobInv, TemplatesKnown, [Next]_vars, \A t \in Threads : frame[t].job = NoJob
  PROVE  /\ templates' \subseteq templates
         /\ \A f \in Fleets : /\ LiveNodes(f)' \subseteq LiveNodes(f)
                              /\ Unknowable(f) => Unknowable(f)'
         /\ \A t \in Threads, f \in Fleets : ~Own(t, f)
<1>1. \A t \in Threads : frame[t].pc \notin Launching \cup {"template"}
  BY FleetAssumption DEF JobInv, JobFrames
<1>2. \A t \in Threads : ~CreateTemplate(t) /\ ~Create(t) /\ ~Track(t)
  BY <1>1 DEF CreateTemplate, Create, Track, Launching
<1>3. templates' \subseteq templates
  BY <1>2, TemplatesStep
<1>4. \A f \in Fleets : LiveNodes(f)' \subseteq LiveNodes(f)
  BY <1>2, LiveStep
<1>5. \A f \in Fleets : Unknowable(f) => Unknowable(f)'
  BY <1>2, ReportedFirst, StepRemembers DEF Unknowable, Remembered
<1>6. QED
  BY <1>1, <1>3, <1>4, <1>5 DEF Own

\* The job of a thread is taken up in Submit.
LEMMA JobsStep ==
  ASSUME BookInv, [Next]_vars, NEW t \in Threads, frame[t].job = NoJob, frame'[t].job # NoJob
  PROVE  \E j \in Jobs : Submit(t, j)
<1>1. frame'[t] # frame[t] /\ ~Restart
  BY DEF Restart, Idle
<1>2. PICK u \in Threads : Call(u) \/ Continue(u)
  <2>1. MonitorStep \/ EnvironmentStep \/ UNCHANGED vars => frame' = frame
    BY DEF MonitorStep, MonitorUnchanged, MarkInterrupted, HandlerRaises, EnvironmentStep, Warn,
       NodeStep, FleetGone, vars, callVars
  <2>2. QED
    BY <1>1, <2>1 DEF Next
<1>3. \/ \E j \in Jobs : Submit(u, j)
      \/ Others(u) /\ (GoesOn(u) \/ Ends(u) \/ Aside(u))
  BY <1>2, CreateTemplateFrame, LaunchFrame, PollFrame, ReleaseFrame DEF Call, Continue, SubmitStep
<1>4. CASE \E j \in Jobs : Submit(u, j)
  <2>1. Others(u)
    BY <1>4, SubmitFrame
  <2>2. u = t
    BY <1>1, <2>1 DEF Others
  <2>3. QED
    BY <1>4, <2>2
<1>5. CASE Others(u) /\ (GoesOn(u) \/ Ends(u) \/ Aside(u))
  BY <1>1, <1>5 DEF Others, GoesOn, Ends, Aside
<1>6. QED
  BY <1>3, <1>4, <1>5

\* A submit that starts beside a shutdown, or a shutdown beside a submit, is noted.
LEMMA NoneLateStep ==
  ASSUME BookInv, JobInv, NoneLate, [Next]_vars
  PROVE  NoneLate'
<1> SUFFICES ASSUME "late_submit" \notin happened', ~initialized' \/ \E t \in Threads : Sweeping(t)',
                    NEW u \in Threads
             PROVE  frame'[u].job = NoJob
  BY DEF NoneLate, Sweeping
<1>1. "late_submit" \notin happened
  BY StepRemembers DEF Remembered
<1>2. \A j \in Jobs : \A t \in Threads : Submit(t, j) => initialized /\ \A v \in Threads : ~Sweeping(v)
  BY HappenKeeps DEF Submit, IfSo, Sweeping
<1>3. CASE ~initialized \/ \E t \in Threads : Sweeping(t)
  BY <1>1, <1>2, <1>3, JobsStep DEF NoneLate
<1>4. CASE initialized /\ \A t \in Threads : ~Sweeping(t)
  <2>1. PICK t \in Threads : Shutdown(t)
    <3>1. \A t \in Threads : ~LastSweep(t)
      BY <1>4 DEF LastSweep, Sweeping
    <3>2. PICK t \in Threads : Sweeping(t)'
      BY <1>4, <3>1, InitializedStep
    <3>3. QED
      BY <1>4, <3>2, SweepingStep
  <2>2. \A v \in Threads : frame[v].job = NoJob
    <3>1. PICK late : /\ late = IfSo(\E v \in Threads : frame[v].job # NoJob, "late_submit")
                      /\ Happen(late) \/ \E refused, kept : DeletionAnd(refused, kept, late)
      BY <2>1 DEF Shutdown
    <3>2. late \subseteq happened'
      <4>1. ASSUME NEW refused, NEW kept, DeletionAnd(refused, kept, late)
            PROVE  late \subseteq happened'
        BY <4>1, HappenKeeps DEF DeletionAnd
      <4>2. Happen(late) => late \subseteq happened'
        BY HappenKeeps
      <4>3. QED
        BY <3>1, <4>1, <4>2
    <3>3. QED
      BY <3>1, <3>2 DEF IfSo
  <2>3. Others(t) /\ Aside(t)
    BY <2>1, ReleaseFrame
  <2>4. QED
    BY <2>2, <2>3 DEF Others, Aside
<1>5. QED
  BY <1>3, <1>4

\* No fleet with instances leaves the list of requests, nor comes up without being put there.
LEMMA RequestedStep ==
  ASSUME BookInv, Requested, [Next]_vars
  PROVE  Requested'
<1>1. CASE Restart
  <2>1. /\ UNCHANGED <<reported, mode_store, node>> /\ fleet_requests' = mode_store.fleet_requests
        /\ "crash" \in happened' /\ \A t \in Threads : frame'[t] = Idle
    BY <1>1, HappenKeeps DEF Restart, ec2Vars
  <2>2. QED
    BY <2>1 DEF Requested, Idle, Launching, Unknowable, LiveNodes
<1>2. CASE ~Restart
  <2>1. fleet_requests \subseteq fleet_requests'
    BY <1>2, RequestsStep
  <2>2. fleet_requests \subseteq mode_store'.fleet_requests \/ mode_store' = mode_store
    BY <2>1, DocumentStep DEF Save
  <2>3. ASSUME NEW t \in Threads, Track(t)
        PROVE  fleet_requests \subseteq mode_store'.fleet_requests /\ frame[t].fleet \subseteq fleet_requests
    BY <2>1, <2>3 DEF Track, Save, Requested, Launching
  <2>4. ASSUME NEW f \in Fleets, reported'[f] # "none"
        PROVE  f \in fleet_requests' /\ f \in mode_store'.fleet_requests
    <3>1. CASE reported[f] # "none"
      BY <2>1, <2>2, <3>1 DEF Requested
    <3>2. CASE reported[f] = "none"
      BY <2>1, <2>3, <2>4, <3>2, ReportedFirst
    <3>3. QED
      BY <3>1, <3>2
  <2>5. ASSUME NEW t \in Threads, Create(t)
        PROVE  \/ Goto(t, Idle) /\ (node' = node \/ "lost" \in happened')
               \/ frame[t].fleet \subseteq fleet_requests'
    <3>1. PICK f \in Fleets : frame[t].fleet = {f}
      BY <2>5, LaunchFleet DEF Create, Launching
    <3>2. QED
      BY <2>5, <3>1, HappenKeeps DEF Create, Raise, CreateFleet, CreateFleetRefused, CreateFleetLost
  <2>6. ASSUME NEW t \in Threads, frame'[t].pc \in Launching \ {"fleet"}
        PROVE  frame'[t].fleet \subseteq fleet_requests'
    <3>1. CASE frame'[t] = frame[t]
      BY <2>1, <2>6, <3>1 DEF Requested
    <3>2. CASE frame'[t] # frame[t]
      <4>1. PICK u \in Threads : Others(u) /\ (TakesUp(u) \/ GoesOn(u) \/ Ends(u) \/ Aside(u))
        BY <1>2, <3>2, FrameStep
      <4>2. GoesOn(t)
        BY <2>6, <3>2, <4>1 DEF Others, TakesUp, Ends, Aside, Launching
      <4>3. CASE frame[t].pc \in Launching \ {"fleet"}
        BY <2>1, <4>2, <4>3 DEF GoesOn, Requested, Launching
      <4>4. CASE frame[t].pc \in {"fleet", "template"}
        <5>1. CreateTemplate(t) \/ Create(t)
          <6>1. PICK v \in Threads : Call(v) \/ Continue(v)
            <7>1. MonitorStep \/ EnvironmentStep \/ UNCHANGED vars => frame' = frame
              BY DEF MonitorStep, MonitorUnchanged, MarkInterrupted, HandlerRaises, EnvironmentStep,
                 Warn, NodeStep, FleetGone, vars, callVars
            <7>2. QED
              BY <1>2, <3>2, <7>1 DEF Next
          <6>2. Others(v)
            BY <6>1, SubmitFrame, CreateTemplateFrame, LaunchFrame, PollFrame, ReleaseFrame
               DEF Call, Continue, SubmitStep
          <6>3. v = t
            BY <3>2, <6>2 DEF Others
          <6>4. ~Call(t)
            <7>1. Call(t) => frame[t] = Idle
              BY DEF Call, Submit, StatusBegin, Cancel, Shutdown
            <7>2. QED
              BY <4>4, <7>1 DEF Idle
          <6>5. Continue(t) => CreateTemplate(t) \/ Create(t)
            BY <4>4 DEF Continue, SubmitStep, WaitRunning, Discard, Register, Track, StatusStep,
               DescribeBlock, WriteStatus, Cleanup, Sweep, LastSweep
          <6>6. QED
            BY <6>1, <6>3, <6>4, <6>5
        <5>2. CASE CreateTemplate(t)
          <6>1. ASSUME NEW f \in Fleets, Goto(t, [frame[t] EXCEPT !.pc = "fleet", !.fleet = {f}])
                PROVE  FALSE
            <7>1. "fleet" \in Labels /\ {f} \in SUBSET Fleets
              BY DEF Labels
            <7>2. frame'[t].pc = "fleet"
              BY <6>1, <7>1, GoneOnWith
            <7>3. QED
              BY <2>6, <7>2
          <6>2. QED
            BY <2>6, <5>2, <6>1, GoneTo DEF CreateTemplate, Raise, Launching
        <5>3. CASE Create(t)
          <6>1. frame[t].fleet \subseteq fleet_requests'
            BY <2>5, <2>6, <5>3, GoneTo DEF Launching
          <6>2. frame[t].pc # "template"
            BY <5>3 DEF Create
          <6>3. QED
            BY <4>2, <6>1, <6>2 DEF GoesOn
        <5>4. QED
          BY <5>1, <5>2, <5>3
      <4>5. QED
        BY <4>2, <4>3, <4>4 DEF GoesOn
    <3>3. QED
      BY <3>1, <3>2
  <2>7. ASSUME NEW f \in Fleets, LiveNodes(f)' # {} PROVE f \in fleet_requests' \/ Unknowable(f)'
    <3>1. Remembered
      BY StepRemembers
    <3>2. CASE LiveNodes(f)' \subseteq LiveNodes(f)
      BY <2>1, <2>4, <2>7, <3>1, <3>2 DEF Requested, Unknowable, Remembered
    <3>3. ASSUME NEW t \in Threads, Create(t), frame[t].fleet = {f}, ~(LiveNodes(f)' \subseteq LiveNodes(f))
          PROVE  f \in fleet_requests' \/ Unknowable(f)'
      <4>1. node' # node
        BY <3>3 DEF LiveNodes
      <4>2. "lost" \in happened' \/ f \in fleet_requests'
        BY <2>5, <3>3, <4>1
      <4>3. reported'[f] = "none" \/ f \in fleet_requests'
        BY <2>4
      <4>4. QED
        BY <4>2, <4>3 DEF Unknowable
    <3>4. QED
      BY <3>2, <3>3, LiveStep
  <2>8. QED
    BY <2>4, <2>6, <2>7 DEF Requested
<1>3. QED
  BY <1>1, <1>2

\* A submit does not let go of its fleet but by reporting or deleting it.
LEMMA HeldStep ==
  ASSUME BookInv, Held, [Next]_vars
  PROVE  Held'
<1> SUFFICES ASSUME "delete" \notin happened', NEW f \in Fleets, LiveNodes(f)' # {},
                    reported'[f] = "none", ~Unknowable(f)'
             PROVE  \E t \in Threads : Own(t, f)'
  BY DEF Held
<1>1. Remembered /\ "delete" \notin happened
  BY StepRemembers DEF Remembered
<1>2. ~Restart /\ "lost" \notin happened'
  BY HappenKeeps DEF Restart, Unknowable
<1>3. reported[f] = "none"
  BY ReportedStep
<1>4. ASSUME NEW t \in Threads, Own(t, f), GoesOn(t) PROVE Own(t, f)'
  BY <1>4 DEF Own, GoesOn, Launching
<1>5. CASE LiveNodes(f)' \subseteq LiveNodes(f)
  <2>1. PICK t \in Threads : Own(t, f)
    BY <1>1, <1>3, <1>5 DEF Held, Unknowable, Remembered
  <2>2. CASE frame'[t] = frame[t]
    BY <2>1, <2>2 DEF Own
  <2>3. CASE frame'[t] # frame[t]
    <3>1. PICK u \in Threads : Call(u) \/ Continue(u)
      <4>1. MonitorStep \/ EnvironmentStep \/ UNCHANGED vars => frame' = frame
        BY DEF MonitorStep, MonitorUnchanged, MarkInterrupted, HandlerRaises, EnvironmentStep, Warn,
           NodeStep, FleetGone, vars, callVars
      <4>2. QED
        BY <1>2, <2>3, <4>1 DEF Next
    <3>2. Others(u)
      BY <3>1, SubmitFrame, CreateTemplateFrame, LaunchFrame, PollFrame, ReleaseFrame
         DEF Call, Continue, SubmitStep
    <3>3. u = t
      BY <2>3, <3>2 DEF Others
    <3>4. Create(t) \/ WaitRunning(t) \/ Discard(t) \/ Register(t) \/ Track(t)
      <4>1. Call(t) => frame[t] = Idle
        BY DEF Call, Submit, StatusBegin, Cancel, Shutdown
      <4>2. ~Call(t)
        BY <2>1, <4>1 DEF Idle, Own, Launching
      <4>3. QED
        BY <2>1, <3>1, <3>3, <4>2 DEF Own, Launching, Continue, SubmitStep, CreateTemplate,
           StatusStep, DescribeBlock, WriteStatus, Cleanup, Sweep, LastSweep
    <3>5. frame[t].fleet = {f} /\ (frame[t].pc = "fleet" <=> fleet[f] = "none")
      BY <2>1, LaunchFleet DEF Own
    <3>6. ~Track(t)
      BY <3>5, TypesOf DEF Track, CallsOK
    <3>7. ~Create(t)
      BY <1>5, <3>5, TypesOf DEF Create, FleetSound
    <3>8. ~Discard(t)
      <4>1. ASSUME NEW refused \in SUBSET frame[t].fleet, NEW kept,
                   DeleteFleets(frame[t].fleet \ refused), Deletion(refused, kept)
            PROVE  FALSE
        <5>1. refused = {}
          BY <4>1, DeletionNotes DEF Deletion
        <5>2. DeleteFleets({f})
          BY <3>5, <4>1, <5>1
        <5>3. QED
          BY <5>2, AgingDelete, TypesOf
      <4>2. QED
        BY <4>1 DEF Discard
    <3>9. GoesOn(t)
      <4>1. PICK l \in Labels : l \in Launching /\ Goto(t, [frame[t] EXCEPT !.pc = l])
        BY <3>4, <3>6, <3>7, <3>8 DEF WaitRunning, Register, Labels, Launching
      <4>2. frame'[t].pc = l
        BY <4>1, GoneOn
      <4>3. QED
        BY <3>4, <4>1, <4>2, LaunchFrame DEF Ends, Launching
    <3>10. QED
      BY <1>4, <2>1, <3>9
  <2>4. QED
    BY <2>2, <2>3
<1>6. ASSUME NEW t \in Threads, Create(t), frame[t].fleet = {f}, ~(LiveNodes(f)' \subseteq LiveNodes(f))
      PROVE  Own(t, f)'
  <2>1. node' # node
    BY <1>6 DEF LiveNodes
  <2>2. \E l \in {"discard", "wait"} : Goto(t, [frame[t] EXCEPT !.pc = l])
    BY <1>2, <1>6, <2>1, HappenKeeps DEF Create, CreateFleetRefused
  <2>3. PICK l \in Labels : l \in Launching /\ Goto(t, [frame[t] EXCEPT !.pc = l])
    BY <2>2 DEF Labels, Launching
  <2>4. QED
    BY <1>6, <2>3, GoneOn DEF Own
<1>7. QED
  BY <1>5, <1>6, LiveStep

\* What is left when the manager's fleets are deleted, unless one was refused.
LEMMA SweepCleans ==
  ASSUME BookInv, JobInv, Requested, TemplatesKnown, [Next]_vars, \A t \in Threads : frame[t].job = NoJob,
         NEW refused, NEW kept, CleanupAllResources(refused, kept), refused = {}
  PROVE  Clean'
<1>1. DeleteFleets(fleet_requests)
  BY DEF CleanupAllResources
<1>2. ASSUME NEW f \in Fleets, LiveNodes(f)' # {} PROVE Unknowable(f)'
  <2>1. f \notin fleet_requests
    BY <1>1, <1>2, AgingDelete, TypesOf
  <2>2. LiveNodes(f) # {}
    BY <1>2, NoSubmit
  <2>3. Unknowable(f)
    BY <2>1, <2>2 DEF Requested
  <2>4. QED
    BY <2>3, NoSubmit
<1>3. QED
  BY <1>2 DEF Clean

\* What is clean stays so while no submit is under way.
LEMMA CleanStays ==
  ASSUME BookInv, JobInv, TemplatesKnown, [Next]_vars, \A t \in Threads : frame[t].job = NoJob, Clean
  PROVE  Clean'
<1>1. \A f \in Fleets : LiveNodes(f)' \subseteq LiveNodes(f) /\ (Unknowable(f) => Unknowable(f)')
  BY NoSubmit
<1>2. QED
  BY <1>1 DEF Clean

\* The first sweep leaves nothing to the second, unless a deletion is refused.
LEMMA SweptStep ==
  ASSUME BookInv, JobInv, ReleaseInv, NoneLate, Requested, TemplatesKnown, Held, Swept, [Next]_vars
  PROVE  Swept'
<1> SUFFICES ASSUME {"delete", "late_submit"} \cap happened' = {},
                    NEW t \in Threads, frame'[t].pc = "last_sweep"
             PROVE  Clean'
  BY DEF Swept
<1>1. {"delete", "late_submit"} \cap happened = {}
  BY StepRemembers DEF Remembered
<1>2. CASE Sweeping(t) /\ frame[t].pc = "last_sweep"
  BY <1>1, <1>2, CleanStays DEF Swept, NoneLate
<1>3. CASE Sweeping(t) /\ Sweep(t)
  <2>1. PICK refused, kept : CleanupAllResources(refused, kept) /\ Deletion(refused, kept)
    BY <1>3 DEF Sweep
  <2>2. refused = {}
    BY <2>1, DeletionNotes DEF Deletion
  <2>3. QED
    BY <1>1, <1>3, <2>1, <2>2, SweepCleans DEF NoneLate
<1>4. CASE Shutdown(t) /\ TrackedFleets = {}
  <2>1. \A u \in Threads : frame[u].job = NoJob
    <3>1. PICK late : late = IfSo(\E v \in Threads : frame[v].job # NoJob, "late_submit") /\ Happen(late)
      BY <1>4 DEF Shutdown
    <3>2. QED
      BY <3>1, HappenKeeps DEF IfSo
  <2>2. \A f \in Fleets : \A u \in Threads : ~Own(u, f)
    BY <2>1, NoSubmit
  <2>3. ASSUME NEW f \in Fleets, LiveNodes(f) # {} PROVE Unknowable(f)
    <3>1. ~Tracked(f)
      BY <1>4 DEF TrackedFleets
    <3>2. reported[f] = "none"
      BY <1>1, <2>3, <3>1 DEF ReleaseInv, Cleared
    <3>3. QED
      BY <1>1, <2>2, <2>3, <3>2 DEF Held
  <2>4. Clean
    BY <2>3 DEF Clean
  <2>5. QED
    BY <2>1, <2>4, CleanStays
<1>5. QED
  BY <1>2, <1>3, <1>4, SweepingStep DEF Sweeping

\* The second sweep leaves nothing, unless two deletions were refused.
LEMMA DoneStep ==
  ASSUME BookInv, JobInv, ShutInv, [Next]_vars
  PROVE  Done'
<1> USE DEF ShutInv
<1> SUFFICES ASSUME RefusedOnce', ~initialized', "late_submit" \notin happened'
             PROVE  Clean' /\ (templates' = {} \/ {"crash", "keep_template"} \cap happened' # {})
  BY DEF Done, ShutdownLeavesNothing, Clean, Unknowable
<1>1. Remembered /\ RefusedOnce /\ "late_submit" \notin happened
  BY StepRemembers, CountedStep DEF Remembered
<1>2. CASE ~initialized
  <2>1. \A t \in Threads : frame[t].job = NoJob
    BY <1>1, <1>2 DEF NoneLate
  <2>2. Clean /\ (templates = {} \/ {"crash", "keep_template"} \cap happened # {})
    BY <1>1, <1>2 DEF Done, ShutdownLeavesNothing, Clean, Unknowable
  <2>3. Clean' /\ templates' \subseteq templates
    BY <2>1, <2>2, CleanStays, NoSubmit
  <2>4. QED
    BY <1>1, <2>2, <2>3 DEF Remembered
<1>3. CASE initialized
  <2>1. PICK t \in Threads : LastSweep(t)
    BY <1>3, InitializedStep
  <2>2. PICK refused, kept : CleanupAllResources(refused, kept) /\ Deletion(refused, kept)
    BY <2>1 DEF LastSweep
  <2>3. \A u \in Threads : frame[u].job = NoJob
    BY <1>1, <2>1 DEF NoneLate, Sweeping, LastSweep
  <2>4. Clean'
    <3>1. CASE refused = {}
      BY <2>2, <2>3, <3>1, SweepCleans
    <3>2. CASE refused # {}
      <4>1. PICK K : Happen(K) /\ "delete" \in K
        BY <2>2, <3>2 DEF Deletion, DeletionAnd, IfSo
      <4>2. events' \in Nat /\ events' >= events + 1 /\ "delete" \in happened'
        BY <4>1, TypesOf, HappenCounts, HappenKeeps
      <4>3. "delete" \notin happened
        BY <4>2 DEF RefusedOnce, Counted
      <4>4. Clean
        BY <1>1, <2>1, <4>3 DEF Swept, LastSweep
      <4>5. QED
        BY <2>3, <4>4, CleanStays
    <3>3. QED
      BY <3>1, <3>2
  <2>5. templates' = {} \/ {"crash", "keep_template"} \cap happened' # {}
    <3>1. kept = {} \/ "keep_template" \in happened'
      BY <2>2, DeletionNotes DEF Deletion
    <3>2. templates \subseteq launch_templates \/ {"crash", "keep_template"} \cap happened' # {}
      BY <1>1 DEF TemplatesKnown, Remembered
    <3>3. QED
      BY <2>2, <3>1, <3>2, TemplatesDeleted DEF CleanupAllResources
  <2>6. QED
    BY <2>4, <2>5
<1>4. QED
  BY <1>2, <1>3, TypesOf DEF ModeOK

\* So this holds throughout.
LEMMA ShutInvariant == Spec => []ShutInv
<1>1. Init => ShutInv
  <2> SUFFICES ASSUME Init PROVE ShutInv
    OBVIOUS
  <2>1. /\ \A t \in Threads : frame[t] = Idle
        /\ \A f \in Fleets : reported[f] = "none" /\ LiveNodes(f) = {}
        /\ templates = {} /\ events = 0 /\ happened = {} /\ initialized
    BY DEF Init, ManagerInit, LiveNodes, NoNodes, Up
  <2>2. NoneLate /\ Requested /\ TemplatesKnown /\ Held /\ Swept
    BY <2>1 DEF NoneLate, Requested, TemplatesKnown, Held, Swept, Idle, Launching
  <2>3. Counted /\ Done
    BY <2>1 DEF Counted, Done, ShutdownLeavesNothing
  <2>4. QED
    BY <2>2, <2>3 DEF ShutInv
<1>2. BookInv /\ JobInv /\ ReleaseInv /\ ShutInv /\ [Next]_vars => ShutInv'
  <2> SUFFICES ASSUME BookInv, JobInv, ReleaseInv, ShutInv, [Next]_vars PROVE ShutInv'
    OBVIOUS
  <2>1. Done'
    BY DoneStep
  <2>2. QED
    BY <2>1, NoneLateStep, RequestedStep, TemplatesStep, HeldStep, SweptStep, CountedStep DEF ShutInv
<1>3. QED
  BY <1>1, <1>2, BooksInvariant, JobInvariant, ReleaseInvariant, PTL DEF Spec

\* After shutdown no fleet this provider made has an instance left, and no launch
\* template is left, if no deletion of a fleet was refused or one was and nothing else
\* went wrong: of two refusals in a row the code does not recover.
THEOREM ShutdownStopsAll == Spec => [](RefusedOnce => ShutdownLeavesNothing)
<1>1. ShutInv => (RefusedOnce => ShutdownLeavesNothing)
  BY DEF ShutInv, Done
<1>2. QED
  BY <1>1, ShutInvariant, PTL
=============================================================================
