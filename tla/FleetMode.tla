------------------------------ MODULE FleetMode -----------------------------
(***************************************************************************)
(* StandardMode with use_spot_fleet (modes/standard.py, modes/base.py): a  *)
(* block is an EC2 Fleet made by SpotFleetManager, watched by the monitor's*)
(* thread, with the command in the user data of the fleet's template.      *)
(*                                                                         *)
(* The callers are threads that use the mode through EphemeralProvider; of *)
(* the provider's own books only the last status it holds of each block is *)
(* kept (`reported').  A call that makes several AWS calls is as many      *)
(* steps as others can see; status() and cancel() look at one block each   *)
(* time round their loops.                                                 *)
(***************************************************************************)
EXTENDS SpotMonitor

CONSTANTS
  Threads,  \* the callers
  Calls     \* the methods each caller uses

Methods == {"submit", "status", "cancel", "shutdown"}

ASSUME CallsAssumption == Calls \in [Threads -> SUBSET Methods]

VARIABLES
  resources,    \* StandardMode.resources, by block
  initialized,  \* StandardMode.initialized
  mode_store,   \* the document under STATE_KEY_MODE
  reported,     \* the provider's status of each block; "collected" once forgotten
  submits,      \* jobs given to submit_job(), and what became of the call
  frame         \* where each thread is, and its local variables

modeVars == <<resources, initialized, mode_store>>
callVars == <<reported, submits, frame>>
vars == <<managerVars, ec2Vars, eventVars, monitorVars, modeVars, callVars>>

-----------------------------------------------------------------------------

Record == [status : Status \cup {Absent}, job : Jobs \cup {NoJob}]
NoRecord == [status |-> Absent, job |-> NoJob]

Tracked(f) == resources[f].status # Absent
TrackedFleets == {f \in Fleets : Tracked(f)}

Terminal == {"COMPLETED", "FAILED", "CANCELED", "INTERRUPTED"}

\* Blocks the provider still has a record of.
Recorded == {f \in Fleets : reported[f] \notin {"none", "collected"}}
Unsettled == {f \in Recorded : reported[f] \notin Terminal}

Idle == [pc |-> "idle", job |-> NoJob, fleet |-> {}, todo |-> {}, answer |-> Absent]
At(l) == [Idle EXCEPT !.pc = l]

Labels == {"idle", "template", "fleet", "wait", "discard", "register", "track",
           "describe", "write", "cleanup",
           "sweep", "last_sweep"}

Document == [resources : [Fleets -> Record], blocks : [Fleets -> Block],
             fleet_requests : SUBSET Fleets]

TypeOK ==
  /\ ManagerTypeOK /\ MonitorTypeOK
  /\ resources \in [Fleets -> Record]
  /\ initialized \in BOOLEAN
  /\ mode_store \in Document
  /\ reported \in [Fleets -> Status \cup {"none", "collected"}]
  /\ submits \in [Jobs -> {"none", "called", "accepted", "raised"}]
  /\ frame \in [Threads -> [pc : Labels, job : Jobs \cup {NoJob}, fleet : SUBSET Fleets,
                            todo : SUBSET Fleets, answer : Status \cup {Absent}]]

\* save_state(): the manager's launch_templates are not part of it.
Save == mode_store' = [resources |-> resources', blocks |-> blocks',
                       fleet_requests |-> fleet_requests']

Init ==
  /\ ManagerInit /\ MonitorInit
  /\ resources = [f \in Fleets |-> NoRecord]
  /\ initialized = TRUE
  /\ mode_store = [resources |-> resources, blocks |-> blocks, fleet_requests |-> {}]
  /\ reported = [f \in Fleets |-> "none"]
  /\ submits = [j \in Jobs |-> "none"]
  /\ frame = [t \in Threads |-> Idle]

Goto(t, f) == frame' = [frame EXCEPT ![t] = f]

-----------------------------------------------------------------------------
(* submit_job() and _create_spot_fleet_instance().                         *)

SubmitUnchanged == UNCHANGED <<monitorVars, modeVars, reported>>

\* The exception of a failed creation reaches the caller.
Raise(t) ==
  /\ submits' = [submits EXCEPT ![frame[t].job] = "raised"]
  /\ Goto(t, Idle)

\* The job's script goes into the attribute of the manager's stand-in provider,
\* which all threads share.
Submit(t, j) ==
  /\ "submit" \in Calls[t] /\ frame[t] = Idle /\ initialized /\ submits[j] = "none"
  /\ Happen(IfSo(\E u \in Threads : frame[u].pc = "template", "overlap")
            \cup IfSo(\E u \in Threads : frame[u].pc \in {"sweep", "last_sweep"}, "late_submit"))
  /\ worker_init' = j
  /\ submits' = [submits EXCEPT ![j] = "called"]
  /\ Goto(t, [At("template") EXCEPT !.job = j])
  /\ UNCHANGED <<blocks, fleet_requests, launch_templates, ec2Vars>>
  /\ SubmitUnchanged

\* No two calls ever share an identifier, although a sweep may have deleted the
\* template of one of them.
CreateTemplate(t) ==
  /\ frame[t].pc = "template"
  /\ \/ \E f \in Fleets : /\ \A u \in Threads : f \notin frame[u].fleet
                          /\ BuildLaunchTemplateConfig(f)
                          /\ Goto(t, [frame[t] EXCEPT !.pc = "fleet", !.fleet = {f}])
                          /\ submits' = submits
                          /\ Happen({})
     \/ Happen({"template"}) /\ Raise(t) /\ UNCHANGED <<managerVars, ec2Vars>>
  /\ SubmitUnchanged

Create(t) ==
  /\ frame[t].pc = "fleet"
  /\ \E f \in frame[t].fleet :
       \/ \E N \in SUBSET Nodes :
            /\ CreateFleet(f, N)
            /\ Goto(t, [frame[t] EXCEPT !.pc = IF N = {} THEN "discard" ELSE "wait"])
            /\ submits' = submits
            /\ Happen(IfSo(N # Nodes, "capacity"))
       \/ \E kept \in SUBSET {f} :
            /\ CreateFleetRefused(f, kept) /\ Raise(t)
            /\ Happen({"refused"} \cup IfSo(kept # {}, "keep_template"))
       \/ CreateFleetLost(f, Nodes) /\ Raise(t) /\ Happen({"lost"})
  /\ SubmitUnchanged

\* poll_until(settled_status): PENDING means waiting on, and no status at all
\* leaves the one noted at the creation, which is RUNNING.
WaitRunning(t) ==
  /\ frame[t].pc = "wait"
  /\ \E f \in frame[t].fleet :
       \/ /\ BlockStatus(f) # "PENDING"
          /\ blocks' = NotedStatus(f, BlockStatus(f))
          /\ Goto(t, [frame[t] EXCEPT !.pc = IF BlockStatus(f) = "RUNNING" THEN "register"
                                                                         ELSE "discard"])
          /\ Happen({})
       \/ /\ BlockStatus(f) = "PENDING"
          /\ blocks' = NotedStatus(f, "PENDING")
          /\ Goto(t, [frame[t] EXCEPT !.pc = "discard"])
          /\ Happen({"slow"})
       \/ /\ blocks' = blocks
          /\ Goto(t, [frame[t] EXCEPT !.pc = "register"])
          /\ Happen({"describe"})
  /\ UNCHANGED <<fleet_requests, launch_templates, worker_init, ec2Vars, submits>>
  /\ SubmitUnchanged

Discard_Keep(t) ==
  /\ frame[t].pc = "discard"
  /\ blocks' = [f \in Fleets |-> IF f \in frame[t].fleet THEN NoBlock ELSE blocks[f]]
  /\ Happen({})
  /\ Raise(t)
  /\ UNCHANGED <<fleet_requests, launch_templates, worker_init, ec2Vars>>
  /\ SubmitUnchanged

\* _discard_failed_fleet_block(): whatever terminate_block() did, the block goes.
Discard(t) ==
  /\ frame[t].pc = "discard"
  /\ \E refused, kept \in SUBSET frame[t].fleet :
       LET F == frame[t].fleet \ refused IN
       /\ DeleteFleets(F)
       /\ DeleteLaunchTemplates(F, kept)
       /\ Deletion(refused, kept)
  /\ blocks' = [f \in Fleets |-> IF f \in frame[t].fleet THEN NoBlock ELSE blocks[f]]
  /\ Raise(t)
  /\ UNCHANGED <<fleet_requests, worker_init, user_data>>
  /\ SubmitUnchanged

Register(t) ==
  /\ frame[t].pc = "register"
  /\ \E f \in frame[t].fleet : RegisterFleet(f)
  /\ Goto(t, [frame[t] EXCEPT !.pc = "track"])
  /\ Happen({})
  /\ UNCHANGED <<managerVars, ec2Vars, monitoring, warnings, event_queue, monitor,
                 modeVars, reported, submits>>

\* submit_job() tracks the block and saves; the provider records it.
Track(t) ==
  /\ frame[t].pc = "track"
  /\ \E f \in frame[t].fleet :
       /\ resources' = [resources EXCEPT ![f] = [status |-> "PENDING", job |-> frame[t].job]]
       /\ reported' = [reported EXCEPT ![f] = "PENDING"]
  /\ submits' = [submits EXCEPT ![frame[t].job] = "accepted"]
  /\ Goto(t, Idle)
  /\ Happen({})
  /\ UNCHANGED <<managerVars, ec2Vars, monitorVars, initialized>>
  /\ Save

SubmitStep(t) ==
  CreateTemplate(t) \/ Create(t) \/ WaitRunning(t) \/ Discard(t) \/ Register(t) \/ Track(t)

-----------------------------------------------------------------------------
(* get_job_status().                                                       *)

MustAsk_All(F) == {f \in F : Tracked(f)}

\* Of the blocks in F, those whose status must be asked for: a block marked
\* INTERRUPTED stays so, and one without a record is UNKNOWN.
MustAsk(F) == {f \in F : Tracked(f) /\ resources[f].status # "INTERRUPTED"}

LocalStatus(f) == IF Tracked(f) THEN "INTERRUPTED" ELSE "UNKNOWN"

Answered(F) == [f \in Fleets |-> IF f \in F THEN LocalStatus(f) ELSE reported[f]]

\* The mode saves when it has an answer for all.
StatusBegin(t) ==
  /\ "status" \in Calls[t] /\ frame[t] = Idle /\ Unsettled # {}
  /\ LET todo == MustAsk(Unsettled) IN
     /\ Goto(t, IF todo = {} THEN Idle ELSE [At("describe") EXCEPT !.todo = todo])
     /\ reported' = Answered(Unsettled \ todo)
     /\ UNCHANGED <<managerVars, ec2Vars, monitorVars, resources, initialized, submits>>
     /\ IF todo = {} THEN Save ELSE mode_store' = mode_store
  /\ Happen({})

\* What get_block_status() may answer: the truth; when describing the fleet
\* fails, what was noted last; when describing its instances fails, RUNNING.
\* (Its two calls are merged: nothing here depends on whether a fleet deleted
\* between them is reported as deleted or by its instances.)
BlockAnswers(f) ==
  IF ~HasBlock(f) THEN {"UNKNOWN"}
  ELSE {BlockStatus(f), blocks[f].status}
         \cup IF FleetVerdict(f) = Absent THEN {"RUNNING"} ELSE {}

DescribeBlock(t) ==
  /\ frame[t].pc = "describe"
  /\ \E f \in frame[t].todo : \E answer \in BlockAnswers(f) :
       /\ Happen(IfSo(HasBlock(f) /\ answer # BlockStatus(f), "describe"))
       /\ blocks' = IF HasBlock(f) THEN NotedStatus(f, answer) ELSE blocks
       /\ Goto(t, [frame[t] EXCEPT !.pc = "write", !.fleet = {f}, !.answer = answer])
  /\ UNCHANGED <<fleet_requests, launch_templates, worker_init, ec2Vars, monitorVars,
                 modeVars, reported, submits>>

\* The record is overwritten, whatever it says by now.
WriteStatus(t) ==
  /\ frame[t].pc = "write"
  /\ LET s    == frame[t].answer
         todo == frame[t].todo \ frame[t].fleet
     IN
     /\ resources' = [f \in Fleets |-> IF f \in frame[t].fleet /\ Tracked(f)
                                         THEN [resources[f] EXCEPT !.status = s] ELSE resources[f]]
     /\ reported' = [f \in Fleets |-> IF f \in frame[t].fleet /\ f \in Recorded THEN s
                                                                               ELSE reported[f]]
     /\ Goto(t, IF todo = {} THEN Idle ELSE [At("describe") EXCEPT !.todo = todo])
     /\ UNCHANGED <<managerVars, ec2Vars, monitorVars, initialized, submits>>
     /\ IF todo = {} THEN Save ELSE mode_store' = mode_store
  /\ Happen({})

StatusStep(t) == DescribeBlock(t) \/ WriteStatus(t)

-----------------------------------------------------------------------------
(* cancel_jobs() and cleanup_resources().                                  *)

\* provider.cancel() of one block: cancel_jobs() ...
Cancel(t, f) ==
  /\ "cancel" \in Calls[t] /\ frame[t] = Idle /\ f \in Recorded
  /\ \E refused \in SUBSET (IF HasBlock(f) THEN {f} ELSE {}), kept \in SUBSET {f} :
       LET s == IF ~Tracked(f) THEN "UNKNOWN" ELSE IF refused = {} THEN "CANCELED" ELSE "FAILED"
       IN
       /\ TerminateBlocks({f} \cap TrackedFleets, refused, kept)
       /\ Deletion(refused, kept)
       /\ resources' = [resources EXCEPT ![f].status = IF Tracked(f) THEN s ELSE @]
       /\ reported' = [reported EXCEPT ![f] = s]
  /\ Goto(t, At("cleanup"))
  /\ UNCHANGED <<monitorVars, initialized, submits>>
  /\ Save

\* Records are dropped unless terminate_block() raised.
DropRecords(F) == resources' = [f \in Fleets |-> IF f \in F THEN NoRecord ELSE resources[f]]

\* ... and then the cleanup pass: cleanup_resources() of all terminal blocks,
\* which the provider forgets even where the mode keeps a record.  (In the mode
\* where the command is in the user data no other call of the provider cleans up.)
Cleanup(t) ==
  /\ frame[t].pc = "cleanup"
  /\ LET ended == {f \in Recorded : reported[f] \in Terminal} IN
     /\ \E refused, kept \in SUBSET (ended \cap TrackedFleets) :
          /\ TerminateBlocks(ended \cap TrackedFleets, refused, kept)
          /\ DropRecords(ended \ {f \in refused : HasBlock(f)})
          /\ Deletion(refused, kept)
     /\ reported' = [f \in Fleets |-> IF f \in ended THEN "collected" ELSE reported[f]]
  /\ Goto(t, Idle)
  /\ UNCHANGED <<monitorVars, initialized, submits>>
  /\ Save

-----------------------------------------------------------------------------
(* cleanup_infrastructure(), which shutdown() calls.                       *)

ShutdownUnchanged == UNCHANGED <<reported, submits>>

\* cleanup_all(), if there are records: cleanup_resources() of all of them ...
Shutdown(t) ==
  /\ "shutdown" \in Calls[t] /\ frame[t] = Idle /\ initialized
  /\ LET late == IfSo(\E u \in Threads : frame[u].job # NoJob, "late_submit") IN
     IF TrackedFleets = {}
       THEN /\ Goto(t, At("last_sweep"))
            /\ Happen(late)
            /\ UNCHANGED <<managerVars, ec2Vars, resources, mode_store>>
       ELSE /\ \E refused, kept \in SUBSET TrackedFleets :
                 /\ TerminateBlocks(TrackedFleets, refused, kept)
                 /\ DropRecords(TrackedFleets \ {f \in refused : HasBlock(f)})
                 /\ DeletionAnd(refused, kept, late)
            /\ Goto(t, At("sweep"))
            /\ Save
  /\ UNCHANGED <<monitorVars, initialized>>
  /\ ShutdownUnchanged

\* ... and cleanup_all_resources();
Sweep(t) ==
  /\ frame[t].pc = "sweep"
  /\ \E refused \in SUBSET fleet_requests, kept \in SUBSET launch_templates :
       CleanupAllResources(refused, kept) /\ Deletion(refused, kept)
  /\ Goto(t, At("last_sweep"))
  /\ UNCHANGED <<monitorVars, modeVars>>
  /\ ShutdownUnchanged

\* then the monitor is stopped, cleanup_all_resources() called once more, and
\* the mode is no longer initialized.
LastSweep(t) ==
  /\ frame[t].pc = "last_sweep"
  /\ StopMonitoring
  /\ \E refused \in SUBSET fleet_requests, kept \in SUBSET launch_templates :
       CleanupAllResources(refused, kept) /\ Deletion(refused, kept)
  /\ initialized' = FALSE
  /\ Goto(t, Idle)
  /\ resources' = resources
  /\ Save
  /\ ShutdownUnchanged

-----------------------------------------------------------------------------
(* The monitor's thread.                                                   *)

MonitorUnchanged == UNCHANGED <<managerVars, modeVars, callVars>>

RecordCount == Cardinality(TrackedFleets)

\* _resource_ids_for_fleet(): records that name the fleet as fleet_request_id.
ResourceIdsForFleet(f) == {f} \cap TrackedFleets

\* handle_fleet_interruption() marks the block.
MarkInterrupted ==
  /\ HandlerDone
  /\ LET F == UNION {ResourceIdsForFleet(f) : f \in monitor.fleet} IN
     /\ resources' = [f \in Fleets |-> IF f \in F THEN [resources[f] EXCEPT !.status = "INTERRUPTED"]
                                                  ELSE resources[f]]
     /\ Happen(IfSo(\E t \in Threads : F \cap frame[t].todo # {}, "late_mark"))
  /\ UNCHANGED <<managerVars, ec2Vars, initialized, mode_store, callVars>>

\* A record was added or removed while the handler walked over them: the walk
\* raises, unless it had already ended.
HandlerRaises ==
  /\ HandlerDone /\ monitor.size # RecordCount /\ Happen({})
  /\ UNCHANGED <<managerVars, ec2Vars, modeVars, callVars>>

MonitorStep ==
  \/ \E f \in Fleets, n \in Nodes : ReceiveWarning(f, n) /\ UNCHANGED ec2Vars /\ MonitorUnchanged
  \/ \E f \in Fleets : ListFleet(f) /\ UNCHANGED ec2Vars /\ MonitorUnchanged
  \/ DescribeListed /\ UNCHANGED ec2Vars /\ MonitorUnchanged
  \/ \E f \in Fleets : TakeEvent(f, RecordCount) /\ UNCHANGED ec2Vars /\ MonitorUnchanged
  \/ MarkInterrupted
  \/ HandlerRaises

-----------------------------------------------------------------------------
(* The environment.                                                        *)

\* AWS warns of an instance it is about to take; the notifier queues the warning.
Warn(f, n) ==
  /\ node[f][n] = "running"
  /\ warnings' = IF monitoring THEN warnings \cup {<<f, n>>} ELSE warnings
  /\ Happen({"reclaim"})
  /\ UNCHANGED <<managerVars, ec2Vars, fleet_handlers, monitoring, event_queue, monitor,
                 modeVars, callVars>>

\* Two minutes later the instance goes (as Finish does): the monitor, which
\* polls every 30 seconds, has drained the queue by then.
NodeStep ==
  /\ \E f \in Fleets, n \in Nodes :
       \/ Boot(f, n)
       \/ Finish(f, n) /\ <<f, n>> \notin warnings
       \/ Forget(f, n)
  /\ UNCHANGED <<managerVars, monitorVars, modeVars, callVars>>

FleetGone ==
  /\ \E f \in Fleets : ForgetFleet(f)
  /\ UNCHANGED <<managerVars, monitorVars, modeVars, callVars>>

EnvironmentStep ==
  (\E f \in Fleets, n \in Nodes : Warn(f, n)) \/ NodeStep \/ FleetGone

RestoredBlocks_None == [f \in Fleets |-> NoBlock]

\* load_state() restores the manager's books.
RestoredBlocks == mode_store.blocks

\* The process dies and a successor resumes: load_state() restores the records
\* and registers the fleets again, and initialize() returns before it starts the
\* monitor's thread.
Restart ==
  /\ initialized /\ Happen({"crash"})
  /\ resources' = mode_store.resources
  /\ blocks' = RestoredBlocks
  /\ fleet_requests' = mode_store.fleet_requests
  /\ launch_templates' = {}
  /\ worker_init' = NoJob
  /\ fleet_handlers' = {f \in Fleets : blocks'[f].status # Absent}
  /\ monitoring' = FALSE /\ event_queue' = {} /\ monitor' = Looping
  /\ frame' = [t \in Threads |-> Idle]
  /\ UNCHANGED <<ec2Vars, warnings, initialized, mode_store, reported, submits>>

-----------------------------------------------------------------------------

Call(t) ==
  \/ \E j \in Jobs : Submit(t, j)
  \/ StatusBegin(t)
  \/ \E f \in Fleets : Cancel(t, f)
  \/ Shutdown(t)

Continue(t) == SubmitStep(t) \/ StatusStep(t) \/ Cleanup(t) \/ Sweep(t) \/ LastSweep(t)

Next ==
  \/ \E t \in Threads : Call(t) \/ Continue(t)
  \/ MonitorStep \/ EnvironmentStep \/ Restart

Spec == Init /\ [][Next]_vars

-----------------------------------------------------------------------------
(* Safety.                                                                 *)

\* Every block runs the command of the job that Parsl was given it for: a fleet's
\* user data is never that of an earlier submit, nor the configured default --
\* unless two submits overlap, when one may launch with the other's script.
FleetRunsItsJob ==
  "overlap" \notin happened =>
    \A f \in TrackedFleets : user_data[f] = resources[f].job

\* A job whose submit_job() raised is not running anywhere: whether its fleet
\* was refused, came up short, was too slow or failed, what there was of it is
\* deleted before the caller is told -- unless EC2 refuses that, or the reply to
\* create_fleet() was lost.
FailedSubmitRunsNothing ==
  {"overlap", "delete", "lost"} \cap happened = {} =>
    \A f \in Fleets : \A j \in Jobs :
      submits[j] = "raised" /\ user_data[f] = j => LiveNodes(f) = {}

\* A block reported COMPLETED has no instance left at work, however its nodes
\* ended one after the other -- unless EC2 has forgotten one that ended long
\* before the rest.
NoFalseCompletion ==
  "forget" \notin happened =>
    \A f \in Fleets : reported[f] = "COMPLETED" => LiveNodes(f) = {}

\* A block its owner was told is canceled, or that the provider has forgotten,
\* has no instance left, in the process that made it as in its successor --
\* unless EC2 refused a deletion.
ReleasedFleetStops ==
  "delete" \notin happened =>
    \A f \in Fleets : reported[f] \in {"CANCELED", "collected"} => LiveNodes(f) = {}

\* After shutdown no fleet this provider made has an instance left, though EC2
\* may have refused a deletion (it is asked again), and no launch template is
\* left.  Out of its reach are a fleet whose creation was not answered, what a
\* predecessor was creating when it died, the templates of a predecessor, and a
\* template whose deletion was refused; a submit still going on in another thread
\* is not waited for.
ShutdownLeavesNothing ==
  ~initialized /\ "late_submit" \notin happened =>
    /\ \A f \in Fleets : LiveNodes(f) = {}
                           \/ (reported[f] = "none" /\ {"lost", "crash"} \cap happened # {})
    /\ templates = {} \/ {"crash", "keep_template"} \cap happened # {}

-----------------------------------------------------------------------------
(* Action properties.                                                      *)

\* A block marked INTERRUPTED stays so until it is canceled or dropped, although
\* every poll derives statuses anew from what EC2 says, and EC2 says of a
\* reclaimed fleet what it says of a finished one -- unless the poll had already
\* read the record when the mark was set, or the process died before saving it.
InterruptionIsSticky ==
  [][{"late_mark", "crash"} \cap happened' = {} =>
       \A f \in Fleets : resources[f].status = "INTERRUPTED" =>
         resources'[f].status \in {"INTERRUPTED", "CANCELED", "FAILED", Absent}]_vars

=============================================================================
