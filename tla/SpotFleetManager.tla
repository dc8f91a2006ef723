-------------------------- MODULE SpotFleetManager --------------------------
(***************************************************************************)
(* The manager of EC2 Fleets (compute/spot_fleet.py, with the fleet calls  *)
(* of utils/aws.py): one `instant' fleet, and one launch template, for each*)
(* block.                                                                  *)
(*                                                                         *)
(* The manager has no thread of its own: the operators below are stretches *)
(* of its methods between AWS calls, and module FleetMode sequences them.  *)
(* A block, its launch template and its fleet have identifiers of their    *)
(* own but are never mixed up, so one model value stands for the three.    *)
(***************************************************************************)
EXTENDS Naturals, FiniteSets

CONSTANTS
  Jobs,      \* job identifiers (each a fresh UUID)
  NoJob,     \* "no job": the worker_init of the configuration, no user data
  Fleets,    \* block, launch template and fleet identifiers; bounds the creations
  Nodes,     \* the nodes of a block, nodes_per_block of them
  Events,    \* the kinds of event the environment may produce
  MaxEvents  \* how many of them one behaviour contains

EventKinds ==
  {"template",       \* create_launch_template() is refused
   "refused",        \* create_fleet() is refused (ClientError)
   "lost",           \* the connection breaks during create_fleet(): no ClientError
   "capacity",       \* the fleet launches fewer nodes than asked for
   "slow",           \* the block is still PENDING when poll_until() gives up
   "describe",       \* a call that describes a fleet or its instances fails
   "delete",         \* delete_fleets() is refused
   "keep_template",  \* delete_launch_template() is refused
   "forget",         \* EC2 no longer knows one instance of a fleet
   "forget_fleet",   \* EC2 no longer knows a deleted fleet
   "reclaim",        \* EC2 sends the two-minute warning for an instance
   "late_stop",      \* an instance stops between two calls of the monitor
   "crash"}          \* the process dies and a successor resumes from its state

\* What the order of the program's own threads brings about is noted as well.
ScheduleKinds ==
  {"overlap",        \* a submit starts before another has read worker_init
   "late_submit",    \* shutdown and a submit are under way at the same time
   "late_mark"}      \* a block is marked INTERRUPTED while a poll asks about it

ASSUME FleetAssumption ==
  /\ NoJob \notin Jobs
  /\ Nodes # {} /\ IsFiniteSet(Nodes) /\ IsFiniteSet(Fleets)
  /\ Events \subseteq EventKinds /\ MaxEvents \in Nat

VARIABLES
  blocks,            \* SpotFleetManager.blocks
  fleet_requests,    \* SpotFleetManager.fleet_requests
  launch_templates,  \* SpotFleetManager.launch_templates: blocks that have one
  worker_init,       \* worker_init of the stand-in provider: the job whose script it is
  fleet,             \* state of each fleet at EC2
  node,              \* state of each fleet's instances at EC2
  templates,         \* launch templates that exist at EC2
  user_data,         \* the job whose script a template, and so its fleet, carries
  happened,          \* the events that occurred
  events             \* how many

managerVars == <<blocks, fleet_requests, launch_templates, worker_init>>
ec2Vars     == <<fleet, node, templates, user_data>>
eventVars   == <<happened, events>>

-----------------------------------------------------------------------------
(* Records and states.                                                     *)

Absent == "ABSENT"   \* no record under this key

Status == {"PENDING", "RUNNING", "COMPLETED", "FAILED", "CANCELED",
           "INTERRUPTED", "UNKNOWN"}

Block == [status : Status \cup {Absent}, ids : SUBSET Nodes]
NoBlock == [status |-> Absent, ids |-> {}]

HasBlock(f) == blocks[f].status # Absent

\* Both `shutting-down' and `terminated' are "down": the code tells them apart
\* in one place only (see DescribeListed of SpotMonitor).
NodeStates == {"none", "pending", "running", "down", "gone"}
Up == {"pending", "running"}

\* get_ec2_fleet_instance_ids(): the instances that are not on their way out.
LiveNodes(f) == {n \in Nodes : node[f][n] \in Up}

NoNodes == [n \in Nodes |-> "none"]

ManagerTypeOK ==
  /\ blocks \in [Fleets -> Block]
  /\ fleet_requests \in SUBSET Fleets
  /\ launch_templates \in SUBSET Fleets
  /\ worker_init \in Jobs \cup {NoJob}
  /\ fleet \in [Fleets -> {"none", "active", "deleted", "forgotten"}]
  /\ node \in [Fleets -> [Nodes -> NodeStates]]
  /\ templates \in SUBSET Fleets
  /\ user_data \in [Fleets -> Jobs \cup {NoJob}]
  /\ happened \in SUBSET (Events \cup ScheduleKinds)
  /\ events \in Nat

ManagerInit ==
  /\ blocks = [f \in Fleets |-> NoBlock]
  /\ fleet_requests = {}
  /\ launch_templates = {}
  /\ worker_init = NoJob
  /\ fleet = [f \in Fleets |-> "none"]
  /\ node = [f \in Fleets |-> NoNodes]
  /\ templates = {}
  /\ user_data = [f \in Fleets |-> NoJob]
  /\ happened = {}
  /\ events = 0

\* The kinds in K happen in this step; an ordinary step is Happen({}).  Those of
\* the environment are bounded.
Happen(K) ==
  LET external == K \ ScheduleKinds IN
  /\ external \subseteq Events
  /\ events + Cardinality(external) <= MaxEvents
  /\ events' = events + Cardinality(external)
  /\ happened' = happened \cup K

IfSo(condition, kind) == IF condition THEN {kind} ELSE {}

-----------------------------------------------------------------------------
(* EC2.                                                                    *)

\* An identifier nothing has used: block ids are UUIDs.
FreshFleet(f) ==
  f \notin templates /\ f \notin launch_templates /\ fleet[f] = "none"

Boot(f, n) ==
  /\ node[f][n] = "pending"
  /\ node' = [node EXCEPT ![f][n] = "running"]
  /\ Happen({})
  /\ UNCHANGED <<fleet, templates, user_data>>

\* The script ends with `shutdown -h now', and the template's shutdown
\* behaviour is `terminate'.
Finish(f, n) ==
  /\ node[f][n] = "running"
  /\ node' = [node EXCEPT ![f][n] = "down"]
  /\ Happen({})
  /\ UNCHANGED <<fleet, templates, user_data>>

\* About an hour after its termination EC2 does not know an instance, nor a
\* deleted fleet, any more.
Forget(f, n) ==
  /\ node[f][n] = "down"
  /\ node' = [node EXCEPT ![f][n] = "gone"]
  /\ Happen({"forget"})
  /\ UNCHANGED <<fleet, templates, user_data>>

ForgetFleet(f) ==
  /\ fleet[f] = "deleted" /\ LiveNodes(f) = {}
  /\ fleet' = [fleet EXCEPT ![f] = "forgotten"]
  /\ Happen({"forget_fleet"})
  /\ UNCHANGED <<node, templates, user_data>>

-----------------------------------------------------------------------------
(* create_blocks(1): the template, with the user data of the moment, then  *)
(* the fleet.  Neither is ever tried twice: the exception create_blocks()  *)
(* raises is not one its own retry decorator retries.                      *)

BuildLaunchTemplateConfig_Configured(f) ==
  /\ FreshFleet(f)
  /\ templates' = templates \cup {f}
  /\ launch_templates' = launch_templates \cup {f}
  /\ user_data' = [user_data EXCEPT ![f] = NoJob]
  /\ UNCHANGED <<blocks, fleet_requests, worker_init, fleet, node>>

\* _build_launch_template_config()
BuildLaunchTemplateConfig(f) ==
  /\ FreshFleet(f)
  /\ templates' = templates \cup {f}
  /\ launch_templates' = launch_templates \cup {f}
  /\ user_data' = [user_data EXCEPT ![f] = worker_init]
  /\ UNCHANGED <<blocks, fleet_requests, worker_init, fleet, node>>

\* EC2 creates the fleet with the nodes N.
Launched(f, N) ==
  /\ fleet' = [fleet EXCEPT ![f] = "active"]
  /\ node' = [node EXCEPT ![f] = [n \in Nodes |-> IF n \in N THEN "pending" ELSE "none"]]

\* _create_fleet() returns, and create_blocks() records the block.
CreateFleet(f, N) ==
  /\ Launched(f, N)
  /\ fleet_requests' = fleet_requests \cup {f}
  /\ blocks' = [blocks EXCEPT ![f] =
       [status |-> IF N # {} THEN "RUNNING" ELSE "PENDING", ids |-> N]]
  /\ UNCHANGED <<launch_templates, worker_init, templates, user_data>>

\* The templates of the blocks in F are deleted, but for those in `kept', of
\* which the manager knows nothing afterwards either.
DeleteLaunchTemplates(F, kept) ==
  /\ launch_templates' = launch_templates \ F
  /\ templates' = templates \ ((F \cap launch_templates) \ kept)

\* A refused CreateFleet takes its template along.
CreateFleetRefused(f, kept) ==
  /\ DeleteLaunchTemplates({f}, kept)
  /\ UNCHANGED <<blocks, fleet_requests, worker_init, fleet, node, user_data>>

\* With any other exception the fleet may exist all the same.
CreateFleetLost(f, N) ==
  /\ Launched(f, N) \/ UNCHANGED <<fleet, node>>
  /\ UNCHANGED <<blocks, fleet_requests, launch_templates, worker_init, templates, user_data>>

-----------------------------------------------------------------------------
(* get_block_status(): two calls.                                          *)

\* What describe_ec2_fleet() settles; Absent sends the caller to the instances,
\* for an instant fleet stays `active' until it is deleted.  (The answers for a
\* failed, submitted or modified fleet are left out: the states of fleets whose
\* capacity EC2 maintains.)
FleetVerdict(f) ==
  CASE fleet[f] = "forgotten" -> "COMPLETED"
    [] fleet[f] = "deleted"   -> "CANCELED"
    [] OTHER                  -> Absent

StatusFromInstances_AnyDown(f) ==
  LET ids     == blocks[f].ids
      In(S)   == {n \in ids : node[f][n] \in S}
  IN CASE In({"gone"}) # {}       -> "COMPLETED"
       [] In({"running"}) = ids   -> "RUNNING"
       [] In({"down"}) # {}       -> "COMPLETED"
       [] OTHER                   -> "PENDING"

\* _status_from_instances(): of no instance at all it says PENDING, although a
\* block without instances is discarded before anybody asks for its status.
StatusFromInstances(f) ==
  LET ids     == blocks[f].ids
      In(S)   == {n \in ids : node[f][n] \in S}
  IN IF ids = {} THEN "PENDING" ELSE
     CASE In({"gone"}) # {}       -> "COMPLETED"
       [] In({"running"}) = ids   -> "RUNNING"
       [] In({"down"}) = ids      -> "COMPLETED"
       [] In({"running"}) # {}    -> "RUNNING"
       [] OTHER                   -> "PENDING"

BlockStatus(f) ==
  IF FleetVerdict(f) # Absent THEN FleetVerdict(f) ELSE StatusFromInstances(f)

NotedStatus(f, s) == [blocks EXCEPT ![f].status = s]

-----------------------------------------------------------------------------
(* Deletion.                                                               *)

\* delete_ec2_fleet() of each fleet in F: a deleted fleet's instances go down.
DeleteFleets(F) ==
  /\ fleet' = [f \in Fleets |-> IF f \in F /\ fleet[f] = "active" THEN "deleted" ELSE fleet[f]]
  /\ node' = [f \in Fleets |-> [n \in Nodes |->
                IF f \in F /\ node[f][n] \in Up THEN "down" ELSE node[f][n]]]

\* terminate_block() of each block in F: a block without a record is left alone,
\* and the deletion of the fleets in `refused' is refused, which raises.
TerminateBlocks(F, refused, kept) ==
  LET known == {f \in F : HasBlock(f)} \ refused IN
  /\ DeleteFleets(known)
  /\ blocks' = [f \in Fleets |-> IF f \in known THEN [blocks[f] EXCEPT !.status = "CANCELED"]
                                                ELSE blocks[f]]
  /\ DeleteLaunchTemplates(known, kept)
  /\ UNCHANGED <<fleet_requests, worker_init, user_data>>

\* The events of a deletion, beside others of the step.
DeletionAnd(refused, kept, others) ==
  Happen(IfSo(refused # {}, "delete") \cup IfSo(kept # {}, "keep_template") \cup others)

Deletion(refused, kept) == DeletionAnd(refused, kept, {})

CleanupAllResources_Recorded(refused, kept) ==
  /\ DeleteFleets(fleet_requests \ refused)
  /\ DeleteLaunchTemplates({f \in launch_templates : HasBlock(f)}, kept)
  /\ UNCHANGED <<blocks, fleet_requests, worker_init, user_data>>

\* cleanup_all_resources(): every fleet ever requested, then every template.
CleanupAllResources(refused, kept) ==
  /\ DeleteFleets(fleet_requests \ refused)
  /\ DeleteLaunchTemplates(launch_templates, kept)
  /\ UNCHANGED <<blocks, fleet_requests, worker_init, user_data>>
=============================================================================
