--------------------------- MODULE DetachedProofs ---------------------------
(***************************************************************************)
(* Detached mode: the safety properties of DetachedMode for any number of  *)
(* jobs, instances and failures.                                           *)
(***************************************************************************)
EXTENDS DetachedMode, FiniteSetTheorems, FunctionTheorems, TLAPS

\* The parts of the type invariant.
ParamsOK ==
  /\ job_params \in SUBSET Jobs
  /\ status_params \in [Jobs -> Document]
  /\ cancel_param \in SUBSET Jobs

ClientOK ==
  /\ resources \in [Jobs -> LocalRecord]
  /\ client \in [op : {"idle", "submit", "delete_jobs", "delete_status"}, job : Jobs \cup {NoJob}]
  /\ submitted \in SUBSET Jobs
  /\ canceled \in SUBSET Jobs

Ec2States == {"unused", "pending", "running", "shutting-down", "terminated", "gone"}

CloudOK ==
  /\ ec2 \in [Instances -> Ec2States]
  /\ owner \in [Instances -> Jobs \cup {NoJob}]
  /\ finished \in SUBSET Instances
  /\ fleet \in [Jobs -> {"none", "active", "failed", "deleted"}]
  /\ template \in BOOLEAN

EventsOK ==
  /\ happened \in SUBSET Events
  /\ events \in Nat

-----------------------------------------------------------------------------
(* What the operators of the model return.                                 *)

\* The type invariant is made of its parts.
LEMMA TypeParts ==
  /\ TypeOK <=> /\ use_spot_fleet \in BOOLEAN /\ ParamsOK /\ ClientOK
                /\ bastion \in BastionState /\ CloudOK /\ EventsOK
                /\ forsaken \in SUBSET Instances
  /\ TypeOK' <=> /\ use_spot_fleet' \in BOOLEAN /\ ParamsOK' /\ ClientOK'
                 /\ bastion' \in BastionState /\ CloudOK' /\ EventsOK'
                 /\ forsaken' \in SUBSET Instances
BY DEF TypeOK, ParamsOK, ClientOK, CloudOK, EventsOK, Ec2States

\* There are finitely many kinds of event.
LEMMA FiniteEvents == IsFiniteSet(EventKinds)
<1>1. EventKinds = {} \cup {"crash"} \cup {"call"} \cup {"put"} \cup {"list"} \cup {"client_call"}
                     \cup {"slow_submit"} \cup {"stale_list"} \cup {"slow_boot"} \cup {"slow_stop"}
                     \cup {"reclaim"} \cup {"forget"} \cup {"overlap"} \cup {"idle"}
  BY DEF EventKinds
<1>2. \A S : \A x : IsFiniteSet(S) => IsFiniteSet(S \cup {x})
  BY FS_AddElement
<1>3. QED
  BY <1>1, <1>2, FS_EmptySet, Zenon

\* The events of a step are counted and noted; what has happened stays so.
LEMMA Happens ==
  ASSUME EventsOK, NEW K, Happen(K)
  PROVE  /\ EventsOK'
         /\ happened' = happened \cup K
         /\ events <= events'
         /\ K # {} => events + 1 <= events'
<1>1. IsFiniteSet(K)
  BY FiniteEvents, FS_Subset, DetachedAssumption DEF Happen
<1>2. Cardinality(K) \in Nat /\ (Cardinality(K) = 0 <=> K = {})
  BY <1>1, FS_CardinalityType, FS_EmptySet
<1>3. QED
  BY <1>2 DEF Happen, EventsOK

\* `No document' is a document, and not a status; a document and a record keep
\* their shape with another status.
LEMMA Documents ==
  /\ Absent \notin Status
  /\ NoDocument \in Document
  /\ NoLocalRecord \in LocalRecord
  /\ \A s \in Status, i \in Instances \cup {NoInstance} : PlainDocument(s, i) \in Document
  /\ \A s \in Status, i \in Instances \cup {NoInstance}, all \in SUBSET Instances :
        FleetDocument(s, i, all) \in Document
  /\ \A d \in Document, s \in Status : [d EXCEPT !.status = s] \in Document
  /\ \A r \in LocalRecord, s \in Status : [r EXCEPT !.status = s] \in LocalRecord
BY DEF Absent, Status, NoDocument, Document, NoLocalRecord, LocalRecord, PlainDocument, FleetDocument

-----------------------------------------------------------------------------
(* What the bastion holds after each of its steps, field by field.         *)

NoDocs(b) == b.docs = [j \in Jobs |-> NoDocument]
NoneSeen(b) == b.seen = [i \in Instances |-> Absent]
NoPuts(b) == b.puts = [j \in Jobs |-> << >>]
NoRequest(b) == b.request = {} /\ b.fleets = {} /\ b.kill = {} /\ b.spare = {}
NoLaunch(b) == b.job = NoJob /\ b.new = {}

SameRequest(b, c) == b.request = c.request /\ b.fleets = c.fleets /\ b.kill = c.kill /\ b.spare = c.spare
SameLaunch(b, c) == b.pending = c.pending /\ b.job = c.job /\ b.new = c.new

\* With nothing in hand.
LEMMA Empty ==
  /\ \A l \in Labels : AtLabel(l) \in BastionState
  /\ \A l : LET b == AtLabel(l) IN
       /\ b.pc = l /\ b.todo = {} /\ NoDocs(b) /\ NoneSeen(b) /\ NoPuts(b)
       /\ NoRequest(b) /\ b.pending = {} /\ NoLaunch(b)
BY Documents DEF AtLabel, BastionState, NoDocs, NoneSeen, NoPuts, NoRequest, NoLaunch

\* With the RUNNING documents.
LEMMA WithDocs ==
  ASSUME NEW r \in BastionState, NEW T \in SUBSET Jobs, NEW D \in [Jobs -> Document]
  PROVE  LET s == [r EXCEPT !.todo = T, !.docs = D] IN
         /\ s \in BastionState
         /\ s.pc = r.pc /\ s.todo = T /\ s.docs = D /\ s.seen = r.seen /\ s.puts = r.puts
         /\ SameRequest(s, r) /\ SameLaunch(s, r)
BY DEF BastionState, SameRequest, SameLaunch

\* With the states of their instances.
LEMMA WithSeen ==
  ASSUME NEW r \in BastionState, NEW S \in [Instances -> Status \cup {Absent}]
  PROVE  LET s == [r EXCEPT !.pc = "fleets", !.seen = S] IN
         /\ s \in BastionState
         /\ s.pc = "fleets" /\ s.todo = r.todo /\ s.docs = r.docs /\ s.seen = S /\ s.puts = r.puts
         /\ SameRequest(s, r) /\ SameLaunch(s, r)
BY DEF BastionState, Labels, SameRequest, SameLaunch

\* With the statuses to write.
LEMMA WithPuts ==
  ASSUME NEW r \in BastionState, NEW T \in SUBSET Jobs, NEW P \in [Jobs -> Seq(Status)]
  PROVE  LET s == [r EXCEPT !.pc = "put", !.todo = T, !.puts = P,
                            !.seen = [i \in Instances |-> Absent]] IN
         /\ s \in BastionState
         /\ s.pc = "put" /\ s.todo = T /\ s.docs = r.docs /\ NoneSeen(s) /\ s.puts = P
         /\ SameRequest(s, r) /\ SameLaunch(s, r)
BY DEF BastionState, Labels, NoneSeen, SameRequest, SameLaunch

\* With the statuses that are left.
LEMMA WithRest ==
  ASSUME NEW r \in BastionState, NEW T \in SUBSET Jobs, NEW j \in Jobs, NEW q \in Seq(Status)
  PROVE  LET s == [r EXCEPT !.todo = T, !.puts[j] = q] IN
         /\ s \in BastionState
         /\ s.pc = r.pc /\ s.todo = T /\ s.docs = r.docs /\ s.seen = r.seen
         /\ s.puts = [r.puts EXCEPT ![j] = q]
         /\ SameRequest(s, r) /\ SameLaunch(s, r)
BY DEF BastionState, SameRequest, SameLaunch

\* With a request.
LEMMA WithRequest ==
  ASSUME NEW r \in BastionState, NEW S \in SUBSET Jobs
  PROVE  LET s == [r EXCEPT !.todo = S, !.request = S] IN
         /\ s \in BastionState
         /\ s.pc = r.pc /\ s.todo = S /\ s.docs = r.docs /\ s.seen = r.seen /\ s.puts = r.puts
         /\ s.request = S /\ s.fleets = r.fleets /\ s.kill = r.kill /\ s.spare = r.spare
         /\ SameLaunch(s, r)
BY DEF BastionState, SameLaunch

\* With what a job of the request names.
LEMMA WithKill ==
  ASSUME NEW r \in BastionState, NEW T \in SUBSET Jobs, NEW K \in SUBSET Instances,
         NEW A \in SUBSET Instances, NEW F \in SUBSET Jobs
  PROVE  LET s == [r EXCEPT !.todo = T, !.pc = IF T = {} THEN "delete_fleets" ELSE @,
                            !.kill = @ \cup K, !.spare = @ \cup A, !.fleets = @ \cup F] IN
         /\ s \in BastionState
         /\ s.pc = (IF T = {} THEN "delete_fleets" ELSE r.pc) /\ s.todo = T
         /\ s.docs = r.docs /\ s.seen = r.seen /\ s.puts = r.puts
         /\ s.request = r.request /\ s.fleets = r.fleets \cup F
         /\ s.kill = r.kill \cup K /\ s.spare = r.spare \cup A
         /\ SameLaunch(s, r)
BY DEF BastionState, Labels, SameLaunch

\* With the fleets deleted.
LEMMA WithoutFleets ==
  ASSUME NEW r \in BastionState, NEW K \in SUBSET Instances
  PROVE  LET s == [r EXCEPT !.pc = "terminate", !.fleets = {}, !.spare = {}, !.kill = @ \cup K] IN
         /\ s \in BastionState
         /\ s.pc = "terminate" /\ s.todo = r.todo
         /\ s.docs = r.docs /\ s.seen = r.seen /\ s.puts = r.puts
         /\ s.request = r.request /\ s.fleets = {} /\ s.kill = r.kill \cup K /\ s.spare = {}
         /\ SameLaunch(s, r)
BY DEF BastionState, Labels, SameLaunch

\* With the instances terminated.
LEMMA WithoutKill ==
  ASSUME NEW r \in BastionState
  PROVE  LET s == [r EXCEPT !.pc = "delete_cancel", !.kill = {}] IN
         /\ s \in BastionState
         /\ s.pc = "delete_cancel" /\ s.todo = r.todo
         /\ s.docs = r.docs /\ s.seen = r.seen /\ s.puts = r.puts
         /\ s.request = r.request /\ s.fleets = r.fleets /\ s.kill = {} /\ s.spare = r.spare
         /\ SameLaunch(s, r)
BY DEF BastionState, Labels, SameLaunch

\* With the jobs to check.
LEMMA WithTodo ==
  ASSUME NEW r \in BastionState, NEW T \in SUBSET Jobs
  PROVE  LET s == [r EXCEPT !.todo = T] IN
         /\ s \in BastionState
         /\ s.pc = r.pc /\ s.todo = T /\ s.docs = r.docs /\ s.seen = r.seen /\ s.puts = r.puts
         /\ SameRequest(s, r) /\ SameLaunch(s, r)
BY DEF BastionState, SameRequest, SameLaunch

\* The bastion r with the jobs to check and those found pending, with the
\* pending jobs, with a job to launch, and with new instances.
PendingIn(r, T, P) == [r EXCEPT !.todo = T, !.pending = P]
AllPendingIn(r, P) == [r EXCEPT !.pending = P]
JobIn(r, P, j) == [r EXCEPT !.pending = P, !.job = j]
NewIn(r, N) == [r EXCEPT !.pc = "record", !.new = N]

\* With the jobs to check, and those found pending.
LEMMA WithPending ==
  ASSUME NEW r \in BastionState, NEW T \in SUBSET Jobs, NEW P \in SUBSET Jobs
  PROVE  LET s == PendingIn(r, T, P) IN
         /\ s \in BastionState
         /\ s.pc = r.pc /\ s.todo = T /\ s.docs = r.docs /\ s.seen = r.seen /\ s.puts = r.puts
         /\ SameRequest(s, r) /\ s.pending = P /\ s.job = r.job /\ s.new = r.new
BY DEF PendingIn, BastionState, SameRequest

\* With the pending jobs.
LEMMA WithAllPending ==
  ASSUME NEW r \in BastionState, NEW P \in SUBSET Jobs
  PROVE  LET s == AllPendingIn(r, P) IN
         /\ s \in BastionState
         /\ s.pc = r.pc /\ s.todo = r.todo /\ s.docs = r.docs /\ s.seen = r.seen /\ s.puts = r.puts
         /\ SameRequest(s, r) /\ s.pending = P /\ s.job = r.job /\ s.new = r.new
BY DEF AllPendingIn, BastionState, SameRequest

\* With a job to launch.
LEMMA WithJob ==
  ASSUME NEW r \in BastionState, NEW P \in SUBSET Jobs, NEW j \in Jobs
  PROVE  LET s == JobIn(r, P, j) IN
         /\ s \in BastionState
         /\ s.pc = r.pc /\ s.todo = r.todo /\ s.docs = r.docs /\ s.seen = r.seen /\ s.puts = r.puts
         /\ SameRequest(s, r) /\ s.pending = P /\ s.job = j /\ s.new = r.new
BY DEF JobIn, BastionState, SameRequest

\* With new instances.
LEMMA WithNew ==
  ASSUME NEW r \in BastionState, NEW N \in SUBSET Instances
  PROVE  LET s == NewIn(r, N) IN
         /\ s \in BastionState
         /\ s.pc = "record" /\ s.todo = r.todo /\ s.docs = r.docs /\ s.seen = r.seen /\ s.puts = r.puts
         /\ SameRequest(s, r) /\ s.pending = r.pending /\ s.job = r.job /\ s.new = N
BY DEF NewIn, BastionState, Labels, SameRequest

\* With the launch template.
LEMMA WithTemplate ==
  ASSUME NEW r \in BastionState
  PROVE  LET s == [r EXCEPT !.pc = "create_fleet"] IN
         /\ s \in BastionState
         /\ s.pc = "create_fleet" /\ s.todo = r.todo /\ s.docs = r.docs /\ s.seen = r.seen
         /\ s.puts = r.puts /\ SameRequest(s, r) /\ SameLaunch(s, r)
BY DEF BastionState, Labels, SameRequest, SameLaunch

-----------------------------------------------------------------------------
(* The inductive invariant of the books: what the documents, the bastion,  *)
(* the client and EC2 agree on whatever goes wrong.                        *)

Following  == {"describe", "fleets", "put"}
Cancelling == {"collect", "delete_fleets", "terminate", "delete_cancel"}
Starting   == {"launch", "create_fleet", "record"}

\* What the bastion holds belongs to the place where it is.
FollowPlaced(b) ==
  /\ b.pc \notin Following => NoDocs(b)
  /\ b.pc # "fleets" => NoneSeen(b)
  /\ b.pc # "put" => NoPuts(b)
  /\ b.pc = "put" => b.todo # {} /\ \A j \in Jobs : j \in b.todo <=> b.puts[j] # << >>

CancelPlaced(b) ==
  /\ b.pc \notin Cancelling => NoRequest(b)
  /\ b.pc = "collect" => b.todo \subseteq b.request
  /\ b.pc \in {"terminate", "delete_cancel"} => b.fleets = {}
  /\ b.pc = "delete_cancel" => b.kill = {}
  /\ b.fleets \subseteq b.request

StartPlaced(b) ==
  /\ b.pc \notin Starting \cup {"check", "submitting"} => b.pending = {}
  /\ b.pc \in Starting <=> b.job # NoJob
  /\ b.pc = "record" <=> b.new # {}
  /\ b.job \notin b.pending

Placed(b) == FollowPlaced(b) /\ CancelPlaced(b) /\ StartPlaced(b)

\* A document names instances of its job only, and the fleet only once there is
\* one.
DocSound(j, d) ==
  /\ d.instance_id # NoInstance => owner[d.instance_id] = j
  /\ d.all_instance_ids \subseteq Workers(j)
  /\ d.fleet_request_id => use_spot_fleet /\ fleet[j] # "none"
  /\ use_spot_fleet /\ d.instance_id # NoInstance => d.fleet_request_id
  /\ d.all_instance_ids # {} => d.fleet_request_id /\ d.instance_id # NoInstance

DocsSound == \A j \in Jobs : DocSound(j, status_params[j]) /\ DocSound(j, bastion.docs[j])

\* The bastion terminates the instances of canceled jobs, and records those of
\* the job it launches.
HeldSound ==
  /\ \A i \in bastion.kill \cup bastion.spare : owner[i] \in bastion.request
  /\ \A i \in bastion.new : owner[i] = bastion.job
  /\ ~use_spot_fleet => \A i, k \in bastion.new : i = k
  /\ bastion.pc = "create_fleet" \/ bastion.fleets # {} => use_spot_fleet

\* Which workers EC2 has.
LiveOf(j) == {i \in Workers(j) : ec2[i] \in Live}

CloudSound ==
  /\ \A i \in Instances : ec2[i] = "unused" <=> owner[i] = NoJob
  /\ \A i \in finished : ec2[i] \notin Live /\ owner[i] # NoJob
  /\ ~use_spot_fleet => \A j \in Jobs : fleet[j] = "none"
  /\ use_spot_fleet => \A j \in Jobs : /\ fleet[j] \in {"none", "failed"} => Workers(j) = {}
                                       /\ fleet[j] = "active" => Workers(j) # {}
                                       /\ fleet[j] # "active" => LiveOf(j) = {}

\* What the client has tracked, canceled or asked for was submitted; the record
\* of a canceled job says so.
Submitting(j) == client.op = "submit" /\ client.job = j
Deleting(j) == client.op \in {"delete_jobs", "delete_status"} /\ client.job = j

ClientSound ==
  /\ cancel_param \cup bastion.request \subseteq canceled
  /\ canceled \subseteq submitted /\ job_params \subseteq submitted
  /\ \A j \in Jobs : Tracked(j) => j \in submitted
  /\ \A j \in canceled : resources[j].status \in {"CANCELED", Absent}
  /\ \A j \in Jobs : resources[j].fleet_request_id => use_spot_fleet /\ fleet[j] # "none"
  /\ client.op # "idle" => client.job \in submitted
  /\ \A j \in Jobs : Submitting(j) => ~Tracked(j) /\ j \in job_params /\ j \notin canceled

\* The client has nothing more to learn of the job: it canceled it, cleans it
\* up, or has no record of it.
Left(j) == \/ j \in canceled
           \/ Deleting(j)
           \/ j \in submitted /\ ~Submitting(j) /\ ~Tracked(j)

\* A fleet is deleted only for a job the client has left.
FleetsLeft == \A j \in Jobs : fleet[j] = "deleted" => Left(j)

BookInv == /\ TypeOK /\ Placed(bastion) /\ DocsSound /\ HeldSound /\ CloudSound /\ ClientSound
           /\ FleetsLeft

-----------------------------------------------------------------------------
(* The steps of the bastion.                                               *)

\* The documents update_running_job_status() reads.
ReadBy(b) ==
  /\ b.pc = "describe"
  /\ b.todo = {j \in Jobs : status_params[j].status = "RUNNING"}
  /\ b.docs = [j \in Jobs |-> IF status_params[j].status = "RUNNING" THEN status_params[j]
                              ELSE NoDocument]
  /\ NoneSeen(b) /\ NoPuts(b) /\ NoRequest(b) /\ b.pending = {} /\ NoLaunch(b)

\* Where UpdateRead leads: no job runs, or the documents of those that do are read.
LEMMA UpdateReadTo ==
  ASSUME TypeOK, UpdateRead
  PROVE  bastion' \in BastionState /\ (bastion' = AtLabel("cancel") \/ ReadBy(bastion'))
<1> DEFINE T == {j \in Jobs : status_params[j].status = "RUNNING"}
           D == [j \in Jobs |-> IF j \in T THEN status_params[j] ELSE NoDocument]
           r == AtLabel("describe")
<1>1. bastion' = IF T = {} THEN AtLabel("cancel") ELSE [r EXCEPT !.todo = T, !.docs = D]
  BY DEF UpdateRead
<1>2. /\ r \in BastionState /\ AtLabel("cancel") \in BastionState
      /\ r.pc = "describe" /\ NoneSeen(r) /\ NoPuts(r) /\ NoRequest(r) /\ r.pending = {} /\ NoLaunch(r)
  BY Empty DEF Labels
<1>3. T \in SUBSET Jobs /\ D \in [Jobs -> Document]
  BY Documents, TypeParts DEF ParamsOK
<1>4. D = [j \in Jobs |-> IF status_params[j].status = "RUNNING" THEN status_params[j]
                          ELSE NoDocument]
  OBVIOUS
<1> HIDE DEF r, D
<1>5. LET s == [r EXCEPT !.todo = T, !.docs = D] IN
      /\ s \in BastionState
      /\ s.pc = r.pc /\ s.todo = T /\ s.docs = D /\ s.seen = r.seen /\ s.puts = r.puts
      /\ SameRequest(s, r) /\ SameLaunch(s, r)
  BY <1>2, <1>3, WithDocs, Zenon
<1>6. CASE T = {}
  BY <1>1, <1>2, <1>6
<1>7. CASE T # {}
  BY <1>1, <1>2, <1>4, <1>5, <1>7 DEF ReadBy, NoneSeen, NoPuts, NoRequest, NoLaunch, SameRequest, SameLaunch
<1>8. QED
  BY <1>6, <1>7

\* The instances of the batch describe_instances() is asked for.
Described == {bastion.docs[j].instance_id : j \in bastion.todo} \ {NoInstance}

\* They have been launched, so that EC2 answers with a state for each.
LEMMA DescribedLaunched ==
  ASSUME BookInv
  PROVE  /\ Described \in SUBSET Instances
         /\ \A i \in Described : owner[i] \in Jobs /\ ec2[i] # "unused"
<1>1. bastion.todo \subseteq Jobs /\ bastion.docs \in [Jobs -> Document]
  BY DEF BookInv, TypeOK, BastionState
<1>2. ASSUME NEW i \in Described
      PROVE  i \in Instances /\ owner[i] \in Jobs /\ ec2[i] # "unused"
  <2>1. PICK j \in bastion.todo : i = bastion.docs[j].instance_id /\ i # NoInstance
    BY DEF Described
  <2>2. i \in Instances
    BY <1>1, <2>1 DEF Document
  <2>3. owner[i] = j
    BY <1>1, <2>1 DEF BookInv, DocsSound, DocSound
  <2>4. QED
    BY <1>1, <2>1, <2>2, <2>3, DetachedAssumption DEF BookInv, CloudSound
<1>3. QED
  BY <1>2

\* The states of the instances of S, as EC2_STATUS_MAPPING names them.
LEMMA Statuses ==
  ASSUME CloudOK, NEW S \in SUBSET Instances, \A i \in S : ec2[i] # "unused"
  PROVE  /\ InstanceStatuses(S) \in [Instances -> Status \cup {Absent}]
         /\ \A i \in Instances \ S : InstanceStatuses(S)[i] = Absent
         /\ \A i \in S : \/ InstanceStatuses(S)[i] = "COMPLETED" /\ \E k \in S : ec2[k] = "gone"
                         \/ ec2[i] = "pending" /\ InstanceStatuses(S)[i] = "PENDING"
                         \/ ec2[i] = "running" /\ InstanceStatuses(S)[i] = "RUNNING"
                         \/ ec2[i] = "shutting-down" /\ InstanceStatuses(S)[i] = "CANCELED"
                         \/ ec2[i] = "terminated" /\ InstanceStatuses(S)[i] = "COMPLETED"
<1>1. ASSUME NEW i \in Instances
      PROVE  /\ InstanceStatuses(S)[i] \in Status \cup {Absent}
             /\ i \notin S => InstanceStatuses(S)[i] = Absent
             /\ i \in S => \/ InstanceStatuses(S)[i] = "COMPLETED" /\ \E k \in S : ec2[k] = "gone"
                           \/ ec2[i] = "pending" /\ InstanceStatuses(S)[i] = "PENDING"
                           \/ ec2[i] = "running" /\ InstanceStatuses(S)[i] = "RUNNING"
                           \/ ec2[i] = "shutting-down" /\ InstanceStatuses(S)[i] = "CANCELED"
                           \/ ec2[i] = "terminated" /\ InstanceStatuses(S)[i] = "COMPLETED"
  <2>1. CASE i \notin S
    BY <2>1 DEF InstanceStatuses
  <2>2. CASE i \in S /\ \E k \in S : ec2[k] = "gone"
    BY <2>2 DEF InstanceStatuses, Status
  <2>3. CASE i \in S /\ ~\E k \in S : ec2[k] = "gone"
    <3>1. InstanceStatuses(S)[i] = MappedStatus(ec2[i])
      BY <2>3 DEF InstanceStatuses
    <3>2. ec2[i] \in {"pending", "running", "shutting-down", "terminated"}
      BY <2>3 DEF CloudOK, Ec2States
    <3>3. QED
      BY <2>3, <3>1, <3>2 DEF MappedStatus, Status
  <2>4. QED
    BY <2>1, <2>2, <2>3
<1>2. QED
  BY <1>1 DEF InstanceStatuses

SeenBy(b) ==
  /\ b.pc = "fleets" /\ b.todo = bastion.todo /\ b.docs = bastion.docs /\ b.puts = bastion.puts
  /\ b.seen = InstanceStatuses(Described)
  /\ SameRequest(b, bastion) /\ SameLaunch(b, bastion)

\* Where DescribeInstances leads: on with what EC2 said, or out on an error.
LEMMA DescribeInstancesTo ==
  ASSUME BookInv, DescribeInstances
  PROVE  /\ bastion' \in BastionState
         /\ \/ bastion' = AtLabel("cancel")
            \/ /\ SeenBy(bastion')
               /\ Happen(IfSo(\E i \in Described : ec2[i] = "pending", "slow_boot")
                         \cup IfSo(\E i \in Described \cap finished : ec2[i] = "shutting-down",
                                   "slow_stop"))
<1>1. CASE bastion' = AtLabel("cancel")
  BY <1>1, Empty DEF Labels
<1>2. CASE /\ bastion' = [bastion EXCEPT !.pc = "fleets", !.seen = InstanceStatuses(Described)]
           /\ Happen(IfSo(\E i \in Described : ec2[i] = "pending", "slow_boot")
                     \cup IfSo(\E i \in Described \cap finished : ec2[i] = "shutting-down", "slow_stop"))
  <2>1. bastion \in BastionState /\ InstanceStatuses(Described) \in [Instances -> Status \cup {Absent}]
    BY DescribedLaunched, Statuses, TypeParts DEF BookInv
  <2>2. PICK S : S = InstanceStatuses(Described)
    OBVIOUS
  <2>3. S \in [Instances -> Status \cup {Absent}]
    BY <2>1, <2>2
  <2>4. LET s == [bastion EXCEPT !.pc = "fleets", !.seen = S] IN
         /\ s \in BastionState
         /\ s.pc = "fleets" /\ s.todo = bastion.todo /\ s.docs = bastion.docs /\ s.seen = S /\ s.puts = bastion.puts
         /\ SameRequest(s, bastion) /\ SameLaunch(s, bastion)
    BY <2>1, <2>3, WithSeen, Zenon
  <2>5. QED
    BY <1>2, <2>2, <2>4 DEF SeenBy
<1>3. QED
  BY <1>1, <1>2 DEF DescribeInstances, Described

\* Which statuses a sequence of puts has.
Has(q, s) == \E n \in 1 .. Len(q) : q[n] = s

\* The sequences of at most two statuses.
LEMMA Sequences_ ==
  /\ << >> \in Seq(Status) /\ \A s : ~Has(<< >>, s)
  /\ \A s \in Status : <<s>> \in Seq(Status) /\ \A u : Has(<<s>>, u) => u = s
  /\ \A s, t \in Status : <<s>> \o <<t>> \in Seq(Status) /\ \A u : Has(<<s>> \o <<t>>, u) => u = s \/ u = t
  /\ \A s \in Status : <<s>> \o << >> \in Seq(Status) /\ \A u : Has(<<s>> \o << >>, u) => u = s
BY DEF Has

\* The head and the tail of a sequence of statuses.
LEMMA HeadTail ==
  ASSUME NEW q \in Seq(Status), q # << >>
  PROVE  /\ Head(q) \in Status /\ Has(q, Head(q))
         /\ Tail(q) \in Seq(Status) /\ \A s : Has(Tail(q), s) => Has(q, s)
BY DEF Has

\* The statuses update_running_job_status() finds for a job are its instance's,
\* unless RUNNING, and its fleet's; only those of a fleet that does not run.
LEMMA NewOnes ==
  ASSUME TypeOK, NEW j \in Jobs, NEW U \in SUBSET Jobs
  PROVE  LET q   == NewStatuses(j, U)
             doc == bastion.docs[j]
             fs  == FleetStatus(j, U)
         IN /\ q \in Seq(Status)
            /\ \A s : Has(q, s) => \/ /\ doc.instance_id # NoInstance
                                      /\ s = bastion.seen[doc.instance_id] /\ s \notin {"RUNNING", Absent}
                                   \/ doc.fleet_request_id /\ s = fs
            /\ q # << >> => \/ /\ ~doc.fleet_request_id /\ doc.instance_id # NoInstance
                               /\ bastion.seen[doc.instance_id] \notin {"RUNNING", Absent}
                            \/ doc.fleet_request_id /\ fs # "RUNNING"
<1> DEFINE doc == bastion.docs[j]
           primary == IF doc.instance_id = NoInstance THEN Absent ELSE bastion.seen[doc.instance_id]
           fs == FleetStatus(j, U)
           ofInstance == IF primary \in {"RUNNING", Absent} THEN << >> ELSE <<primary>>
           q == NewStatuses(j, U)
<1>1. bastion.docs \in [Jobs -> Document] /\ bastion.seen \in [Instances -> Status \cup {Absent}]
  BY DEF TypeOK, BastionState
<1>2. primary \in Status \cup {Absent}
  BY <1>1 DEF Document
<1>3. fs \in Status
  BY DEF FleetStatus, Status, TypeOK
<1>4. q = IF ~doc.fleet_request_id THEN ofInstance
          ELSE IF fs = "RUNNING" THEN << >> ELSE <<fs>> \o ofInstance
  BY DEF NewStatuses
<1>5. ofInstance = << >> \/ (primary \in Status \ {"RUNNING"} /\ ofInstance = <<primary>>)
  BY <1>2
<1>6. primary # Absent => doc.instance_id # NoInstance /\ primary = bastion.seen[doc.instance_id]
  OBVIOUS
<1>7. Absent \notin Status
  BY Documents
<1> HIDE DEF doc, primary, fs, ofInstance, q
<1>8. /\ q \in Seq(Status)
      /\ \A s : Has(q, s) => \/ /\ doc.instance_id # NoInstance
                                /\ s = bastion.seen[doc.instance_id] /\ s \notin {"RUNNING", Absent}
                             \/ doc.fleet_request_id /\ s = fs
      /\ q # << >> => \/ /\ ~doc.fleet_request_id /\ doc.instance_id # NoInstance
                         /\ bastion.seen[doc.instance_id] \notin {"RUNNING", Absent}
                      \/ doc.fleet_request_id /\ fs # "RUNNING"
  <2>1. CASE q = << >>
    BY <2>1, Sequences_
  <2>2. CASE ~doc.fleet_request_id /\ primary \in Status \ {"RUNNING"} /\ q = <<primary>>
    BY <1>6, <1>7, <2>2, Sequences_
  <2>3. CASE doc.fleet_request_id /\ fs # "RUNNING" /\ q = <<fs>> \o << >>
    BY <1>3, <2>3, Sequences_
  <2>4. CASE doc.fleet_request_id /\ fs # "RUNNING" /\ primary \in Status \ {"RUNNING"}
              /\ q = <<fs>> \o <<primary>>
    BY <1>3, <1>6, <1>7, <2>4, Sequences_
  <2>5. QED
    BY <1>4, <1>5, <2>1, <2>2, <2>3, <2>4
<1>9. QED
  BY <1>8 DEF q, doc, fs

\* The puts of the jobs in b.todo; get_fleet_instance_ids() failed for those in U.
ToPut(b, U) ==
  /\ b.pc = "put" /\ b.docs = bastion.docs /\ NoneSeen(b)
  /\ b.puts = [j \in Jobs |-> IF j \in bastion.todo THEN NewStatuses(j, U) ELSE << >>]
  /\ b.todo = {j \in Jobs : b.puts[j] # << >>} /\ b.todo # {}
  /\ SameRequest(b, bastion) /\ SameLaunch(b, bastion)

\* Where DescribeFleets leads: to the puts of what was found, or to the cancellations.
LEMMA DescribeFleetsTo ==
  ASSUME TypeOK, DescribeFleets
  PROVE  /\ bastion' \in BastionState
         /\ \/ bastion' = AtLabel("cancel")
            \/ \E U \in SUBSET Jobs : ToPut(bastion', U) /\ Happen(IfSo(U # {}, "list"))
<1>1. CASE bastion' = AtLabel("cancel")
  BY <1>1, Empty DEF Labels
<1>2. ASSUME NEW U \in SUBSET {j \in bastion.todo : bastion.docs[j].fleet_request_id},
             NEW P, P = [j \in Jobs |-> IF j \in bastion.todo THEN NewStatuses(j, U) ELSE << >>],
             NEW T, T = {j \in Jobs : P[j] # << >>}, T # {},
             bastion' = [bastion EXCEPT !.pc = "put", !.todo = T, !.puts = P,
                                        !.seen = [i \in Instances |-> Absent]]
      PROVE  bastion' \in BastionState /\ U \in SUBSET Jobs /\ ToPut(bastion', U)
  <2>1. bastion \in BastionState /\ bastion.todo \subseteq Jobs
    BY DEF TypeOK, BastionState
  <2>2. U \in SUBSET Jobs
    BY <2>1
  <2>3. \A j \in Jobs : NewStatuses(j, U) \in Seq(Status)
    BY <2>2, NewOnes
  <2>4. P \in [Jobs -> Seq(Status)] /\ T \in SUBSET Jobs
    BY <1>2, <2>3, Sequences_
  <2>5. LET s == [bastion EXCEPT !.pc = "put", !.todo = T, !.puts = P,
                                 !.seen = [i \in Instances |-> Absent]] IN
         /\ s \in BastionState
         /\ s.pc = "put" /\ s.todo = T /\ s.docs = bastion.docs /\ NoneSeen(s) /\ s.puts = P
         /\ SameRequest(s, bastion) /\ SameLaunch(s, bastion)
    BY <2>1, <2>4, WithPuts, Zenon
  <2>6. QED
    BY <1>2, <2>2, <2>5 DEF ToPut
<1>3. ASSUME NEW U \in SUBSET {j \in bastion.todo : bastion.docs[j].fleet_request_id},
             Happen(IfSo(U # {}, "list")),
             LET puts    == [j \in Jobs |-> IF j \in bastion.todo THEN NewStatuses(j, U) ELSE << >>]
                 changed == {j \in Jobs : puts[j] # << >>}
             IN bastion' = IF changed = {} THEN AtLabel("cancel")
                           ELSE [bastion EXCEPT !.pc = "put", !.todo = changed,
                                   !.puts = puts, !.seen = [i \in Instances |-> Absent]]
      PROVE  \/ bastion' = AtLabel("cancel")
             \/ bastion' \in BastionState /\ U \in SUBSET Jobs /\ ToPut(bastion', U)
  <2>1. PICK P : P = [j \in Jobs |-> IF j \in bastion.todo THEN NewStatuses(j, U) ELSE << >>]
    OBVIOUS
  <2>2. PICK T : T = {j \in Jobs : P[j] # << >>}
    OBVIOUS
  <2>3. bastion' = IF T = {} THEN AtLabel("cancel")
                   ELSE [bastion EXCEPT !.pc = "put", !.todo = T, !.puts = P,
                                        !.seen = [i \in Instances |-> Absent]]
    BY <1>3, <2>1, <2>2
  <2>4. QED
    BY <1>2, <2>1, <2>2, <2>3
<1>4. QED
  BY <1>1, <1>3 DEF DescribeFleets

\* PutChanged puts the first status of one job, and drops it from the puts to come.
LEMMA PutChangedTo ==
  ASSUME TypeOK, FollowPlaced(bastion), PutChanged
  PROVE  /\ bastion' \in BastionState
         /\ \E j \in bastion.todo :
              /\ j \in Jobs /\ bastion.puts[j] \in Seq(Status) /\ bastion.puts[j] # << >>
              /\ PutStatus(j, [bastion.docs[j] EXCEPT !.status = Head(bastion.puts[j])], {})
              /\ \/ bastion' = AtLabel("cancel")
                 \/ /\ bastion'.pc = "put" /\ bastion'.docs = bastion.docs /\ bastion'.seen = bastion.seen
                    /\ bastion'.puts = [bastion.puts EXCEPT ![j] = Tail(bastion.puts[j])]
                    /\ bastion'.todo = IF Tail(bastion.puts[j]) = << >> THEN bastion.todo \ {j}
                                       ELSE bastion.todo
                    /\ bastion'.todo # {}
                    /\ SameRequest(bastion', bastion) /\ SameLaunch(bastion', bastion)
<1>1. PICK j \in bastion.todo :
         LET rest == Tail(bastion.puts[j])
             left == IF rest = << >> THEN bastion.todo \ {j} ELSE bastion.todo
         IN /\ PutStatus(j, [bastion.docs[j] EXCEPT !.status = Head(bastion.puts[j])], {})
            /\ bastion' = IF left = {} THEN AtLabel("cancel")
                          ELSE [bastion EXCEPT !.todo = left, !.puts[j] = rest]
  BY DEF PutChanged
<1>2. /\ bastion \in BastionState /\ bastion.pc = "put" /\ bastion.todo \subseteq Jobs
      /\ bastion.puts \in [Jobs -> Seq(Status)]
  BY DEF TypeOK, BastionState, PutChanged
<1>3. j \in Jobs /\ bastion.puts[j] \in Seq(Status) /\ bastion.puts[j] # << >>
  BY <1>2 DEF FollowPlaced
<1>4. PICK q : q = Tail(bastion.puts[j])
  OBVIOUS
<1>5. PICK T : T = IF q = << >> THEN bastion.todo \ {j} ELSE bastion.todo
  OBVIOUS
<1>6. bastion' = IF T = {} THEN AtLabel("cancel") ELSE [bastion EXCEPT !.todo = T, !.puts[j] = q]
  BY <1>1, <1>4, <1>5
<1>7. q \in Seq(Status) /\ T \in SUBSET Jobs
  BY <1>2, <1>3, <1>4, <1>5, HeadTail
<1>8. LET s == [bastion EXCEPT !.todo = T, !.puts[j] = q] IN
         /\ s \in BastionState
         /\ s.pc = bastion.pc /\ s.todo = T /\ s.docs = bastion.docs /\ s.seen = bastion.seen
         /\ s.puts = [bastion.puts EXCEPT ![j] = q]
         /\ SameRequest(s, bastion) /\ SameLaunch(s, bastion)
  BY <1>2, <1>3, <1>7, WithRest, Zenon
<1>9. CASE T = {}
  <2>1. bastion' = AtLabel("cancel")
    BY <1>6, <1>9
  <2>2. bastion' \in BastionState
    BY <2>1, Empty DEF Labels
  <2>3. QED
    BY <1>1, <1>3, <2>1, <2>2
<1>10. CASE T # {}
  <2>1. bastion' = [bastion EXCEPT !.todo = T, !.puts[j] = q]
    BY <1>6, <1>10
  <2>2. /\ bastion' \in BastionState
        /\ bastion'.pc = "put" /\ bastion'.docs = bastion.docs /\ bastion'.seen = bastion.seen
        /\ bastion'.puts = [bastion.puts EXCEPT ![j] = q]
        /\ bastion'.todo = T /\ T # {}
        /\ SameRequest(bastion', bastion) /\ SameLaunch(bastion', bastion)
    BY <1>2, <1>8, <1>10, <2>1
  <2>3. QED
    BY <1>1, <1>3, <1>4, <1>5, <2>2
<1>11. QED
  BY <1>9, <1>10

\* CancelRead takes every job of the parameter, or there is none.
LEMMA CancelReadTo ==
  ASSUME TypeOK, CancelRead
  PROVE  /\ bastion' \in BastionState
         /\ \/ bastion' = AtLabel("list")
            \/ /\ bastion'.pc = "collect" /\ bastion'.todo = cancel_param /\ bastion'.request = cancel_param
               /\ NoDocs(bastion') /\ NoneSeen(bastion') /\ NoPuts(bastion')
               /\ bastion'.fleets = {} /\ bastion'.kill = {} /\ bastion'.spare = {}
               /\ bastion'.pending = {} /\ NoLaunch(bastion') /\ cancel_param # {}
<1>1. CASE bastion' = AtLabel("list")
  BY <1>1, Empty DEF Labels
<1>2. CASE cancel_param # {} /\ bastion' = [AtLabel("collect") EXCEPT !.todo = cancel_param,
                                                                     !.request = cancel_param]
  <2>1. PICK r : r = AtLabel("collect")
    OBVIOUS
  <2>2. /\ r \in BastionState /\ r.pc = "collect" /\ NoDocs(r) /\ NoneSeen(r) /\ NoPuts(r)
        /\ NoRequest(r) /\ r.pending = {} /\ NoLaunch(r)
    BY <2>1, Empty DEF Labels
  <2>3. cancel_param \in SUBSET Jobs
    BY DEF TypeOK
  <2>4. LET S == cancel_param
            s == [r EXCEPT !.todo = S, !.request = S] IN
         /\ s \in BastionState
         /\ s.pc = r.pc /\ s.todo = S /\ s.docs = r.docs /\ s.seen = r.seen /\ s.puts = r.puts
         /\ s.request = S /\ s.fleets = r.fleets /\ s.kill = r.kill /\ s.spare = r.spare
         /\ SameLaunch(s, r)
    BY <2>2, <2>3, WithRequest, Zenon
  <2>5. QED
    BY <1>2, <2>1, <2>2, <2>4 DEF NoDocs, NoneSeen, NoPuts, NoRequest, NoLaunch, SameLaunch
<1>3. QED
  BY <1>1, <1>2 DEF CancelRead

\* CollectJob collects one job's fleet and instances and puts CANCELED, or fails.
LEMMA CollectJobTo ==
  ASSUME TypeOK, CollectJob
  PROVE  /\ bastion' \in BastionState
         /\ \/ bastion' = AtLabel("list") /\ Happen({"call"}) /\ UNCHANGED status_params
            \/ \E j \in bastion.todo :
                 LET doc == status_params[j]
                     ids == {doc.instance_id} \ {NoInstance}
                 IN /\ j \in Jobs
                    /\ IF doc # NoDocument /\ (doc.fleet_request_id \/ ids # {})
                         THEN PutStatus(j, [doc EXCEPT !.status = "CANCELED"], {})
                         ELSE UNCHANGED status_params /\ Happen({})
                    /\ bastion'.todo = bastion.todo \ {j}
                    /\ bastion'.pc = (IF bastion'.todo = {} THEN "delete_fleets" ELSE "collect")
                    /\ bastion'.docs = bastion.docs /\ bastion'.seen = bastion.seen
                    /\ bastion'.puts = bastion.puts
                    /\ bastion'.request = bastion.request
                    /\ bastion'.kill = bastion.kill \cup ids
                    /\ bastion'.spare = bastion.spare \cup doc.all_instance_ids
                    /\ bastion'.fleets = bastion.fleets \cup IF doc.fleet_request_id THEN {j} ELSE {}
                    /\ SameLaunch(bastion', bastion)
<1>1. CASE bastion' = AtLabel("list") /\ Happen({"call"}) /\ UNCHANGED status_params
  BY <1>1, Empty DEF Labels
<1>2. ASSUME NEW j \in bastion.todo,
             LET doc   == status_params[j]
                 left  == bastion.todo \ {j}
                 ids   == {doc.instance_id} \ {NoInstance}
                 marks == doc.fleet_request_id \/ ids # {}
             IN /\ IF doc # NoDocument /\ marks
                     THEN PutStatus(j, [doc EXCEPT !.status = "CANCELED"], {})
                     ELSE UNCHANGED status_params /\ Happen({})
                /\ bastion' = [bastion EXCEPT
                     !.todo = left, !.pc = IF left = {} THEN "delete_fleets" ELSE @,
                     !.kill = @ \cup ids, !.spare = @ \cup doc.all_instance_ids,
                     !.fleets = @ \cup IF doc.fleet_request_id THEN {j} ELSE {}]
      PROVE  /\ bastion' \in BastionState
             /\ LET doc == status_params[j]
                    ids == {doc.instance_id} \ {NoInstance}
                IN /\ j \in Jobs
                   /\ IF doc # NoDocument /\ (doc.fleet_request_id \/ ids # {})
                        THEN PutStatus(j, [doc EXCEPT !.status = "CANCELED"], {})
                        ELSE UNCHANGED status_params /\ Happen({})
                   /\ bastion'.todo = bastion.todo \ {j}
                   /\ bastion'.pc = (IF bastion'.todo = {} THEN "delete_fleets" ELSE "collect")
                   /\ bastion'.docs = bastion.docs /\ bastion'.seen = bastion.seen
                   /\ bastion'.puts = bastion.puts
                   /\ bastion'.request = bastion.request
                   /\ bastion'.kill = bastion.kill \cup ids
                   /\ bastion'.spare = bastion.spare \cup doc.all_instance_ids
                   /\ bastion'.fleets = bastion.fleets \cup IF doc.fleet_request_id THEN {j} ELSE {}
                   /\ SameLaunch(bastion', bastion)
  <2>1. PICK T, K, A, F : /\ T = bastion.todo \ {j} /\ K = {status_params[j].instance_id} \ {NoInstance}
                          /\ A = status_params[j].all_instance_ids
                          /\ F = IF status_params[j].fleet_request_id THEN {j} ELSE {}
    OBVIOUS
  <2>2. bastion \in BastionState /\ bastion.pc = "collect" /\ bastion.todo \subseteq Jobs /\ j \in Jobs
        /\ status_params[j] \in Document
    BY DEF TypeOK, BastionState, CollectJob
  <2>3. T \in SUBSET Jobs /\ K \in SUBSET Instances /\ A \in SUBSET Instances /\ F \in SUBSET Jobs
    BY <2>1, <2>2 DEF Document
  <2>4. bastion' = [bastion EXCEPT !.todo = T, !.pc = IF T = {} THEN "delete_fleets" ELSE @,
                            !.kill = @ \cup K, !.spare = @ \cup A, !.fleets = @ \cup F]
    BY <1>2, <2>1
  <2>5. LET s == [bastion EXCEPT !.todo = T, !.pc = IF T = {} THEN "delete_fleets" ELSE @,
                            !.kill = @ \cup K, !.spare = @ \cup A, !.fleets = @ \cup F] IN
         /\ s \in BastionState
         /\ s.pc = (IF T = {} THEN "delete_fleets" ELSE bastion.pc) /\ s.todo = T
         /\ s.docs = bastion.docs /\ s.seen = bastion.seen /\ s.puts = bastion.puts
         /\ s.request = bastion.request /\ s.fleets = bastion.fleets \cup F
         /\ s.kill = bastion.kill \cup K /\ s.spare = bastion.spare \cup A
         /\ SameLaunch(s, bastion)
    BY <2>2, <2>3, WithKill, Zenon
  <2>6. /\ bastion' \in BastionState
        /\ bastion'.pc = (IF T = {} THEN "delete_fleets" ELSE bastion.pc) /\ bastion'.todo = T
        /\ bastion'.docs = bastion.docs /\ bastion'.seen = bastion.seen /\ bastion'.puts = bastion.puts
        /\ bastion'.request = bastion.request /\ bastion'.fleets = bastion.fleets \cup F
        /\ bastion'.kill = bastion.kill \cup K /\ bastion'.spare = bastion.spare \cup A
        /\ SameLaunch(bastion', bastion)
    BY <2>4, <2>5
  <2>7. IF status_params[j] # NoDocument
             /\ (status_params[j].fleet_request_id \/ {status_params[j].instance_id} \ {NoInstance} # {})
          THEN PutStatus(j, [status_params[j] EXCEPT !.status = "CANCELED"], {})
          ELSE UNCHANGED status_params /\ Happen({})
    BY <1>2
  <2>8. QED
    BY <2>1, <2>2, <2>6, <2>7
<1>3. QED
  BY <1>1, <1>2 DEF CollectJob

\* DeleteFleets stops the workers of the fleets it deletes.
LEMMA DeleteFleetsTo ==
  ASSUME TypeOK, DeleteFleets
  PROVE  /\ bastion' \in BastionState
         /\ bastion.fleets \subseteq Jobs
         /\ \E failed \in SUBSET bastion.fleets :
              /\ Happen(IfSo(failed # {}, "call"))
              /\ fleet' = [j \in Jobs |-> IF j \in bastion.fleets \ failed THEN "deleted" ELSE fleet[j]]
              /\ ec2' = Stopped(UNION {Workers(j) : j \in bastion.fleets \ failed})
              /\ bastion'.pc = "terminate" /\ bastion'.todo = bastion.todo
              /\ bastion'.docs = bastion.docs /\ bastion'.seen = bastion.seen /\ bastion'.puts = bastion.puts
              /\ bastion'.request = bastion.request /\ bastion'.fleets = {} /\ bastion'.spare = {}
              /\ bastion'.kill = bastion.kill \cup IF failed = {} THEN {} ELSE bastion.spare
              /\ SameLaunch(bastion', bastion)
<1>1. PICK failed \in SUBSET bastion.fleets :
         /\ Happen(IfSo(failed # {}, "call"))
         /\ fleet' = [j \in Jobs |-> IF j \in bastion.fleets \ failed THEN "deleted" ELSE fleet[j]]
         /\ ec2' = Stopped(UNION {Workers(j) : j \in bastion.fleets \ failed})
         /\ bastion' = [bastion EXCEPT !.pc = "terminate", !.fleets = {}, !.spare = {},
                          !.kill = @ \cup IF failed = {} THEN {} ELSE bastion.spare]
  BY DEF DeleteFleets
<1>2. PICK K : K = IF failed = {} THEN {} ELSE bastion.spare
  OBVIOUS
<1>3. bastion \in BastionState /\ K \in SUBSET Instances /\ bastion.fleets \subseteq Jobs
  BY <1>2 DEF TypeOK, BastionState
<1>4. LET s == [bastion EXCEPT !.pc = "terminate", !.fleets = {}, !.spare = {}, !.kill = @ \cup K] IN
         /\ s \in BastionState
         /\ s.pc = "terminate" /\ s.todo = bastion.todo
         /\ s.docs = bastion.docs /\ s.seen = bastion.seen /\ s.puts = bastion.puts
         /\ s.request = bastion.request /\ s.fleets = {} /\ s.kill = bastion.kill \cup K /\ s.spare = {}
         /\ SameLaunch(s, bastion)
  BY <1>3, WithoutFleets, Zenon
<1>5. bastion' = [bastion EXCEPT !.pc = "terminate", !.fleets = {}, !.spare = {}, !.kill = @ \cup K]
  BY <1>1, <1>2
<1>6. /\ bastion' \in BastionState
      /\ bastion'.pc = "terminate" /\ bastion'.todo = bastion.todo
      /\ bastion'.docs = bastion.docs /\ bastion'.seen = bastion.seen /\ bastion'.puts = bastion.puts
      /\ bastion'.request = bastion.request /\ bastion'.fleets = {} /\ bastion'.kill = bastion.kill \cup K
      /\ bastion'.spare = {}
      /\ SameLaunch(bastion', bastion)
  BY <1>4, <1>5
<1>7. QED
  BY <1>1, <1>2, <1>3, <1>6

\* TerminateInstances stops every instance of the batch, or none.
LEMMA TerminateTo ==
  ASSUME TypeOK, TerminateInstances
  PROVE  /\ bastion' \in BastionState
         /\ \/ /\ \A i \in bastion.kill : ec2[i] # "gone"
               /\ ec2' = Stopped(bastion.kill) /\ Happen({})
               /\ bastion'.pc = "delete_cancel" /\ bastion'.todo = bastion.todo
               /\ bastion'.docs = bastion.docs /\ bastion'.seen = bastion.seen /\ bastion'.puts = bastion.puts
               /\ bastion'.request = bastion.request /\ bastion'.fleets = bastion.fleets
               /\ bastion'.kill = {} /\ bastion'.spare = bastion.spare
               /\ SameLaunch(bastion', bastion)
            \/ /\ Happen(IfSo(\A i \in bastion.kill : ec2[i] # "gone", "call"))
               /\ bastion' = AtLabel("list") /\ ec2' = ec2
<1>1. CASE bastion' = AtLabel("list")
  <2>1. bastion' \in BastionState
    BY <1>1, Empty DEF Labels
  <2>2. bastion'.pc # "delete_cancel"
    BY <1>1, Empty
  <2>3. QED
    BY <2>1, <2>2, WithoutKill DEF TerminateInstances, TypeOK
<1>2. CASE /\ \A i \in bastion.kill : ec2[i] # "gone"
           /\ ec2' = Stopped(bastion.kill) /\ Happen({})
           /\ bastion' = [bastion EXCEPT !.pc = "delete_cancel", !.kill = {}]
  <2>1. bastion \in BastionState
    BY DEF TypeOK
  <2>2. LET s == [bastion EXCEPT !.pc = "delete_cancel", !.kill = {}] IN
         /\ s \in BastionState
         /\ s.pc = "delete_cancel" /\ s.todo = bastion.todo
         /\ s.docs = bastion.docs /\ s.seen = bastion.seen /\ s.puts = bastion.puts
         /\ s.request = bastion.request /\ s.fleets = bastion.fleets /\ s.kill = {} /\ s.spare = bastion.spare
         /\ SameLaunch(s, bastion)
    BY <2>1, WithoutKill, Zenon
  <2>3. QED
    BY <1>2, <2>2
<1>3. QED
  BY <1>1, <1>2 DEF TerminateInstances

\* ListJobs lists the job parameters, or finds none.
LEMMA ListJobsTo ==
  ASSUME TypeOK, ListJobs
  PROVE  /\ bastion' \in BastionState
         /\ \/ bastion' = AtLabel("update")
            \/ /\ bastion'.pc = "check" /\ bastion'.todo = job_params
               /\ NoDocs(bastion') /\ NoneSeen(bastion') /\ NoPuts(bastion')
               /\ NoRequest(bastion') /\ bastion'.pending = {} /\ NoLaunch(bastion')
<1>1. CASE bastion' = AtLabel("update")
  BY <1>1, Empty DEF Labels
<1>2. CASE bastion' = [AtLabel("check") EXCEPT !.todo = job_params]
  <2>1. PICK r : r = AtLabel("check")
    OBVIOUS
  <2>2. /\ r \in BastionState /\ r.pc = "check" /\ NoDocs(r) /\ NoneSeen(r) /\ NoPuts(r)
        /\ NoRequest(r) /\ r.pending = {} /\ NoLaunch(r)
    BY <2>1, Empty DEF Labels
  <2>3. job_params \in SUBSET Jobs
    BY DEF TypeOK
  <2>4. LET s == [r EXCEPT !.todo = job_params] IN
            /\ s \in BastionState
            /\ s.pc = r.pc /\ s.todo = job_params /\ s.docs = r.docs /\ s.seen = r.seen /\ s.puts = r.puts
            /\ SameRequest(s, r) /\ SameLaunch(s, r)
    BY <2>2, <2>3, WithTodo, Zenon
  <2>5. QED
    BY <1>2, <2>1, <2>2, <2>4 DEF NoDocs, NoneSeen, NoPuts, NoRequest, NoLaunch, SameRequest, SameLaunch
<1>3. QED
  BY <1>1, <1>2 DEF ListJobs

\* The pending jobs once job j is checked.
PendingWith(j) ==
  bastion.pending \cup IF status_params[j].status \in {Absent, "PENDING", "SUBMITTING"} THEN {j} ELSE {}

\* CheckJob leaves one job fewer to check, and may hold it for launch.
LEMMA CheckJobTo ==
  ASSUME TypeOK, CheckJob
  PROVE  /\ bastion' \in BastionState
         /\ \/ bastion' = AtLabel("update")
            \/ \E j \in bastion.todo :
                 /\ j \in Jobs
                 /\ bastion'.pending = PendingWith(j)
                 /\ \/ /\ bastion'.pc = "check" /\ bastion'.todo = bastion.todo \ {j}
                       /\ bastion'.docs = bastion.docs /\ bastion'.seen = bastion.seen
                       /\ bastion'.puts = bastion.puts
                       /\ SameRequest(bastion', bastion)
                       /\ bastion'.job = bastion.job /\ bastion'.new = bastion.new
                    \/ /\ bastion'.pc = "submitting" /\ bastion'.todo = {} /\ PendingWith(j) # {}
                       /\ NoDocs(bastion') /\ NoneSeen(bastion') /\ NoPuts(bastion')
                       /\ NoRequest(bastion') /\ NoLaunch(bastion')
<1>1. CASE bastion' = AtLabel("update")
  BY <1>1, Empty DEF Labels
<1>2. ASSUME NEW j \in bastion.todo,
             LET left    == bastion.todo \ {j}
                 pending == PendingWith(j)
             IN bastion' = IF left # {} THEN [bastion EXCEPT !.todo = left, !.pending = pending]
                           ELSE IF pending = {} THEN AtLabel("update")
                           ELSE [AtLabel("submitting") EXCEPT !.pending = pending]
      PROVE  bastion' = LET T == bastion.todo \ {j}
                            P == PendingWith(j)
                        IN IF T # {} THEN PendingIn(bastion, T, P)
                           ELSE IF P = {} THEN AtLabel("update") ELSE AllPendingIn(AtLabel("submitting"), P)
  BY <1>2 DEF PendingIn, AllPendingIn
<1>3. CASE \E j \in bastion.todo :
             LET left    == bastion.todo \ {j}
                 pending == PendingWith(j)
             IN bastion' = IF left # {} THEN [bastion EXCEPT !.todo = left, !.pending = pending]
                           ELSE IF pending = {} THEN AtLabel("update")
                           ELSE [AtLabel("submitting") EXCEPT !.pending = pending]
  <2>1. PICK j \in bastion.todo :
          bastion' = LET T == bastion.todo \ {j}
                         P == PendingWith(j)
                     IN IF T # {} THEN PendingIn(bastion, T, P)
                        ELSE IF P = {} THEN AtLabel("update") ELSE AllPendingIn(AtLabel("submitting"), P)
    BY <1>2, <1>3
  <2>2. PICK P, T : P = PendingWith(j) /\ T = bastion.todo \ {j}
    OBVIOUS
  <2>3. bastion' = IF T # {} THEN PendingIn(bastion, T, P)
                   ELSE IF P = {} THEN AtLabel("update") ELSE AllPendingIn(AtLabel("submitting"), P)
    BY <2>1, <2>2
  <2>4. bastion \in BastionState /\ bastion.pc = "check" /\ bastion.todo \subseteq Jobs /\ j \in Jobs
    BY DEF TypeOK, BastionState, CheckJob
  <2>5. T \in SUBSET Jobs /\ P \in SUBSET Jobs
    BY <2>2, <2>4 DEF BastionState, PendingWith
  <2>6. CASE T # {}
    <3>1. bastion' = PendingIn(bastion, T, P)
      BY <2>3, <2>6
    <3>2. /\ bastion' \in BastionState
          /\ bastion'.pc = bastion.pc /\ bastion'.todo = T /\ bastion'.docs = bastion.docs
          /\ bastion'.seen = bastion.seen /\ bastion'.puts = bastion.puts
          /\ SameRequest(bastion', bastion) /\ bastion'.pending = P /\ bastion'.job = bastion.job
          /\ bastion'.new = bastion.new
      BY <2>4, <2>5, <3>1, WithPending
    <3>3. QED
      BY <2>2, <2>4, <2>6, <3>2
  <2>7. CASE T = {} /\ P # {}
    <3>1. PICK r : r = AtLabel("submitting")
      OBVIOUS
    <3>2. /\ r \in BastionState /\ r.pc = "submitting" /\ r.todo = {} /\ NoDocs(r) /\ NoneSeen(r)
          /\ NoPuts(r) /\ NoRequest(r) /\ NoLaunch(r)
      BY <3>1, Empty DEF Labels
    <3>3. bastion' = AllPendingIn(r, P)
      BY <2>3, <2>7, <3>1
    <3>4. /\ bastion' \in BastionState
          /\ bastion'.pc = r.pc /\ bastion'.todo = r.todo /\ bastion'.docs = r.docs
          /\ bastion'.seen = r.seen /\ bastion'.puts = r.puts
          /\ SameRequest(bastion', r) /\ bastion'.pending = P /\ bastion'.job = r.job
          /\ bastion'.new = r.new
      BY <2>5, <3>2, <3>3, WithAllPending
    <3>5. /\ bastion' \in BastionState /\ bastion'.pending = P
          /\ bastion'.pc = "submitting" /\ bastion'.todo = {}
          /\ NoDocs(bastion') /\ NoneSeen(bastion') /\ NoPuts(bastion')
          /\ NoRequest(bastion') /\ NoLaunch(bastion')
      BY <3>2, <3>4 DEF NoDocs, NoneSeen, NoPuts, NoRequest, NoLaunch, SameRequest
    <3>6. QED
      BY <2>2, <2>4, <2>7, <3>5
  <2>8. CASE T = {} /\ P = {}
    BY <1>1, <2>3, <2>8
  <2>9. QED
    BY <2>6, <2>7, <2>8
<1>4. QED
  BY <1>1, <1>3 DEF CheckJob, PendingWith

\* MarkSubmitting puts SUBMITTING for one pending job and goes on to launch it.
LEMMA MarkSubmittingTo ==
  ASSUME TypeOK, MarkSubmitting
  PROVE  /\ bastion' \in BastionState
         /\ \E j \in bastion.pending :
              /\ j \in Jobs
              /\ PutStatus(j, PlainDocument("SUBMITTING", NoInstance), {})
              /\ bastion'.pc = "launch" /\ bastion'.todo = {}
              /\ NoDocs(bastion') /\ NoneSeen(bastion') /\ NoPuts(bastion') /\ NoRequest(bastion')
              /\ bastion'.pending = bastion.pending \ {j} /\ bastion'.job = j /\ bastion'.new = {}
<1>1. PICK j \in bastion.pending :
         /\ PutStatus(j, PlainDocument("SUBMITTING", NoInstance), {})
         /\ bastion' = [AtLabel("launch") EXCEPT !.pending = bastion.pending \ {j}, !.job = j]
  BY DEF MarkSubmitting
<1>2. PICK r, P : r = AtLabel("launch") /\ P = bastion.pending \ {j}
  OBVIOUS
<1>3. /\ r \in BastionState /\ r.pc = "launch" /\ r.todo = {} /\ NoDocs(r) /\ NoneSeen(r)
      /\ NoPuts(r) /\ NoRequest(r) /\ NoLaunch(r)
  BY <1>2, Empty DEF Labels
<1>4. j \in Jobs /\ P \in SUBSET Jobs
  BY <1>2 DEF TypeOK, BastionState
<1>5. bastion' = JobIn(r, P, j)
  BY <1>1, <1>2 DEF JobIn
<1>6. /\ bastion' \in BastionState
      /\ bastion'.pc = r.pc /\ bastion'.todo = r.todo /\ bastion'.docs = r.docs
      /\ bastion'.seen = r.seen /\ bastion'.puts = r.puts
      /\ SameRequest(bastion', r) /\ bastion'.pending = P /\ bastion'.job = j /\ bastion'.new = r.new
  BY <1>3, <1>4, <1>5, WithJob
<1>7. /\ bastion' \in BastionState
      /\ bastion'.pc = "launch" /\ bastion'.todo = {}
      /\ NoDocs(bastion') /\ NoneSeen(bastion') /\ NoPuts(bastion') /\ NoRequest(bastion')
      /\ bastion'.pending = P /\ bastion'.job = j /\ bastion'.new = {}
  BY <1>3, <1>6 DEF NoDocs, NoneSeen, NoPuts, NoRequest, NoLaunch, SameRequest
<1>8. QED
  BY <1>1, <1>2, <1>4, <1>7

\* The launch of a job is over.
ToNext(b) ==
  \/ b = AtLabel("update") /\ bastion.pending = {}
  \/ /\ b.pc = "submitting" /\ b.todo = {}
     /\ NoDocs(b) /\ NoneSeen(b) /\ NoPuts(b) /\ NoRequest(b) /\ NoLaunch(b)
     /\ b.pending = bastion.pending /\ b.pending # {}

\* NextPending goes to the next pending job, or back to the top of the loop.
LEMMA NextPendingIs ==
  ASSUME TypeOK
  PROVE  NextPending \in BastionState /\ ToNext(NextPending)
<1>1. CASE bastion.pending = {}
  BY <1>1, Empty DEF NextPending, ToNext, Labels
<1>2. CASE bastion.pending # {}
  <2>1. PICK r, P : r = AtLabel("submitting") /\ P = bastion.pending
    OBVIOUS
  <2>2. /\ r \in BastionState /\ r.pc = "submitting" /\ r.todo = {} /\ NoDocs(r) /\ NoneSeen(r)
        /\ NoPuts(r) /\ NoRequest(r) /\ NoLaunch(r)
    BY <2>1, Empty DEF Labels
  <2>3. P \in SUBSET Jobs
    BY <2>1 DEF TypeOK, BastionState
  <2>4. PICK s : s = NextPending
    OBVIOUS
  <2>5. s = AllPendingIn(r, P)
    BY <1>2, <2>1, <2>4 DEF NextPending, AllPendingIn
  <2>6. /\ s \in BastionState
        /\ s.pc = r.pc /\ s.todo = r.todo /\ s.docs = r.docs /\ s.seen = r.seen /\ s.puts = r.puts
        /\ SameRequest(s, r) /\ s.pending = P /\ s.job = r.job /\ s.new = r.new
    BY <2>2, <2>3, <2>5, WithAllPending
  <2>7. s \in BastionState /\ ToNext(s)
    BY <1>2, <2>1, <2>2, <2>6
       DEF ToNext, NoDocs, NoneSeen, NoPuts, NoRequest, NoLaunch, SameRequest
  <2>8. QED
    BY <2>4, <2>7
<1>3. QED
  BY <1>1, <1>2

\* EC2 has the instances it is asked for.
LEMMA NewOnesExist ==
  ASSUME NEW n \in Nat, n <= Cardinality(Unused)
  PROVE  NewInstances(n) \in SUBSET Unused /\ Cardinality(NewInstances(n)) = n
<1>1. IsFiniteSet(Unused)
  BY FS_Subset, DetachedAssumption DEF Unused
<1>2. PICK f : f \in Bijection(1 .. Cardinality(Unused), Unused)
  BY <1>1, FS_CardinalityType DEF ExistsBijection
<1>3. Cardinality(Unused) \in Nat
  BY <1>1, FS_CardinalityType
<1>4. 1 .. n \in SUBSET (1 .. Cardinality(Unused))
  BY <1>3
<1>5. f \in [1 .. Cardinality(Unused) -> Unused]
  BY <1>2, Fun_BijectionProperties
<1>6. Restrict(f, 1 .. n) \in Bijection(1 .. n, Range(Restrict(f, 1 .. n)))
  BY <1>2, <1>4, Fun_BijRestrict
<1>7. Range(Restrict(f, 1 .. n)) \subseteq Unused
  <2>1. Restrict(f, 1 .. n) \in [1 .. n -> Unused]
    BY <1>4, <1>5, Fun_RestrictProperties
  <2>2. QED
    BY <2>1, Fun_RangeProperties
<1>8. Cardinality(Range(Restrict(f, 1 .. n))) = n
  BY <1>6, FS_CountingElements DEF ExistsBijection
<1>9. QED
  BY <1>7, <1>8 DEF NewInstances

\* A worker for a job.
Recorded(b, N) ==
  /\ b.pc = "record" /\ b.todo = bastion.todo
  /\ b.docs = bastion.docs /\ b.seen = bastion.seen /\ b.puts = bastion.puts
  /\ SameRequest(b, bastion) /\ b.pending = bastion.pending /\ b.job = bastion.job /\ b.new = N

\* New instances recorded in the bastion leave the rest of it as it was.
LEMMA RecordedIs ==
  ASSUME TypeOK, NEW N \in SUBSET Instances,
         bastion' = NewIn(bastion, N)
  PROVE  bastion' \in BastionState /\ Recorded(bastion', N)
<1>1. bastion \in BastionState
  BY DEF TypeOK
<1>2. /\ bastion' \in BastionState
      /\ bastion'.pc = "record" /\ bastion'.todo = bastion.todo /\ bastion'.docs = bastion.docs
      /\ bastion'.seen = bastion.seen /\ bastion'.puts = bastion.puts
      /\ SameRequest(bastion', bastion) /\ bastion'.pending = bastion.pending
      /\ bastion'.job = bastion.job /\ bastion'.new = N
  BY <1>1, WithNew
<1>3. QED
  BY <1>2 DEF Recorded

\* LaunchInstance starts one instance for the job, or the launch fails.
LEMMA LaunchInstanceTo ==
  ASSUME TypeOK, LaunchInstance
  PROVE  /\ bastion' \in BastionState
         /\ \/ \E i \in Unused : /\ Launch(bastion.job, {i}) /\ Recorded(bastion', {i})
                                 /\ Happen({}) /\ UNCHANGED status_params
            \/ /\ LaunchFails(IfSo(Unused # {}, "call")) /\ ToNext(bastion')
               /\ UNCHANGED <<ec2, owner>>
<1>1. CASE /\ Unused # {}
           /\ Launch(bastion.job, NewInstances(1))
           /\ bastion' = [bastion EXCEPT !.pc = "record", !.new = NewInstances(1)]
           /\ Happen({}) /\ UNCHANGED status_params
  <2>1. IsFiniteSet(Unused)
    BY FS_Subset, DetachedAssumption DEF Unused
  <2>2. 1 <= Cardinality(Unused)
    BY <1>1, <2>1, FS_CardinalityType, FS_EmptySet
  <2>3. NewInstances(1) \in SUBSET Unused /\ Cardinality(NewInstances(1)) = 1
    BY <2>2, NewOnesExist
  <2>4. PICK i : NewInstances(1) = {i}
    BY <2>1, <2>3, FS_Subset, FS_Singleton
  <2>5. i \in Unused /\ {i} \in SUBSET Instances
    BY <2>3, <2>4 DEF Unused
  <2>6. bastion' = NewIn(bastion, {i})
    BY <1>1, <2>4 DEF NewIn
  <2>7. bastion' \in BastionState /\ Recorded(bastion', {i})
    BY <2>5, <2>6, RecordedIs, Zenon
  <2>8. QED
    BY <1>1, <2>4, <2>5, <2>7
<1>2. CASE LaunchFails(IfSo(Unused # {}, "call")) /\ UNCHANGED <<ec2, owner>>
  <2>1. bastion' = NextPending
    BY <1>2 DEF LaunchFails
  <2>2. QED
    BY <1>2, <2>1, NextPendingIs
<1>3. QED
  BY <1>1, <1>2 DEF LaunchInstance

\* CreateTemplate goes on to the fleet, or the launch fails.
LEMMA CreateTemplateTo ==
  ASSUME TypeOK, CreateTemplate
  PROVE  /\ bastion' \in BastionState
         /\ \/ /\ bastion'.pc = "create_fleet" /\ bastion'.todo = bastion.todo
               /\ bastion'.docs = bastion.docs /\ bastion'.seen = bastion.seen
               /\ bastion'.puts = bastion.puts
               /\ SameRequest(bastion', bastion) /\ SameLaunch(bastion', bastion)
               /\ Happen({}) /\ UNCHANGED status_params
            \/ LaunchFails(IfSo(~template, "call")) /\ ToNext(bastion')
<1>1. CASE bastion' = [bastion EXCEPT !.pc = "create_fleet"] /\ Happen({}) /\ UNCHANGED status_params
  <2>1. bastion \in BastionState
    BY DEF TypeOK
  <2>2. LET s == [bastion EXCEPT !.pc = "create_fleet"] IN
            /\ s \in BastionState
            /\ s.pc = "create_fleet" /\ s.todo = bastion.todo /\ s.docs = bastion.docs
            /\ s.seen = bastion.seen
            /\ s.puts = bastion.puts /\ SameRequest(s, bastion) /\ SameLaunch(s, bastion)
    BY <2>1, WithTemplate, Zenon
  <2>3. QED
    BY <1>1, <2>2
<1>2. CASE LaunchFails(IfSo(~template, "call"))
  <2>1. bastion' = NextPending
    BY <1>2 DEF LaunchFails
  <2>2. QED
    BY <1>2, <2>1, NextPendingIs
<1>3. QED
  BY <1>1, <1>2 DEF CreateTemplate

\* CreateFleet starts the job's fleet, finds it there, or the launch fails.
LEMMA CreateFleetTo ==
  ASSUME TypeOK, CreateFleet
  PROVE  /\ bastion' \in BastionState
         /\ \/ /\ fleet[bastion.job] = "none"
               /\ fleet' = [fleet EXCEPT ![bastion.job] = "active"]
               /\ \E N \in SUBSET Unused :
                    /\ N # {} /\ Cardinality(N) <= NodesPerBlock
                    /\ Launch(bastion.job, N) /\ Recorded(bastion', N)
               /\ Happen({}) /\ UNCHANGED status_params
            \/ /\ fleet[bastion.job] = "none"
               /\ fleet' = [fleet EXCEPT ![bastion.job] = "failed"]
               /\ PutStatus(bastion.job, FleetDocument("FAILED", NoInstance, {}), {})
               /\ ToNext(bastion') /\ UNCHANGED <<ec2, owner>>
            \/ /\ LaunchFails(IfSo(fleet[bastion.job] = "none", "call"))
               /\ ToNext(bastion') /\ UNCHANGED <<ec2, owner, fleet>>
<1>1. CASE /\ fleet[bastion.job] = "none"
           /\ \E n \in 1 .. NodesPerBlock :
                /\ n <= Cardinality(Unused)
                /\ Launch(bastion.job, NewInstances(n))
                /\ bastion' = [bastion EXCEPT !.pc = "record", !.new = NewInstances(n)]
           /\ fleet' = [fleet EXCEPT ![bastion.job] = "active"]
           /\ Happen({}) /\ UNCHANGED status_params
  <2>1. PICK n \in 1 .. NodesPerBlock :
                /\ n <= Cardinality(Unused)
                /\ Launch(bastion.job, NewInstances(n))
                /\ bastion' = [bastion EXCEPT !.pc = "record", !.new = NewInstances(n)]
    BY <1>1
  <2>2. PICK N : N = NewInstances(n)
    OBVIOUS
  <2>3. n \in Nat /\ n > 0 /\ n <= NodesPerBlock
    BY DetachedAssumption
  <2>4. N \in SUBSET Unused /\ Cardinality(N) = n
    BY <2>1, <2>2, <2>3, NewOnesExist
  <2>5. N # {} /\ N \in SUBSET Instances
    BY <2>3, <2>4, FS_EmptySet DEF Unused
  <2>6. bastion' = NewIn(bastion, N) /\ Launch(bastion.job, N)
    BY <2>1, <2>2 DEF NewIn
  <2>7. bastion' \in BastionState /\ Recorded(bastion', N)
    BY <2>5, <2>6, RecordedIs, Zenon
  <2>8. QED
    BY <1>1, <2>3, <2>4, <2>5, <2>6, <2>7
<1>2. CASE /\ fleet[bastion.job] = "none"
           /\ PutStatus(bastion.job, FleetDocument("FAILED", NoInstance, {}), {})
           /\ bastion' = NextPending
           /\ fleet' = [fleet EXCEPT ![bastion.job] = "failed"]
           /\ UNCHANGED <<ec2, owner>>
  BY <1>2, NextPendingIs
<1>3. CASE LaunchFails(IfSo(fleet[bastion.job] = "none", "call")) /\ UNCHANGED <<ec2, owner, fleet>>
  <2>1. bastion' = NextPending
    BY <1>3 DEF LaunchFails
  <2>2. QED
    BY <1>3, <2>1, NextPendingIs
<1>4. QED
  BY <1>1, <1>2, <1>3 DEF CreateFleet

\* The (first) instance the job is recorded on.
Primary == CHOOSE i \in bastion.new : TRUE

\* RecordLaunch puts RUNNING with the instances launched, and goes on.
LEMMA RecordLaunchTo ==
  ASSUME TypeOK, StartPlaced(bastion), RecordLaunch
  PROVE  /\ bastion' \in BastionState /\ ToNext(bastion')
         /\ Primary \in bastion.new /\ Primary \in Instances
         /\ PutStatus(bastion.job, IF use_spot_fleet THEN FleetDocument("RUNNING", Primary, bastion.new)
                                                     ELSE PlainDocument("RUNNING", Primary), {})
<1>1. bastion.new # {} /\ bastion.new \subseteq Instances
  BY DEF RecordLaunch, StartPlaced, TypeOK, BastionState
<1>2. Primary \in bastion.new
  BY <1>1 DEF Primary
<1>3. bastion' = NextPending
  BY DEF RecordLaunch
<1>4. QED
  BY <1>1, <1>2, <1>3, NextPendingIs DEF RecordLaunch, Primary

-----------------------------------------------------------------------------
(* The books are kept by every step.                                       *)

\* A step leaves the workers with their jobs, and the fleets in the world.
CloudGrows ==
  /\ use_spot_fleet' = use_spot_fleet
  /\ \A i \in Instances : owner[i] # NoJob => owner'[i] = owner[i]
  /\ \A j \in Jobs : fleet[j] # "none" => fleet'[j] # "none"

\* A document is sound after the step.
SoundNext(j, d) ==
  /\ d.instance_id # NoInstance => owner'[d.instance_id] = j
  /\ d.all_instance_ids \subseteq {i \in Instances : owner'[i] = j}
  /\ d.fleet_request_id => use_spot_fleet' /\ fleet'[j] # "none"
  /\ use_spot_fleet' /\ d.instance_id # NoInstance => d.fleet_request_id
  /\ d.all_instance_ids # {} => d.fleet_request_id /\ d.instance_id # NoInstance

DocsSoundNext == \A j \in Jobs : SoundNext(j, status_params'[j]) /\ SoundNext(j, bastion'.docs[j])

\* DocsSoundNext spells out DocsSound of the next state.
LEMMA SoundNexts == DocsSoundNext <=> DocsSound'
BY DEF DocsSoundNext, SoundNext, DocsSound, DocSound, Workers

\* A document that names nothing is sound.
LEMMA NothingNamed ==
  \A j : /\ SoundNext(j, NoDocument) /\ \A s : SoundNext(j, PlainDocument(s, NoInstance))
BY DEF SoundNext, NoDocument, PlainDocument

\* A sound document stays sound, with any status.
LEMMA StaysSound ==
  ASSUME CloudGrows, NEW j \in Jobs, NEW d \in Document, DocSound(j, d)
  PROVE  SoundNext(j, d) /\ \A s \in Status : SoundNext(j, [d EXCEPT !.status = s])
<1>1. SoundNext(j, d)
  BY DetachedAssumption DEF CloudGrows, DocSound, SoundNext, Workers, Document
<1>2. ASSUME NEW s \in Status
      PROVE  SoundNext(j, [d EXCEPT !.status = s])
  <2>1. PICK e : e = [d EXCEPT !.status = s]
    OBVIOUS
  <2>2. /\ e.instance_id = d.instance_id /\ e.all_instance_ids = d.all_instance_ids
        /\ e.fleet_request_id = d.fleet_request_id
    BY <2>1 DEF Document
  <2>3. QED
    BY <1>1, <2>1, <2>2 DEF SoundNext
<1>3. QED
  BY <1>1, <1>2

\* So does every document, when the step writes none or a sound one.
LEMMA DocsStay ==
  ASSUME TypeOK, DocsSound, CloudGrows
  PROVE  /\ \A j \in Jobs : SoundNext(j, status_params[j]) /\ SoundNext(j, bastion.docs[j])
         /\ \A j \in Jobs, s \in Status : /\ SoundNext(j, [status_params[j] EXCEPT !.status = s])
                                          /\ SoundNext(j, [bastion.docs[j] EXCEPT !.status = s])
<1>1. ASSUME NEW j \in Jobs
      PROVE  /\ status_params[j] \in Document /\ bastion.docs[j] \in Document
             /\ DocSound(j, status_params[j]) /\ DocSound(j, bastion.docs[j])
  BY DEF TypeOK, BastionState, DocsSound
<1>2. QED
  BY <1>1, StaysSound

\* A put writes the document or does not.
LEMMA PutSound ==
  ASSUME TypeOK, NEW j \in Jobs, NEW d \in Document, NEW K, PutStatus(j, d, K)
  PROVE  /\ status_params' \in [Jobs -> Document]
         /\ \A k \in Jobs \ {j} : status_params'[k] = status_params[k]
         /\ \/ status_params'[j] = d /\ Happen(K)
            \/ status_params' = status_params /\ Happen(K \cup {"put"})
         /\ SoundNext(j, d) /\ (\A k \in Jobs : SoundNext(k, status_params[k]))
              => \A k \in Jobs : SoundNext(k, status_params'[k])
<1>1. status_params \in [Jobs -> Document]
  BY DEF TypeOK
<1>2. CASE status_params' = status_params /\ Happen(K \cup {"put"})
  <2>1. status_params' \in [Jobs -> Document]
    BY <1>1, <1>2
  <2>2. \A k \in Jobs : status_params'[k] = status_params[k]
    BY <1>2
  <2>3. QED
    BY <1>2, <2>1, <2>2, Zenon
<1>3. CASE status_params' = [status_params EXCEPT ![j] = d] /\ Happen(K)
  <2>1. /\ status_params' \in [Jobs -> Document]
        /\ status_params'[j] = d
        /\ \A k \in Jobs \ {j} : status_params'[k] = status_params[k]
    BY <1>1, <1>3
  <2>2. \A k \in Jobs : k = j \/ k \in Jobs \ {j}
    OBVIOUS
  <2>3. QED
    BY <1>3, <2>1, <2>2, Zenon
<1>4. QED
  BY <1>2, <1>3 DEF PutStatus

\* The bastion at rest between the parts of its loop.
AtRest(b) == \E l \in {"update", "cancel", "list", "off"} : b = AtLabel(l)

\* A bastion at rest holds nothing.
LEMMA Resting ==
  ASSUME NEW b, AtRest(b)
  PROVE  /\ b \in BastionState /\ Placed(b) /\ b.pc \in {"update", "cancel", "list", "off"}
         /\ b.todo = {} /\ NoDocs(b) /\ NoneSeen(b) /\ NoPuts(b) /\ NoRequest(b) /\ NoLaunch(b)
         /\ b.pending = {}
<1>1. PICK l \in {"update", "cancel", "list", "off"} : b = AtLabel(l)
  BY DEF AtRest
<1>2. /\ b.pc = l /\ b.todo = {} /\ NoDocs(b) /\ NoneSeen(b) /\ NoPuts(b)
      /\ NoRequest(b) /\ b.pending = {} /\ NoLaunch(b)
  BY <1>1, Empty
<1>3. b \in BastionState
  BY <1>1, Empty DEF Labels
<1>4. FollowPlaced(b)
  BY <1>2 DEF FollowPlaced, Following
<1>5. CancelPlaced(b)
  BY <1>2 DEF CancelPlaced, Cancelling, NoRequest
<1>6. StartPlaced(b)
  BY <1>2, DetachedAssumption DEF StartPlaced, Starting, NoLaunch
<1>7. QED
  BY <1>2, <1>3, <1>4, <1>5, <1>6 DEF Placed

\* What a step of the bastion has to show.
LEMMA BastionKeeps ==
  ASSUME BookInv, BastionUnchanged, bastion' \in BastionState, Placed(bastion'),
         status_params' \in [Jobs -> Document], cancel_param' \subseteq cancel_param,
         CloudOK', EventsOK', CloudGrows, DocsSoundNext, HeldSound', CloudSound', FleetsLeft',
         bastion'.request \subseteq bastion.request \cup cancel_param
  PROVE  BookInv'
<1>1. TypeOK'
  <2>1. ParamsOK' /\ ClientOK' /\ use_spot_fleet' \in BOOLEAN /\ forsaken' \in SUBSET Instances
    BY TypeParts DEF BookInv, BastionUnchanged, clientVars, ParamsOK, ClientOK
  <2>2. QED
    BY <2>1, TypeParts
<1>2. ClientSound'
  BY DEF BookInv, BastionUnchanged, clientVars, ClientSound, CloudGrows, Tracked, Submitting
<1>3. DocsSound'
  BY SoundNexts
<1>4. QED
  BY <1>1, <1>2, <1>3 DEF BookInv

\* When nothing changes at EC2.
LEMMA CloudStays ==
  ASSUME BookInv, UNCHANGED <<use_spot_fleet, cloudVars>>
  PROVE  CloudOK' /\ CloudGrows /\ CloudSound'
<1>1. CloudOK'
  BY TypeParts DEF BookInv, cloudVars, CloudOK
<1>2. CloudGrows
  BY DEF cloudVars, CloudGrows
<1>3. CloudSound'
  BY DEF BookInv, cloudVars, CloudSound, Workers, LiveOf
<1>4. QED
  BY <1>1, <1>2, <1>3

\* When nothing changes at the client, what it has left it has left.
LEMMA LeftSame ==
  ASSUME UNCHANGED clientVars
  PROVE  \A j : Left(j)' <=> Left(j)
BY DEF clientVars, Left, Deleting, Submitting, Tracked

\* And if fleets are deleted only of the request, they are of jobs it has left.
LEMMA FleetsLeftStays ==
  ASSUME BookInv, UNCHANGED clientVars,
         \A j \in Jobs : fleet'[j] = "deleted" => fleet[j] = "deleted" \/ j \in bastion.fleets
  PROVE  FleetsLeft'
<1>1. ASSUME NEW j \in Jobs, fleet'[j] = "deleted"
      PROVE  Left(j)'
  <2>1. CASE fleet[j] = "deleted"
    BY <2>1, LeftSame DEF BookInv, FleetsLeft
  <2>2. CASE j \in bastion.fleets
    <3>1. j \in canceled
      BY <2>2 DEF BookInv, Placed, CancelPlaced, ClientSound
    <3>2. QED
      BY <3>1, LeftSame DEF Left
  <2>3. QED
    BY <1>1, <2>1, <2>2
<1>2. QED
  BY <1>1 DEF FleetsLeft

\* With nothing in hand there is nothing to check.
LEMMA NothingHeld ==
  ASSUME NoRequest(bastion'), NoLaunch(bastion'), bastion'.pc # "create_fleet"
  PROVE  HeldSound'
BY DEF NoRequest, NoLaunch, HeldSound

\* With the same things in hand and the workers' jobs unchanged.
LEMMA HeldStays ==
  ASSUME BookInv, CloudGrows, SameRequest(bastion', bastion), SameLaunch(bastion', bastion),
         bastion'.pc = "create_fleet" => use_spot_fleet
  PROVE  HeldSound'
<1>1. \A i \in bastion.kill \cup bastion.spare : i \in Instances /\ owner[i] # NoJob
  BY DetachedAssumption DEF BookInv, TypeOK, BastionState, HeldSound
<1>2. \A i \in bastion.new : i \in Instances /\ owner[i] = bastion.job
  BY DEF BookInv, TypeOK, BastionState, HeldSound
<1>3. \A i \in bastion.new : owner[i] # NoJob
  BY <1>2, DetachedAssumption DEF BookInv, Placed, StartPlaced, Starting
<1>4. QED
  BY <1>1, <1>2, <1>3 DEF BookInv, HeldSound, CloudGrows, SameRequest, SameLaunch

\* The documents, when the bastion drops or keeps those it holds.
LEMMA DocsNext ==
  ASSUME TypeOK, DocsSound, CloudGrows, \A j \in Jobs : SoundNext(j, status_params'[j]),
         NoDocs(bastion') \/ bastion'.docs = bastion.docs
  PROVE  DocsSoundNext
<1>1. ASSUME NEW j \in Jobs
      PROVE  SoundNext(j, bastion'.docs[j])
  <2>1. CASE NoDocs(bastion')
    <3>1. bastion'.docs[j] = NoDocument
      BY <2>1 DEF NoDocs
    <3>2. QED
      BY <3>1, NothingNamed
  <2>2. CASE bastion'.docs = bastion.docs
    BY <2>2, DocsStay
  <2>3. QED
    BY <2>1, <2>2
<1>2. QED
  BY <1>1 DEF DocsSoundNext

\* A step of the bastion that changes nothing at EC2.
LEMMA QuietStep ==
  ASSUME BookInv, BastionUnchanged, UNCHANGED cloudVars, bastion' \in BastionState, Placed(bastion'),
         status_params' \in [Jobs -> Document], cancel_param' \subseteq cancel_param, EventsOK',
         DocsSoundNext, HeldSound', bastion'.request \subseteq bastion.request \cup cancel_param
  PROVE  BookInv'
<1>1. UNCHANGED <<use_spot_fleet, cloudVars>> /\ UNCHANGED clientVars
  BY DEF BastionUnchanged
<1>2. CloudOK' /\ CloudGrows /\ CloudSound'
  BY <1>1, CloudStays
<1>3. \A j \in Jobs : fleet'[j] = "deleted" => fleet[j] = "deleted" \/ j \in bastion.fleets
  BY DEF cloudVars
<1>4. FleetsLeft'
  BY <1>1, <1>3, FleetsLeftStays
<1>5. QED
  BY <1>2, <1>4, BastionKeeps

\* One that puts everything down.
LEMMA RestStep ==
  ASSUME BookInv, BastionUnchanged, UNCHANGED cloudVars, AtRest(bastion'),
         status_params' \in [Jobs -> Document], \A j \in Jobs : SoundNext(j, status_params'[j]),
         cancel_param' \subseteq cancel_param, EventsOK'
  PROVE  BookInv'
<1>1. /\ bastion' \in BastionState /\ Placed(bastion') /\ NoDocs(bastion') /\ NoRequest(bastion')
      /\ NoLaunch(bastion') /\ bastion'.pc # "create_fleet"
  BY Resting
<1>2. CloudGrows
  BY CloudStays DEF BastionUnchanged
<1>3. DocsSoundNext
  BY <1>1, <1>2, DocsNext DEF BookInv
<1>4. HeldSound'
  BY <1>1, NothingHeld
<1>5. bastion'.request \subseteq bastion.request \cup cancel_param
  BY <1>1 DEF NoRequest
<1>6. QED
  BY <1>1, <1>3, <1>4, <1>5, QuietStep

\* The documents, when none is written.
LEMMA DocsUnwritten ==
  ASSUME BookInv, CloudGrows, status_params' = status_params
  PROVE  status_params' \in [Jobs -> Document] /\ \A j \in Jobs : SoundNext(j, status_params'[j])
BY DocsStay DEF BookInv, TypeOK

\* Reading the RUNNING documents keeps the books.
LEMMA UpdateReadBook ==
  ASSUME BookInv, UpdateRead
  PROVE  BookInv'
<1>1. bastion' \in BastionState /\ (bastion' = AtLabel("cancel") \/ ReadBy(bastion'))
  BY UpdateReadTo DEF BookInv
<1>2. /\ BastionUnchanged /\ UNCHANGED cloudVars /\ status_params' = status_params
      /\ cancel_param' \subseteq cancel_param /\ UNCHANGED eventVars
  BY DEF UpdateRead
<1>3. EventsOK'
  BY <1>2, TypeParts DEF BookInv, EventsOK, eventVars
<1>4. CloudGrows
  BY <1>2, CloudStays DEF BastionUnchanged
<1>5. status_params' \in [Jobs -> Document] /\ \A j \in Jobs : SoundNext(j, status_params'[j])
  BY <1>2, <1>4, DocsUnwritten
<1>6. CASE bastion' = AtLabel("cancel")
  BY <1>2, <1>3, <1>5, <1>6, RestStep DEF AtRest
<1>7. CASE ReadBy(bastion')
  <2>1. Placed(bastion')
    BY <1>7, DetachedAssumption
       DEF ReadBy, Placed, FollowPlaced, CancelPlaced, StartPlaced, Following, Cancelling, Starting,
           NoRequest, NoLaunch
  <2>2. \A j \in Jobs : bastion'.docs[j] \in {status_params[j], NoDocument}
    BY <1>7 DEF ReadBy
  <2>3. DocsSoundNext
    BY <1>2, <1>5, <2>2, NothingNamed DEF DocsSoundNext
  <2>4. HeldSound'
    BY <1>7, NothingHeld DEF ReadBy
  <2>5. bastion'.request \subseteq bastion.request \cup cancel_param
    BY <1>7 DEF ReadBy, NoRequest
  <2>6. QED
    BY <1>1, <1>2, <1>3, <1>5, <2>1, <2>3, <2>4, <2>5, QuietStep
<1>8. QED
  BY <1>1, <1>6, <1>7

\* So does describing their instances.
LEMMA DescribeInstancesBook ==
  ASSUME BookInv, DescribeInstances
  PROVE  BookInv'
<1>1. /\ BastionUnchanged /\ UNCHANGED cloudVars /\ status_params' = status_params
      /\ cancel_param' \subseteq cancel_param /\ bastion.pc = "describe"
  BY DEF DescribeInstances
<1>2. EventsOK'
  BY Happens, TypeParts DEF BookInv, DescribeInstances
<1>3. CloudGrows
  BY <1>1, CloudStays DEF BastionUnchanged
<1>4. status_params' \in [Jobs -> Document] /\ \A j \in Jobs : SoundNext(j, status_params'[j])
  BY <1>1, <1>3, DocsUnwritten
<1>5. CASE bastion' = AtLabel("cancel")
  BY <1>1, <1>2, <1>4, <1>5, RestStep DEF AtRest
<1>6. CASE SeenBy(bastion') /\ bastion' \in BastionState
  <2>1. Placed(bastion')
    <3>1. Placed(bastion)
      BY DEF BookInv
    <3>2. NoPuts(bastion')
      BY <1>1, <1>6, <3>1 DEF SeenBy, Placed, FollowPlaced, NoPuts
    <3>3. QED
      BY <1>1, <1>6, <3>1, <3>2
         DEF SeenBy, Placed, FollowPlaced, CancelPlaced, StartPlaced, Following, Cancelling, Starting,
             SameRequest, SameLaunch, NoRequest
  <2>2. DocsSoundNext
    BY <1>3, <1>4, <1>6, DocsNext DEF BookInv, SeenBy
  <2>3. HeldSound'
    BY <1>3, <1>6, HeldStays DEF SeenBy
  <2>4. bastion'.request \subseteq bastion.request \cup cancel_param
    BY <1>6 DEF SeenBy, SameRequest
  <2>5. QED
    BY <1>1, <1>2, <1>4, <1>6, <2>1, <2>2, <2>3, <2>4, QuietStep
<1>7. QED
  BY <1>5, <1>6, DescribeInstancesTo

\* So does describing their fleets.
LEMMA DescribeFleetsBook ==
  ASSUME BookInv, DescribeFleets
  PROVE  BookInv'
<1>1. /\ BastionUnchanged /\ UNCHANGED cloudVars /\ status_params' = status_params
      /\ cancel_param' \subseteq cancel_param /\ bastion.pc = "fleets"
  BY DEF DescribeFleets
<1>2. EventsOK'
  BY Happens, TypeParts DEF BookInv, DescribeFleets
<1>3. CloudGrows
  BY <1>1, CloudStays DEF BastionUnchanged
<1>4. status_params' \in [Jobs -> Document] /\ \A j \in Jobs : SoundNext(j, status_params'[j])
  BY <1>1, <1>3, DocsUnwritten
<1>5. CASE bastion' = AtLabel("cancel")
  BY <1>1, <1>2, <1>4, <1>5, RestStep DEF AtRest
<1>6. ASSUME NEW U, ToPut(bastion', U), bastion' \in BastionState
      PROVE  BookInv'
  <2>1. Placed(bastion')
    <3>1. Placed(bastion)
      BY DEF BookInv
    <3>2. FollowPlaced(bastion')
      BY <1>6 DEF ToPut, FollowPlaced, Following
    <3>3. CancelPlaced(bastion') /\ StartPlaced(bastion')
      BY <1>1, <1>6, <3>1
         DEF ToPut, Placed, CancelPlaced, StartPlaced, Following, Cancelling, Starting,
             SameRequest, SameLaunch, NoRequest
    <3>4. QED
      BY <3>2, <3>3 DEF Placed
  <2>2. DocsSoundNext
    BY <1>3, <1>4, <1>6, DocsNext DEF BookInv, ToPut
  <2>3. HeldSound'
    BY <1>3, <1>6, HeldStays DEF ToPut
  <2>4. bastion'.request \subseteq bastion.request \cup cancel_param
    BY <1>6 DEF ToPut, SameRequest
  <2>5. QED
    BY <1>1, <1>2, <1>4, <1>6, <2>1, <2>2, <2>3, <2>4, QuietStep
<1>7. QED
  BY <1>5, <1>6, DescribeFleetsTo DEF BookInv

\* The document a put of PutChanged writes.
ChangedDoc(j) == [bastion.docs[j] EXCEPT !.status = Head(bastion.puts[j])]

\* The puts of update_running_job_status() keep the books: they write the
\* documents that were read, whose instances are the job's for ever.
LEMMA PutChangedBook ==
  ASSUME BookInv, PutChanged
  PROVE  BookInv'
<1>1. /\ BastionUnchanged /\ UNCHANGED cloudVars /\ cancel_param' \subseteq cancel_param
      /\ bastion.pc = "put"
  BY DEF PutChanged
<1>2. CloudGrows
  BY <1>1, CloudStays DEF BastionUnchanged
<1>3. /\ bastion' \in BastionState
      /\ \E j \in bastion.todo :
           /\ j \in Jobs /\ bastion.puts[j] \in Seq(Status) /\ bastion.puts[j] # << >>
           /\ PutStatus(j, ChangedDoc(j), {})
           /\ \/ bastion' = AtLabel("cancel")
              \/ /\ bastion'.pc = "put" /\ bastion'.docs = bastion.docs /\ bastion'.seen = bastion.seen
                 /\ bastion'.puts = [bastion.puts EXCEPT ![j] = Tail(bastion.puts[j])]
                 /\ bastion'.todo = IF Tail(bastion.puts[j]) = << >> THEN bastion.todo \ {j}
                                    ELSE bastion.todo
                 /\ bastion'.todo # {}
                 /\ SameRequest(bastion', bastion) /\ SameLaunch(bastion', bastion)
  BY PutChangedTo DEF BookInv, Placed, ChangedDoc
<1>4. PICK j \in Jobs :
        /\ bastion.puts[j] \in Seq(Status) /\ bastion.puts[j] # << >>
        /\ PutStatus(j, ChangedDoc(j), {})
        /\ \/ bastion' = AtLabel("cancel")
           \/ /\ bastion'.pc = "put" /\ bastion'.docs = bastion.docs /\ bastion'.seen = bastion.seen
              /\ bastion'.puts = [bastion.puts EXCEPT ![j] = Tail(bastion.puts[j])]
              /\ bastion'.todo = IF Tail(bastion.puts[j]) = << >> THEN bastion.todo \ {j}
                                 ELSE bastion.todo
              /\ bastion'.todo # {}
              /\ SameRequest(bastion', bastion) /\ SameLaunch(bastion', bastion)
  BY <1>3
<1>5. Head(bastion.puts[j]) \in Status
  BY <1>4, HeadTail
<1>6. PICK d : d = ChangedDoc(j)
  OBVIOUS
<1>7. d \in Document /\ SoundNext(j, d)
  BY <1>2, <1>5, <1>6, DocsStay, Documents DEF BookInv, TypeOK, BastionState, ChangedDoc
<1>8. /\ status_params' \in [Jobs -> Document] /\ (\A k \in Jobs : SoundNext(k, status_params'[k]))
      /\ \/ Happen({}) \/ Happen({} \cup {"put"})
  BY <1>2, <1>4, <1>6, <1>7, PutSound, DocsStay DEF BookInv
<1>9. EventsOK'
  BY <1>8, Happens, TypeParts DEF BookInv
<1>10. CASE bastion' = AtLabel("cancel")
  BY <1>1, <1>8, <1>9, <1>10, RestStep DEF AtRest
<1>11. CASE /\ bastion'.pc = "put" /\ bastion'.docs = bastion.docs /\ bastion'.seen = bastion.seen
            /\ bastion'.puts = [bastion.puts EXCEPT ![j] = Tail(bastion.puts[j])]
            /\ bastion'.todo = IF Tail(bastion.puts[j]) = << >> THEN bastion.todo \ {j}
                               ELSE bastion.todo
            /\ bastion'.todo # {}
            /\ SameRequest(bastion', bastion) /\ SameLaunch(bastion', bastion)
  <2>1. Placed(bastion)
    BY DEF BookInv
  <2>2. bastion.puts \in [Jobs -> Seq(Status)]
    BY DEF BookInv, TypeOK, BastionState
  <2>3. \A k \in Jobs : k \in bastion'.todo <=> bastion'.puts[k] # << >>
    BY <1>1, <1>4, <1>11, <2>1, <2>2 DEF Placed, FollowPlaced
  <2>4. FollowPlaced(bastion')
    BY <1>1, <1>11, <2>1, <2>3 DEF Placed, FollowPlaced, Following, NoneSeen
  <2>5. CancelPlaced(bastion') /\ StartPlaced(bastion')
    BY <1>1, <1>11, <2>1
       DEF Placed, CancelPlaced, StartPlaced, Cancelling, Starting, SameRequest, SameLaunch, NoRequest
  <2>6. DocsSoundNext
    BY <1>2, <1>8, <1>11, DocsNext DEF BookInv
  <2>7. HeldSound'
    BY <1>2, <1>11, HeldStays
  <2>8. bastion'.request \subseteq bastion.request \cup cancel_param
    BY <1>11 DEF SameRequest
  <2>9. Placed(bastion')
    BY <2>4, <2>5 DEF Placed
  <2>10. QED
    BY <1>1, <1>3, <1>8, <1>9, <2>6, <2>7, <2>8, <2>9, QuietStep
<1>12. QED
  BY <1>4, <1>10, <1>11

\* Reading the cancel parameter keeps the books.
LEMMA CancelReadBook ==
  ASSUME BookInv, CancelRead
  PROVE  BookInv'
<1>1. /\ BastionUnchanged /\ UNCHANGED cloudVars /\ status_params' = status_params
      /\ cancel_param' \subseteq cancel_param
  BY DEF CancelRead
<1>2. EventsOK'
  BY Happens, TypeParts DEF BookInv, CancelRead
<1>3. CloudGrows
  BY <1>1, CloudStays DEF BastionUnchanged
<1>4. status_params' \in [Jobs -> Document] /\ \A j \in Jobs : SoundNext(j, status_params'[j])
  BY <1>1, <1>3, DocsUnwritten
<1>5. CASE bastion' = AtLabel("list")
  BY <1>1, <1>2, <1>4, <1>5, RestStep DEF AtRest
<1>6. CASE /\ bastion' \in BastionState
           /\ bastion'.pc = "collect" /\ bastion'.todo = cancel_param /\ bastion'.request = cancel_param
           /\ NoDocs(bastion') /\ NoneSeen(bastion') /\ NoPuts(bastion')
           /\ bastion'.fleets = {} /\ bastion'.kill = {} /\ bastion'.spare = {}
           /\ bastion'.pending = {} /\ NoLaunch(bastion') /\ cancel_param # {}
  <2>1. Placed(bastion')
    BY <1>6 DEF Placed, FollowPlaced, CancelPlaced, StartPlaced, Following, Cancelling, Starting, NoLaunch
  <2>2. DocsSoundNext
    BY <1>3, <1>4, <1>6, DocsNext DEF BookInv
  <2>3. HeldSound'
    BY <1>6 DEF HeldSound, NoLaunch
  <2>4. bastion'.request \subseteq bastion.request \cup cancel_param
    BY <1>6
  <2>5. QED
    BY <1>1, <1>2, <1>4, <1>6, <2>1, <2>2, <2>3, <2>4, QuietStep
<1>7. QED
  BY <1>5, <1>6, CancelReadTo DEF BookInv

\* The document handle_cancel_requests() puts.
CanceledDoc(j) == [status_params[j] EXCEPT !.status = "CANCELED"]

\* Collecting what a job of the request names keeps the books: the instances it
\* names are the job's.
LEMMA CollectJobBook ==
  ASSUME BookInv, CollectJob
  PROVE  BookInv'
<1>1. /\ BastionUnchanged /\ UNCHANGED cloudVars /\ cancel_param' \subseteq cancel_param
      /\ bastion.pc = "collect"
  BY DEF CollectJob
<1>2. CloudGrows
  BY <1>1, CloudStays DEF BastionUnchanged
<1>3. CASE bastion' = AtLabel("list") /\ UNCHANGED status_params /\ Happen({"call"})
  <2>1. status_params' \in [Jobs -> Document] /\ \A j \in Jobs : SoundNext(j, status_params'[j])
    BY <1>2, <1>3, DocsUnwritten
  <2>2. EventsOK'
    BY <1>3, Happens, TypeParts DEF BookInv
  <2>3. QED
    BY <1>1, <1>3, <2>1, <2>2, RestStep DEF AtRest
<1>4. ASSUME NEW j \in bastion.todo, j \in Jobs,
             PutStatus(j, CanceledDoc(j), {}) \/ (UNCHANGED status_params /\ Happen({})),
             bastion' \in BastionState,
             bastion'.todo = bastion.todo \ {j},
             bastion'.pc = (IF bastion'.todo = {} THEN "delete_fleets" ELSE "collect"),
             bastion'.docs = bastion.docs, bastion'.seen = bastion.seen,
             bastion'.puts = bastion.puts,
             bastion'.request = bastion.request,
             bastion'.kill = bastion.kill \cup ({status_params[j].instance_id} \ {NoInstance}),
             bastion'.spare = bastion.spare \cup status_params[j].all_instance_ids,
             bastion'.fleets = bastion.fleets \cup IF status_params[j].fleet_request_id THEN {j} ELSE {},
             SameLaunch(bastion', bastion)
      PROVE  BookInv'
  <2>1. PICK d : d = CanceledDoc(j)
    OBVIOUS
  <2>2. d \in Document /\ SoundNext(j, d)
    BY <1>2, <1>4, <2>1, DocsStay, Documents DEF BookInv, TypeOK, CanceledDoc, Status
  <2>3. /\ status_params' \in [Jobs -> Document] /\ (\A k \in Jobs : SoundNext(k, status_params'[k]))
        /\ Happen({}) \/ Happen({} \cup {"put"})
    <3>1. CASE PutStatus(j, d, {})
      BY <1>2, <1>4, <2>2, <3>1, PutSound, DocsStay DEF BookInv
    <3>2. CASE UNCHANGED status_params /\ Happen({})
      BY <1>2, <3>2, DocsUnwritten
    <3>3. QED
      BY <1>4, <2>1, <3>1, <3>2
  <2>4. EventsOK'
    BY <2>3, Happens, TypeParts DEF BookInv
  <2>5. Placed(bastion)
    BY DEF BookInv
  <2>6. FollowPlaced(bastion')
    BY <1>1, <1>4, <2>5 DEF Placed, FollowPlaced, Following, NoDocs, NoneSeen, NoPuts
  <2>7. CancelPlaced(bastion')
    BY <1>1, <1>4, <2>5 DEF Placed, CancelPlaced, Cancelling
  <2>8. StartPlaced(bastion')
    BY <1>1, <1>4, <2>5 DEF Placed, StartPlaced, Starting, SameLaunch
  <2>9. DocsSoundNext
    BY <1>2, <1>4, <2>3, DocsNext DEF BookInv
  <2>10. HeldSound'
    <3>1. \A i \in bastion.kill \cup bastion.spare : i \in Instances /\ owner[i] # NoJob
                                                     /\ owner[i] \in bastion.request
      BY DetachedAssumption DEF BookInv, TypeOK, BastionState, HeldSound
    <3>2. \A i \in ({status_params[j].instance_id} \ {NoInstance}) \cup status_params[j].all_instance_ids :
            i \in Instances /\ owner'[i] = j
      BY <1>1, <1>4 DEF BookInv, TypeOK, Document, DocsSound, DocSound, Workers, cloudVars
    <3>3. j \in bastion.request
      BY <1>1, <1>4, <2>5 DEF Placed, CancelPlaced
    <3>4. \A i \in bastion'.kill \cup bastion'.spare : owner'[i] \in bastion'.request
      BY <1>2, <1>4, <3>1, <3>2, <3>3 DEF CloudGrows
    <3>5. bastion'.new = {} /\ bastion'.pc # "create_fleet"
      BY <1>1, <1>4, <2>5 DEF Placed, StartPlaced, SameLaunch
    <3>6. bastion'.fleets # {} => use_spot_fleet'
      BY <1>1, <1>4 DEF BastionUnchanged, BookInv, HeldSound, DocsSound, DocSound
    <3>7. QED
      BY <3>4, <3>5, <3>6 DEF HeldSound
  <2>11. bastion'.request \subseteq bastion.request \cup cancel_param
    BY <1>4
  <2>12. Placed(bastion')
    BY <2>6, <2>7, <2>8 DEF Placed
  <2>13. QED
    BY <1>1, <1>4, <2>3, <2>4, <2>9, <2>10, <2>11, <2>12, QuietStep
<1>5. QED
  BY <1>3, <1>4, CollectJobTo DEF BookInv, CanceledDoc

\* EC2 stops some workers that may run.
LEMMA StoppedIs ==
  ASSUME CloudOK, NEW S, ec2' = Stopped(S)
  PROVE  /\ ec2' \in [Instances -> Ec2States]
         /\ \A i \in Instances : /\ i \in S /\ ec2[i] \in Live => ec2'[i] = "shutting-down"
                                 /\ ~(i \in S /\ ec2[i] \in Live) => ec2'[i] = ec2[i]
                                 /\ ec2'[i] \in Live => ec2[i] \in Live /\ i \notin S
                                 /\ ec2'[i] = "unused" <=> ec2[i] = "unused"
BY DEF CloudOK, Stopped, Live, Ec2States

\* Deleting the fleets of the request keeps the books.
LEMMA DeleteFleetsBook ==
  ASSUME BookInv, DeleteFleets
  PROVE  BookInv'
<1>1. /\ BastionUnchanged /\ UNCHANGED <<owner, finished, template>> /\ status_params' = status_params
      /\ cancel_param' \subseteq cancel_param /\ bastion.pc = "delete_fleets"
  BY DEF DeleteFleets
<1>2. PICK failed \in SUBSET bastion.fleets :
        /\ Happen(IfSo(failed # {}, "call"))
        /\ fleet' = [j \in Jobs |-> IF j \in bastion.fleets \ failed THEN "deleted" ELSE fleet[j]]
        /\ ec2' = Stopped(UNION {Workers(j) : j \in bastion.fleets \ failed})
        /\ bastion'.pc = "terminate" /\ bastion'.todo = bastion.todo
        /\ bastion'.docs = bastion.docs /\ bastion'.seen = bastion.seen /\ bastion'.puts = bastion.puts
        /\ bastion'.request = bastion.request /\ bastion'.fleets = {} /\ bastion'.spare = {}
        /\ bastion'.kill = bastion.kill \cup IF failed = {} THEN {} ELSE bastion.spare
        /\ SameLaunch(bastion', bastion)
  BY DeleteFleetsTo DEF BookInv
<1>3. bastion' \in BastionState /\ bastion.fleets \subseteq Jobs
  BY DeleteFleetsTo DEF BookInv
<1>4. EventsOK'
  BY <1>2, Happens, TypeParts DEF BookInv
<1>5. CloudOK
  BY TypeParts DEF BookInv
<1>6. /\ ec2' \in [Instances -> Ec2States]
      /\ \A i \in Instances :
           /\ i \in UNION {Workers(j) : j \in bastion.fleets \ failed} => ec2'[i] \notin Live
           /\ ec2'[i] \in Live => ec2[i] \in Live
           /\ ec2'[i] = "unused" <=> ec2[i] = "unused"
  BY <1>2, <1>5, StoppedIs DEF Live
<1>7. CloudOK'
  BY <1>1, <1>2, <1>5, <1>6 DEF CloudOK
<1>8. CloudGrows
  BY <1>1, <1>2 DEF CloudGrows, BastionUnchanged
<1>9. CloudSound'
  <2>1. CloudSound
    BY DEF BookInv
  <2>2. /\ \A i \in Instances : ec2'[i] = "unused" <=> owner'[i] = NoJob
        /\ \A i \in finished' : ec2'[i] \notin Live /\ owner'[i] # NoJob
    BY <1>1, <1>5, <1>6, <2>1 DEF CloudSound, CloudOK
  <2>3. ASSUME NEW j \in Jobs, ~use_spot_fleet'
        PROVE  fleet'[j] = "none"
    <3>1. fleet[j] = "none" /\ ~use_spot_fleet
      BY <1>1, <2>1, <2>3 DEF CloudSound, BastionUnchanged
    <3>2. CASE j \in bastion.fleets
      BY <3>1, <3>2 DEF BookInv, HeldSound
    <3>3. CASE j \notin bastion.fleets
      BY <1>2, <3>1, <3>3
    <3>4. QED
      BY <3>2, <3>3
  <2>4. ASSUME NEW j \in Jobs, use_spot_fleet'
        PROVE  /\ fleet'[j] \in {"none", "failed"} => Workers(j)' = {}
               /\ fleet'[j] = "active" => Workers(j)' # {}
               /\ fleet'[j] # "active" => LiveOf(j)' = {}
    <3>1. Workers(j)' = Workers(j)
      BY <1>1 DEF Workers
    <3>2. LiveOf(j)' \subseteq LiveOf(j)
      BY <1>1, <1>6 DEF LiveOf, Workers
    <3>3. j \in bastion.fleets \ failed => LiveOf(j)' = {}
      BY <1>1, <1>6 DEF LiveOf, Workers
    <3>4. /\ j \in bastion.fleets \ failed => fleet'[j] = "deleted"
          /\ j \notin bastion.fleets \ failed => fleet'[j] = fleet[j]
      BY <1>2
    <3>5. QED
      BY <1>1, <2>1, <2>4, <3>1, <3>2, <3>3, <3>4 DEF CloudSound, BastionUnchanged
  <2>5. QED
    BY <2>2, <2>3, <2>4 DEF CloudSound
<1>10. FleetsLeft'
  <2>1. \A j \in Jobs : fleet'[j] = "deleted" => fleet[j] = "deleted" \/ j \in bastion.fleets
    BY <1>2
  <2>2. QED
    BY <1>1, <2>1, FleetsLeftStays DEF BastionUnchanged
<1>11. status_params' \in [Jobs -> Document] /\ \A j \in Jobs : SoundNext(j, status_params'[j])
  BY <1>1, <1>8, DocsUnwritten
<1>12. DocsSoundNext
  BY <1>2, <1>8, <1>11, DocsNext DEF BookInv
<1>13. Placed(bastion')
  <2>1. Placed(bastion)
    BY DEF BookInv
  <2>2. FollowPlaced(bastion')
    BY <1>1, <1>2, <2>1 DEF Placed, FollowPlaced, Following, NoDocs, NoneSeen, NoPuts
  <2>3. CancelPlaced(bastion')
    BY <1>2 DEF CancelPlaced, Cancelling
  <2>4. StartPlaced(bastion')
    BY <1>1, <1>2, <2>1 DEF Placed, StartPlaced, Starting, SameLaunch
  <2>5. QED
    BY <2>2, <2>3, <2>4 DEF Placed
<1>14. HeldSound'
  <2>1. \A i \in bastion'.kill \cup bastion'.spare : owner'[i] \in bastion'.request
    BY <1>1, <1>2 DEF BookInv, HeldSound
  <2>2. bastion'.new = {}
    BY <1>1, <1>2 DEF BookInv, Placed, StartPlaced, SameLaunch
  <2>3. QED
    BY <1>2, <2>1, <2>2 DEF HeldSound
<1>15. bastion'.request \subseteq bastion.request \cup cancel_param
  BY <1>2
<1>16. QED
  BY <1>1, <1>3, <1>4, <1>7, <1>8, <1>9, <1>10, <1>11, <1>12, <1>13, <1>14, <1>15, BastionKeeps

\* Terminating the instances of the request keeps the books.
LEMMA TerminateBook ==
  ASSUME BookInv, TerminateInstances
  PROVE  BookInv'
<1>1. /\ BastionUnchanged /\ UNCHANGED <<owner, finished, fleet, template>>
      /\ status_params' = status_params /\ cancel_param' \subseteq cancel_param
      /\ bastion.pc = "terminate"
  BY DEF TerminateInstances
<1>2. EventsOK'
  BY Happens, TypeParts DEF BookInv, TerminateInstances
<1>3. CloudOK
  BY TypeParts DEF BookInv
<1>4. CloudGrows
  BY <1>1 DEF CloudGrows, BastionUnchanged
<1>5. status_params' \in [Jobs -> Document] /\ \A j \in Jobs : SoundNext(j, status_params'[j])
  BY <1>1, <1>4, DocsUnwritten
<1>6. CASE bastion' = AtLabel("list") /\ ec2' = ec2
  BY <1>1, <1>2, <1>5, <1>6, RestStep DEF AtRest, cloudVars
<1>7. CASE /\ ec2' = Stopped(bastion.kill) /\ bastion' \in BastionState
           /\ bastion'.pc = "delete_cancel" /\ bastion'.todo = bastion.todo
           /\ bastion'.docs = bastion.docs /\ bastion'.seen = bastion.seen /\ bastion'.puts = bastion.puts
           /\ bastion'.request = bastion.request /\ bastion'.fleets = bastion.fleets
           /\ bastion'.kill = {} /\ bastion'.spare = bastion.spare
           /\ SameLaunch(bastion', bastion)
  <2>1. /\ ec2' \in [Instances -> Ec2States]
        /\ \A i \in Instances : /\ ec2'[i] \in Live => ec2[i] \in Live
                                /\ ec2'[i] = "unused" <=> ec2[i] = "unused"
    BY <1>3, <1>7, StoppedIs
  <2>2. CloudOK'
    BY <1>1, <1>3, <2>1 DEF CloudOK
  <2>3. CloudSound'
    <3>1. /\ CloudSound /\ finished \subseteq Instances
      BY <1>3 DEF BookInv, CloudOK
    <3>2. \A j \in Jobs : Workers(j)' = Workers(j) /\ LiveOf(j)' \subseteq LiveOf(j)
      BY <1>1, <2>1 DEF LiveOf, Workers
    <3>3. /\ \A i \in Instances : ec2'[i] = "unused" <=> owner'[i] = NoJob
          /\ \A i \in finished' : ec2'[i] \notin Live /\ owner'[i] # NoJob
      BY <1>1, <2>1, <3>1 DEF CloudSound
    <3>4. QED
      BY <1>1, <3>1, <3>2, <3>3 DEF CloudSound, BastionUnchanged
  <2>4. FleetsLeft'
    BY <1>1, FleetsLeftStays DEF BastionUnchanged
  <2>5. DocsSoundNext
    BY <1>4, <1>5, <1>7, DocsNext DEF BookInv
  <2>6. Placed(bastion')
    <3>1. Placed(bastion)
      BY DEF BookInv
    <3>2. FollowPlaced(bastion')
      BY <1>1, <1>7, <3>1 DEF Placed, FollowPlaced, Following, NoDocs, NoneSeen, NoPuts
    <3>3. CancelPlaced(bastion')
      BY <1>1, <1>7, <3>1 DEF Placed, CancelPlaced, Cancelling
    <3>4. StartPlaced(bastion')
      BY <1>1, <1>7, <3>1 DEF Placed, StartPlaced, Starting, SameLaunch
    <3>5. QED
      BY <3>2, <3>3, <3>4 DEF Placed
  <2>7. HeldSound'
    <3>1. bastion'.new = {}
      BY <1>1, <1>7 DEF BookInv, Placed, StartPlaced, SameLaunch
    <3>2. bastion'.fleets # {} => use_spot_fleet'
      BY <1>1, <1>7 DEF BookInv, HeldSound, BastionUnchanged
    <3>3. \A i \in bastion'.kill \cup bastion'.spare : owner'[i] \in bastion'.request
      BY <1>1, <1>7 DEF BookInv, HeldSound
    <3>4. QED
      BY <1>7, <3>1, <3>2, <3>3 DEF HeldSound
  <2>8. bastion'.request \subseteq bastion.request \cup cancel_param
    BY <1>7
  <2>9. QED
    BY <1>1, <1>2, <1>4, <1>5, <1>7, <2>2, <2>3, <2>4, <2>5, <2>6, <2>7, <2>8, BastionKeeps
<1>8. QED
  BY <1>6, <1>7, TerminateTo DEF BookInv

\* Deleting the cancel parameter keeps the books.
LEMMA DeleteCancelBook ==
  ASSUME BookInv, DeleteCancel
  PROVE  BookInv'
<1>1. /\ BastionUnchanged /\ UNCHANGED cloudVars /\ status_params' = status_params
      /\ cancel_param' \subseteq cancel_param /\ bastion' = AtLabel("list")
  BY DEF DeleteCancel
<1>2. EventsOK'
  BY Happens, TypeParts DEF BookInv, DeleteCancel
<1>3. status_params' \in [Jobs -> Document] /\ \A j \in Jobs : SoundNext(j, status_params'[j])
  BY <1>1, CloudStays, DocsUnwritten DEF BastionUnchanged
<1>4. QED
  BY <1>1, <1>2, <1>3, RestStep DEF AtRest

\* Listing the jobs keeps the books.
LEMMA ListJobsBook ==
  ASSUME BookInv, ListJobs
  PROVE  BookInv'
<1>1. /\ BastionUnchanged /\ UNCHANGED cloudVars /\ status_params' = status_params
      /\ cancel_param' \subseteq cancel_param
  BY DEF ListJobs
<1>2. EventsOK'
  BY Happens, TypeParts DEF BookInv, ListJobs
<1>3. CloudGrows
  BY <1>1, CloudStays DEF BastionUnchanged
<1>4. status_params' \in [Jobs -> Document] /\ \A j \in Jobs : SoundNext(j, status_params'[j])
  BY <1>1, <1>3, DocsUnwritten
<1>5. CASE bastion' = AtLabel("update")
  BY <1>1, <1>2, <1>4, <1>5, RestStep DEF AtRest
<1>6. CASE /\ bastion' \in BastionState /\ bastion'.pc = "check" /\ bastion'.todo = job_params
           /\ NoDocs(bastion') /\ NoneSeen(bastion') /\ NoPuts(bastion')
           /\ NoRequest(bastion') /\ bastion'.pending = {} /\ NoLaunch(bastion')
  <2>1. Placed(bastion')
    BY <1>6, DetachedAssumption
       DEF Placed, FollowPlaced, CancelPlaced, StartPlaced, Following, Cancelling, Starting,
           NoRequest, NoLaunch
  <2>2. DocsSoundNext
    BY <1>3, <1>4, <1>6, DocsNext DEF BookInv
  <2>3. HeldSound'
    BY <1>6, NothingHeld
  <2>4. bastion'.request \subseteq bastion.request \cup cancel_param
    BY <1>6 DEF NoRequest
  <2>5. QED
    BY <1>1, <1>2, <1>4, <1>6, <2>1, <2>2, <2>3, <2>4, QuietStep
<1>7. QED
  BY <1>5, <1>6, ListJobsTo DEF BookInv

\* Checking a job keeps the books.
LEMMA CheckJobBook ==
  ASSUME BookInv, CheckJob
  PROVE  BookInv'
<1>1. /\ BastionUnchanged /\ UNCHANGED cloudVars /\ status_params' = status_params
      /\ cancel_param' \subseteq cancel_param /\ bastion.pc = "check"
  BY DEF CheckJob
<1>2. EventsOK'
  BY Happens, TypeParts DEF BookInv, CheckJob
<1>3. CloudGrows
  BY <1>1, CloudStays DEF BastionUnchanged
<1>4. status_params' \in [Jobs -> Document] /\ \A j \in Jobs : SoundNext(j, status_params'[j])
  BY <1>1, <1>3, DocsUnwritten
<1>5. CASE bastion' = AtLabel("update")
  BY <1>1, <1>2, <1>4, <1>5, RestStep DEF AtRest
<1>6. Placed(bastion) /\ bastion.job = NoJob /\ bastion.new = {}
  BY <1>1, DetachedAssumption DEF BookInv, Placed, StartPlaced, Starting
<1>7. CASE /\ bastion' \in BastionState /\ bastion'.pc = "check" /\ bastion'.pending \subseteq Jobs
           /\ bastion'.docs = bastion.docs /\ bastion'.seen = bastion.seen /\ bastion'.puts = bastion.puts
           /\ SameRequest(bastion', bastion)
           /\ bastion'.job = bastion.job /\ bastion'.new = bastion.new
  <2>1. FollowPlaced(bastion')
    BY <1>1, <1>6, <1>7 DEF Placed, FollowPlaced, Following, NoDocs, NoneSeen, NoPuts
  <2>2. CancelPlaced(bastion') /\ NoRequest(bastion')
    BY <1>1, <1>6, <1>7 DEF Placed, CancelPlaced, Cancelling, NoRequest, SameRequest
  <2>3. StartPlaced(bastion')
    BY <1>6, <1>7, DetachedAssumption DEF StartPlaced, Starting
  <2>4. DocsSoundNext
    BY <1>3, <1>4, <1>7, DocsNext DEF BookInv
  <2>5. HeldSound'
    BY <1>6, <1>7, <2>2, NothingHeld DEF NoLaunch
  <2>6. bastion'.request \subseteq bastion.request \cup cancel_param
    BY <1>7 DEF SameRequest
  <2>7. Placed(bastion')
    BY <2>1, <2>2, <2>3 DEF Placed
  <2>8. QED
    BY <1>1, <1>2, <1>4, <1>7, <2>4, <2>5, <2>6, <2>7, QuietStep
<1>8. CASE /\ bastion' \in BastionState /\ bastion'.pc = "submitting" /\ bastion'.pending \subseteq Jobs
           /\ NoDocs(bastion') /\ NoneSeen(bastion') /\ NoPuts(bastion')
           /\ NoRequest(bastion') /\ NoLaunch(bastion')
  <2>1. Placed(bastion')
    BY <1>8, DetachedAssumption
       DEF Placed, FollowPlaced, CancelPlaced, StartPlaced, Following, Cancelling, Starting,
           NoRequest, NoLaunch
  <2>2. DocsSoundNext
    BY <1>3, <1>4, <1>8, DocsNext DEF BookInv
  <2>3. HeldSound'
    BY <1>8, NothingHeld
  <2>4. bastion'.request \subseteq bastion.request \cup cancel_param
    BY <1>8 DEF NoRequest
  <2>5. QED
    BY <1>1, <1>2, <1>4, <1>8, <2>1, <2>2, <2>3, <2>4, QuietStep
<1>9. QED
  <2>1. bastion' \in BastionState => bastion'.pending \subseteq Jobs
    BY DEF BastionState
  <2>2. QED
    BY <1>5, <1>7, <1>8, <2>1, CheckJobTo DEF BookInv

\* Marking a job SUBMITTING keeps the books.
LEMMA MarkSubmittingBook ==
  ASSUME BookInv, MarkSubmitting
  PROVE  BookInv'
<1>1. /\ BastionUnchanged /\ UNCHANGED cloudVars /\ cancel_param' \subseteq cancel_param
  BY DEF MarkSubmitting
<1>2. CloudGrows
  BY <1>1, CloudStays DEF BastionUnchanged
<1>3. PICK j \in Jobs :
        /\ PutStatus(j, PlainDocument("SUBMITTING", NoInstance), {})
        /\ bastion'.pc = "launch" /\ bastion'.todo = {}
        /\ NoDocs(bastion') /\ NoneSeen(bastion') /\ NoPuts(bastion') /\ NoRequest(bastion')
        /\ bastion'.pending = bastion.pending \ {j} /\ bastion'.job = j /\ bastion'.new = {}
  BY MarkSubmittingTo DEF BookInv
<1>4. bastion' \in BastionState
  BY MarkSubmittingTo DEF BookInv
<1>5. PICK d : d = PlainDocument("SUBMITTING", NoInstance)
  OBVIOUS
<1>6. d \in Document /\ SoundNext(j, d)
  BY <1>5, Documents, NothingNamed DEF Status
<1>7. /\ status_params' \in [Jobs -> Document] /\ (\A k \in Jobs : SoundNext(k, status_params'[k]))
      /\ \/ Happen({}) \/ Happen({} \cup {"put"})
  BY <1>2, <1>3, <1>5, <1>6, PutSound, DocsStay DEF BookInv
<1>8. EventsOK'
  BY <1>7, Happens, TypeParts DEF BookInv
<1>9. Placed(bastion')
  BY <1>3, DetachedAssumption
     DEF Placed, FollowPlaced, CancelPlaced, StartPlaced, Following, Cancelling, Starting, NoRequest
<1>10. DocsSoundNext
  BY <1>2, <1>3, <1>7, DocsNext DEF BookInv
<1>11. HeldSound'
  BY <1>3 DEF HeldSound, NoRequest
<1>12. bastion'.request \subseteq bastion.request \cup cancel_param
  BY <1>3 DEF NoRequest
<1>13. QED
  BY <1>1, <1>4, <1>7, <1>8, <1>9, <1>10, <1>11, <1>12, QuietStep

\* When a launch is over the bastion holds only the other pending jobs.
LEMMA NextPlaced ==
  ASSUME ToNext(bastion'), bastion' \in BastionState
  PROVE  /\ Placed(bastion') /\ NoDocs(bastion') /\ NoneSeen(bastion') /\ NoPuts(bastion')
         /\ NoRequest(bastion') /\ NoLaunch(bastion') /\ bastion'.todo = {}
         /\ bastion'.pc \in {"update", "submitting"} /\ bastion'.pending = bastion.pending
<1>1. CASE bastion' = AtLabel("update") /\ bastion.pending = {}
  <2>1. AtRest(bastion') /\ bastion'.pc = "update"
    BY <1>1, Empty DEF AtRest
  <2>2. QED
    BY <1>1, <2>1, Resting
<1>2. CASE /\ bastion'.pc = "submitting" /\ bastion'.todo = {}
           /\ NoDocs(bastion') /\ NoneSeen(bastion') /\ NoPuts(bastion')
           /\ NoRequest(bastion') /\ NoLaunch(bastion')
           /\ bastion'.pending = bastion.pending
  <2>1. bastion'.pending \subseteq Jobs
    BY DEF BastionState
  <2>2. Placed(bastion')
    BY <1>2, <2>1, DetachedAssumption
       DEF Placed, FollowPlaced, CancelPlaced, StartPlaced, Following, Cancelling, Starting,
           NoRequest, NoLaunch
  <2>3. QED
    BY <1>2, <2>2
<1>3. QED
  BY <1>1, <1>2 DEF ToNext

\* The end of a launch keeps the books: the document it writes is sound.
LEMMA LaunchEnds ==
  ASSUME BookInv, BastionUnchanged, cancel_param' \subseteq cancel_param,
         bastion' \in BastionState, ToNext(bastion'), bastion.job \in Jobs,
         NEW d \in Document, NEW K, PutStatus(bastion.job, d, K), SoundNext(bastion.job, d),
         CloudGrows, CloudOK', CloudSound', FleetsLeft'
  PROVE  BookInv'
<1>1. PICK j \in Jobs : j = bastion.job
  OBVIOUS
<1>2. /\ status_params' \in [Jobs -> Document] /\ (\A k \in Jobs : SoundNext(k, status_params'[k]))
      /\ \/ Happen(K) \/ Happen(K \cup {"put"})
  BY <1>1, PutSound, DocsStay DEF BookInv
<1>3. EventsOK'
  BY <1>2, Happens, TypeParts DEF BookInv
<1>4. Placed(bastion') /\ NoDocs(bastion') /\ NoRequest(bastion') /\ NoLaunch(bastion')
      /\ bastion'.pc # "create_fleet"
  BY NextPlaced
<1>5. DocsSoundNext
  BY <1>2, <1>4, DocsNext DEF BookInv
<1>6. HeldSound'
  BY <1>4, NothingHeld
<1>7. bastion'.request \subseteq bastion.request \cup cancel_param
  BY <1>4 DEF NoRequest
<1>8. QED
  BY <1>2, <1>3, <1>4, <1>5, <1>6, <1>7, BastionKeeps

\* While the bastion launches, it has a job.
LEMMA LaunchedJob ==
  ASSUME BookInv, bastion.pc \in Starting
  PROVE  bastion.job \in Jobs /\ NoDocs(bastion) /\ NoneSeen(bastion) /\ NoPuts(bastion) /\ NoRequest(bastion)
BY DEF BookInv, TypeOK, BastionState, Placed, FollowPlaced, CancelPlaced, StartPlaced, Starting, Following,
       Cancelling

\* A failed launch keeps the books.
LEMMA LaunchFailsBook ==
  ASSUME BookInv, BastionUnchanged, cancel_param' = cancel_param, bastion.pc \in Starting,
         NEW K, LaunchFails(K), bastion' \in BastionState, ToNext(bastion'),
         UNCHANGED <<ec2, owner, finished, fleet>>, template' \in BOOLEAN
  PROVE  BookInv'
<1>1. bastion.job \in Jobs
  BY LaunchedJob
<1>2. PICK d : d = PlainDocument("FAILED", NoInstance)
  OBVIOUS
<1>3. d \in Document /\ SoundNext(bastion.job, d) /\ PutStatus(bastion.job, d, K)
  BY <1>1, <1>2, Documents, NothingNamed DEF LaunchFails, Status
<1>4. CloudOK'
  BY TypeParts DEF BookInv, CloudOK
<1>5. CloudGrows
  BY DEF CloudGrows, BastionUnchanged
<1>6. CloudSound'
  BY DEF BookInv, CloudSound, Workers, LiveOf, BastionUnchanged
<1>7. FleetsLeft'
  BY FleetsLeftStays DEF BastionUnchanged
<1>8. QED
  BY <1>1, <1>3, <1>4, <1>5, <1>6, <1>7, LaunchEnds

\* EC2 gives job j new workers.
LEMMA LaunchCloud ==
  ASSUME BookInv, NEW j \in Jobs, NEW N \in SUBSET Unused, Launch(j, N)
  PROVE  /\ ec2' \in [Instances -> Ec2States] /\ owner' \in [Instances -> Jobs \cup {NoJob}]
         /\ \A i \in Instances : owner[i] # NoJob => owner'[i] = owner[i]
         /\ \A i \in Instances \ N : ec2'[i] = ec2[i] /\ owner'[i] = owner[i]
         /\ \A i \in N : ec2'[i] = "pending" /\ owner'[i] = j
         /\ \A i \in Instances : ec2'[i] = "unused" <=> owner'[i] = NoJob
         /\ N \cap finished = {} /\ N \cap Workers(j) = {}
         /\ Workers(j)' = Workers(j) \cup N /\ LiveOf(j)' = LiveOf(j) \cup N
         /\ \A k \in Jobs \ {j} : Workers(k)' = Workers(k) /\ LiveOf(k)' = LiveOf(k)
<1>1. /\ ec2 \in [Instances -> Ec2States] /\ owner \in [Instances -> Jobs \cup {NoJob}]
      /\ finished \in SUBSET Instances
  BY TypeParts DEF BookInv, CloudOK
<1>2. \A i \in N : i \in Instances /\ ec2[i] = "unused" /\ owner[i] = NoJob
  BY DEF Unused, BookInv, CloudSound
<1>3. /\ ec2' \in [Instances -> Ec2States] /\ owner' \in [Instances -> Jobs \cup {NoJob}]
      /\ \A i \in Instances \ N : ec2'[i] = ec2[i] /\ owner'[i] = owner[i]
      /\ \A i \in N : ec2'[i] = "pending" /\ owner'[i] = j
  BY <1>1, <1>2 DEF Launch, Ec2States
<1>4. NoJob \notin Jobs
  BY DetachedAssumption
<1>5. /\ \A i \in Instances : ec2[i] = "unused" <=> owner[i] = NoJob
      /\ \A i \in finished : owner[i] # NoJob
  BY DEF BookInv, CloudSound
<1>6. /\ \A i \in Instances : owner[i] # NoJob => owner'[i] = owner[i]
      /\ \A i \in Instances : ec2'[i] = "unused" <=> owner'[i] = NoJob
  BY <1>2, <1>3, <1>4, <1>5
<1>7. N \cap finished = {} /\ N \cap Workers(j) = {}
  BY <1>2, <1>4, <1>5 DEF Workers
<1>8. Workers(j)' = Workers(j) \cup N
  BY <1>2, <1>3 DEF Workers
<1>9. LiveOf(j)' = LiveOf(j) \cup N
  BY <1>2, <1>3 DEF Workers, LiveOf, Live
<1>10. ASSUME NEW k \in Jobs \ {j}
       PROVE  Workers(k)' = Workers(k) /\ LiveOf(k)' = LiveOf(k)
  BY <1>2, <1>3, <1>4 DEF Workers, LiveOf
<1>11. QED
  BY <1>3, <1>6, <1>7, <1>8, <1>9, <1>10

\* With the new instances in hand the bastion goes to record them.
LEMMA RecordedBook ==
  ASSUME BookInv, BastionUnchanged, cancel_param' = cancel_param, bastion.pc \in Starting,
         NEW N \in SUBSET Unused, N # {}, Launch(bastion.job, N), bastion' \in BastionState,
         Recorded(bastion', N), Happen({}), UNCHANGED status_params,
         use_spot_fleet \/ \A i, k \in N : i = k,
         CloudOK', CloudGrows, CloudSound', FleetsLeft'
  PROVE  BookInv'
<1>1. PICK j \in Jobs : j = bastion.job
  BY LaunchedJob
<1>2. EventsOK'
  BY Happens, TypeParts DEF BookInv
<1>3. status_params' \in [Jobs -> Document] /\ \A k \in Jobs : SoundNext(k, status_params'[k])
  BY DocsUnwritten
<1>4. DocsSoundNext
  BY <1>3, DocsNext DEF BookInv, Recorded
<1>5. Placed(bastion) /\ NoDocs(bastion) /\ NoneSeen(bastion) /\ NoPuts(bastion) /\ NoRequest(bastion)
  BY LaunchedJob DEF BookInv
<1>6. NoRequest(bastion')
  BY <1>5 DEF Recorded, SameRequest, NoRequest
<1>7. Placed(bastion')
  <2>1. FollowPlaced(bastion')
    BY <1>5 DEF Recorded, FollowPlaced, Following, NoDocs, NoneSeen, NoPuts
  <2>2. CancelPlaced(bastion')
    BY <1>6 DEF Recorded, CancelPlaced, Cancelling, NoRequest
  <2>3. StartPlaced(bastion')
    BY <1>5 DEF Recorded, Placed, StartPlaced, Starting
  <2>4. QED
    BY <2>1, <2>2, <2>3 DEF Placed
<1>8. HeldSound'
  <2>1. \A i \in N : owner'[i] = bastion.job
    BY <1>1, LaunchCloud
  <2>2. QED
    BY <1>6, <2>1 DEF HeldSound, NoRequest, Recorded, BastionUnchanged
<1>9. bastion'.request \subseteq bastion.request \cup cancel_param
  BY <1>6 DEF NoRequest
<1>10. QED
  BY <1>2, <1>3, <1>4, <1>7, <1>8, <1>9, BastionKeeps

\* Launching an instance keeps the books.
LEMMA LaunchInstanceBook ==
  ASSUME BookInv, LaunchInstance
  PROVE  BookInv'
<1>1. /\ BastionUnchanged /\ UNCHANGED <<finished, fleet, template>> /\ cancel_param' = cancel_param
      /\ bastion.pc \in Starting /\ ~use_spot_fleet
  BY DEF LaunchInstance, Starting
<1>2. bastion' \in BastionState
  BY LaunchInstanceTo DEF BookInv
<1>3. CASE LaunchFails(IfSo(Unused # {}, "call")) /\ ToNext(bastion') /\ UNCHANGED <<ec2, owner>>
  <2>1. template' \in BOOLEAN
    BY <1>1, TypeParts DEF BookInv, CloudOK
  <2>2. QED
    BY <1>1, <1>2, <1>3, <2>1, LaunchFailsBook
<1>4. ASSUME NEW i \in Unused, Launch(bastion.job, {i}), Recorded(bastion', {i}),
             Happen({}), UNCHANGED status_params
      PROVE  BookInv'
  <2>1. PICK j \in Jobs : j = bastion.job
    BY <1>1, LaunchedJob
  <2>2. PICK N : N = {i}
    OBVIOUS
  <2>3. N \in SUBSET Unused /\ N # {} /\ Launch(j, N)
    BY <1>4, <2>1, <2>2
  <2>4. CloudOK'
    BY <1>1, <2>3, LaunchCloud, TypeParts DEF BookInv, CloudOK
  <2>5. CloudGrows
    BY <1>1, <2>3, LaunchCloud DEF CloudGrows, BastionUnchanged
  <2>6. CloudSound'
    <3>1. CloudSound /\ finished \subseteq Instances
      BY TypeParts DEF BookInv, CloudOK
    <3>2. /\ \A k \in Instances \ N : ec2'[k] = ec2[k] /\ owner'[k] = owner[k]
          /\ \A k \in Instances : ec2'[k] = "unused" <=> owner'[k] = NoJob
          /\ N \cap finished = {}
      BY <2>3, LaunchCloud
    <3>3. \A k \in finished' : ec2'[k] \notin Live /\ owner'[k] # NoJob
      BY <1>1, <3>1, <3>2 DEF CloudSound
    <3>4. QED
      BY <1>1, <3>1, <3>2, <3>3 DEF CloudSound, BastionUnchanged
  <2>7. FleetsLeft'
    BY <1>1, FleetsLeftStays DEF BastionUnchanged
  <2>8. \A k, l \in N : k = l
    BY <2>2
  <2>9. QED
    BY <1>1, <1>2, <1>4, <2>1, <2>2, <2>3, <2>4, <2>5, <2>6, <2>7, <2>8, RecordedBook
<1>5. QED
  BY <1>3, <1>4, LaunchInstanceTo DEF BookInv

\* Creating the launch template keeps the books.
LEMMA CreateTemplateBook ==
  ASSUME BookInv, CreateTemplate
  PROVE  BookInv'
<1>1. /\ BastionUnchanged /\ UNCHANGED <<ec2, owner, finished, fleet>> /\ cancel_param' = cancel_param
      /\ bastion.pc = "launch" /\ bastion.pc \in Starting /\ use_spot_fleet
  BY DEF CreateTemplate, Starting
<1>2. bastion' \in BastionState
  BY CreateTemplateTo DEF BookInv
<1>3. template' \in BOOLEAN
  BY TypeParts DEF CreateTemplate, BookInv, CloudOK
<1>4. CASE LaunchFails(IfSo(~template, "call")) /\ ToNext(bastion')
  BY <1>1, <1>2, <1>3, <1>4, LaunchFailsBook
<1>5. CASE /\ bastion'.pc = "create_fleet" /\ bastion'.todo = bastion.todo
           /\ bastion'.docs = bastion.docs /\ bastion'.seen = bastion.seen
           /\ bastion'.puts = bastion.puts
           /\ SameRequest(bastion', bastion) /\ SameLaunch(bastion', bastion)
           /\ Happen({}) /\ UNCHANGED status_params
  <2>1. EventsOK'
    BY <1>5, Happens, TypeParts DEF BookInv
  <2>2. CloudOK'
    BY <1>1, <1>3, TypeParts DEF BookInv, CloudOK
  <2>3. CloudGrows
    BY <1>1 DEF CloudGrows, BastionUnchanged
  <2>4. CloudSound'
    BY <1>1 DEF BookInv, CloudSound, Workers, LiveOf, BastionUnchanged
  <2>5. FleetsLeft'
    BY <1>1, FleetsLeftStays DEF BastionUnchanged
  <2>6. status_params' \in [Jobs -> Document] /\ \A j \in Jobs : SoundNext(j, status_params'[j])
    BY <1>5, <2>3, DocsUnwritten
  <2>7. DocsSoundNext
    BY <1>5, <2>3, <2>6, DocsNext DEF BookInv
  <2>8. Placed(bastion')
    <3>1. Placed(bastion) /\ NoDocs(bastion) /\ NoneSeen(bastion) /\ NoPuts(bastion) /\ NoRequest(bastion)
      BY <1>1, LaunchedJob DEF BookInv
    <3>2. FollowPlaced(bastion')
      BY <1>5, <3>1 DEF FollowPlaced, Following, NoDocs, NoneSeen, NoPuts
    <3>3. CancelPlaced(bastion')
      BY <1>5, <3>1 DEF CancelPlaced, Cancelling, NoRequest, SameRequest
    <3>4. StartPlaced(bastion')
      BY <1>1, <1>5, <3>1 DEF Placed, StartPlaced, Starting, SameLaunch
    <3>5. QED
      BY <3>2, <3>3, <3>4 DEF Placed
  <2>9. HeldSound'
    BY <1>1, <1>5, <2>3, HeldStays
  <2>10. bastion'.request \subseteq bastion.request \cup cancel_param
    BY <1>5 DEF SameRequest
  <2>11. QED
    BY <1>1, <1>2, <2>1, <2>2, <2>3, <2>4, <2>5, <2>6, <2>7, <2>8, <2>9, <2>10, BastionKeeps
<1>6. QED
  BY <1>4, <1>5, CreateTemplateTo DEF BookInv

\* Creating a fleet keeps the books.
LEMMA CreateFleetBook ==
  ASSUME BookInv, CreateFleet
  PROVE  BookInv'
<1>1. /\ BastionUnchanged /\ UNCHANGED finished /\ cancel_param' = cancel_param
      /\ bastion.pc = "create_fleet" /\ bastion.pc \in Starting /\ use_spot_fleet
  BY DEF CreateFleet, Starting, BookInv, HeldSound
<1>2. bastion' \in BastionState
  BY CreateFleetTo DEF BookInv
<1>3. template' \in BOOLEAN
  BY TypeParts DEF CreateFleet, BookInv, CloudOK
<1>4. PICK j \in Jobs : j = bastion.job
  BY <1>1, LaunchedJob
<1>5. fleet \in [Jobs -> {"none", "active", "failed", "deleted"}] /\ CloudOK
  BY TypeParts DEF BookInv, CloudOK
<1>6. CASE LaunchFails(IfSo(fleet[bastion.job] = "none", "call")) /\ ToNext(bastion')
           /\ UNCHANGED <<ec2, owner, fleet>>
  BY <1>1, <1>2, <1>3, <1>6, LaunchFailsBook
<1>7. CASE /\ fleet[j] = "none" /\ fleet' = [fleet EXCEPT ![j] = "failed"]
           /\ PutStatus(j, FleetDocument("FAILED", NoInstance, {}), {})
           /\ ToNext(bastion') /\ UNCHANGED <<ec2, owner>>
  <2>1. PICK d : d = FleetDocument("FAILED", NoInstance, {})
    OBVIOUS
  <2>2. d \in Document
    BY <2>1, Documents DEF Status
  <2>3. fleet' \in [Jobs -> {"none", "active", "failed", "deleted"}] /\ fleet'[j] = "failed"
        /\ \A k \in Jobs \ {j} : fleet'[k] = fleet[k]
    BY <1>5, <1>7
  <2>4. SoundNext(j, d)
    BY <1>1, <2>1, <2>3 DEF SoundNext, FleetDocument, BastionUnchanged
  <2>5. CloudOK'
    BY <1>1, <1>3, <1>5, <1>7, <2>3 DEF CloudOK
  <2>6. CloudGrows
    BY <1>1, <1>7, <2>3 DEF CloudGrows, BastionUnchanged
  <2>7. CloudSound'
    <3>1. CloudSound
      BY DEF BookInv
    <3>2. \A k \in Jobs : Workers(k)' = Workers(k) /\ LiveOf(k)' = LiveOf(k)
      BY <1>7 DEF Workers, LiveOf
    <3>3. /\ \A i \in Instances : ec2'[i] = "unused" <=> owner'[i] = NoJob
          /\ \A i \in finished' : ec2'[i] \notin Live /\ owner'[i] # NoJob
      BY <1>1, <1>7, <3>1 DEF CloudSound
    <3>4. Workers(j) = {} /\ LiveOf(j) = {}
      BY <1>1, <1>7, <3>1 DEF CloudSound
    <3>5. \A k \in Jobs : /\ fleet'[k] \in {"none", "failed"} => Workers(k)' = {}
                          /\ fleet'[k] = "active" => Workers(k)' # {}
                          /\ fleet'[k] # "active" => LiveOf(k)' = {}
      BY <1>1, <2>3, <3>1, <3>2, <3>4 DEF CloudSound
    <3>6. QED
      BY <1>1, <3>3, <3>5 DEF CloudSound, BastionUnchanged
  <2>8. FleetsLeft'
    <3>1. \A k \in Jobs : fleet'[k] = "deleted" => fleet[k] = "deleted" \/ k \in bastion.fleets
      BY <2>3
    <3>2. QED
      BY <1>1, <3>1, FleetsLeftStays DEF BastionUnchanged
  <2>9. QED
    BY <1>1, <1>2, <1>4, <1>7, <2>1, <2>2, <2>4, <2>5, <2>6, <2>7, <2>8, LaunchEnds
<1>8. ASSUME NEW N \in SUBSET Unused, fleet[j] = "none", fleet' = [fleet EXCEPT ![j] = "active"],
             N # {}, Launch(j, N), Recorded(bastion', N), Happen({}), UNCHANGED status_params
      PROVE  BookInv'
  <2>1. fleet' \in [Jobs -> {"none", "active", "failed", "deleted"}] /\ fleet'[j] = "active"
        /\ \A k \in Jobs \ {j} : fleet'[k] = fleet[k]
    BY <1>5, <1>8
  <2>2. CloudOK'
    BY <1>1, <1>3, <1>5, <1>8, <2>1, LaunchCloud DEF CloudOK
  <2>3. CloudGrows
    BY <1>1, <1>8, <2>1, LaunchCloud DEF CloudGrows, BastionUnchanged
  <2>4. CloudSound'
    <3>1. CloudSound /\ finished \subseteq Instances
      BY <1>5 DEF BookInv, CloudOK
    <3>2. /\ \A k \in Instances \ N : ec2'[k] = ec2[k] /\ owner'[k] = owner[k]
          /\ \A k \in Instances : ec2'[k] = "unused" <=> owner'[k] = NoJob
          /\ N \cap finished = {}
          /\ Workers(j)' = Workers(j) \cup N
          /\ \A k \in Jobs \ {j} : Workers(k)' = Workers(k) /\ LiveOf(k)' = LiveOf(k)
      BY <1>8, LaunchCloud
    <3>3. \A k \in finished' : ec2'[k] \notin Live /\ owner'[k] # NoJob
      BY <1>1, <3>1, <3>2 DEF CloudSound
    <3>4. \A k \in Jobs : /\ fleet'[k] \in {"none", "failed"} => Workers(k)' = {}
                          /\ fleet'[k] = "active" => Workers(k)' # {}
                          /\ fleet'[k] # "active" => LiveOf(k)' = {}
      <4>1. ASSUME NEW k \in Jobs \ {j}
            PROVE  /\ fleet'[k] \in {"none", "failed"} => Workers(k)' = {}
                   /\ fleet'[k] = "active" => Workers(k)' # {}
                   /\ fleet'[k] # "active" => LiveOf(k)' = {}
        BY <1>1, <2>1, <3>1, <3>2 DEF CloudSound
      <4>2. fleet'[j] = "active" /\ Workers(j)' # {}
        BY <1>8, <2>1, <3>2
      <4>3. QED
        BY <4>1, <4>2
    <3>5. QED
      BY <1>1, <3>2, <3>3, <3>4 DEF CloudSound, BastionUnchanged
  <2>5. FleetsLeft'
    <3>1. \A k \in Jobs : fleet'[k] = "deleted" => fleet[k] = "deleted" \/ k \in bastion.fleets
      BY <2>1
    <3>2. QED
      BY <1>1, <3>1, FleetsLeftStays DEF BastionUnchanged
  <2>6. QED
    BY <1>1, <1>2, <1>4, <1>8, <2>2, <2>3, <2>4, <2>5, RecordedBook
<1>9. QED
  BY <1>4, <1>6, <1>7, <1>8, CreateFleetTo DEF BookInv

\* Recording the new instances keeps the books.
LEMMA RecordLaunchBook ==
  ASSUME BookInv, RecordLaunch
  PROVE  BookInv'
<1>1. /\ BastionUnchanged /\ UNCHANGED cloudVars /\ cancel_param' = cancel_param
      /\ bastion.pc \in Starting /\ bastion.pc = "record"
  BY DEF RecordLaunch, Starting
<1>2. /\ bastion' \in BastionState /\ ToNext(bastion')
      /\ Primary \in bastion.new /\ Primary \in Instances
      /\ PutStatus(bastion.job, IF use_spot_fleet THEN FleetDocument("RUNNING", Primary, bastion.new)
                                                  ELSE PlainDocument("RUNNING", Primary), {})
  BY RecordLaunchTo DEF BookInv, Placed
<1>3. PICK d : d = IF use_spot_fleet THEN FleetDocument("RUNNING", Primary, bastion.new)
                                     ELSE PlainDocument("RUNNING", Primary)
  OBVIOUS
<1>4. PICK j \in Jobs : j = bastion.job
  BY <1>1, LaunchedJob
<1>5. CloudOK' /\ CloudGrows /\ CloudSound' /\ FleetsLeft'
  BY <1>1, CloudStays, FleetsLeftStays DEF BastionUnchanged, cloudVars
<1>6. /\ bastion.new \in SUBSET Instances
      /\ \A i \in bastion.new : owner'[i] = j
  BY <1>1, <1>4 DEF BookInv, TypeOK, BastionState, HeldSound, cloudVars
<1>7. d \in Document
  BY <1>2, <1>3, <1>6, Documents DEF Status
<1>8. SoundNext(j, d)
  <2>1. CASE use_spot_fleet
    <3>1. \A i \in bastion.new : i \in Workers(j)
      BY <1>1, <1>6 DEF Workers, cloudVars
    <3>2. fleet'[j] # "none"
      BY <1>1, <1>2, <2>1, <3>1 DEF BookInv, CloudSound, cloudVars
    <3>3. QED
      BY <1>1, <1>2, <1>3, <1>6, <2>1, <3>2, DetachedAssumption DEF SoundNext, FleetDocument, BastionUnchanged
  <2>2. CASE ~use_spot_fleet
    BY <1>1, <1>2, <1>3, <1>6, <2>2 DEF SoundNext, PlainDocument, BastionUnchanged
  <2>3. QED
    BY <2>1, <2>2
<1>9. QED
  BY <1>1, <1>2, <1>3, <1>4, <1>5, <1>7, <1>8, LaunchEnds

\* The restarted or halted bastion starts with nothing in hand.
LEMMA CrashBook ==
  ASSUME BookInv, Crash \/ IdleShutdown
  PROVE  BookInv'
<1>1. /\ BastionUnchanged /\ UNCHANGED cloudVars /\ status_params' = status_params
      /\ cancel_param' \subseteq cancel_param /\ AtRest(bastion')
  BY DEF Crash, IdleShutdown, BastionUnchanged, paramVars, cloudVars, AtRest
<1>2. EventsOK'
  BY Happens, TypeParts DEF BookInv, Crash, IdleShutdown
<1>3. status_params' \in [Jobs -> Document] /\ \A j \in Jobs : SoundNext(j, status_params'[j])
  BY <1>1, CloudStays, DocsUnwritten DEF BastionUnchanged
<1>4. QED
  BY <1>1, <1>2, <1>3, RestStep

\* What a step of the client has to show: the bastion holds what it held, EC2
\* only stops workers, and a fleet it deletes has no live one.
LEMMA ClientKeeps ==
  ASSUME BookInv, ClientUnchanged, ParamsOK', ClientOK', EventsOK', forsaken' \in SUBSET Instances,
         ec2' \in [Instances -> Ec2States],
         \A i \in Instances : /\ ec2'[i] \in Live => ec2[i] \in Live
                              /\ ec2'[i] = "unused" <=> ec2[i] = "unused",
         fleet' \in [Jobs -> {"none", "active", "failed", "deleted"}],
         \A j \in Jobs : \/ fleet'[j] = fleet[j]
                         \/ /\ use_spot_fleet /\ fleet[j] # "none" /\ fleet'[j] = "deleted"
                            /\ \A i \in Workers(j) : ec2'[i] \notin Live,
         \A j \in Jobs : status_params'[j] = status_params[j] \/ SoundNext(j, status_params'[j]),
         ClientSound', FleetsLeft'
  PROVE  BookInv'
<1>1. /\ use_spot_fleet' = use_spot_fleet /\ bastion' = bastion /\ owner' = owner
      /\ finished' = finished /\ template' = template
  BY DEF ClientUnchanged
<1>2. CloudOK' /\ use_spot_fleet' \in BOOLEAN /\ bastion' \in BastionState
  BY <1>1, TypeParts DEF BookInv, CloudOK
<1>3. TypeOK'
  BY <1>2, TypeParts
<1>4. CloudGrows
  BY <1>1 DEF CloudGrows
<1>5. DocsSound'
  <2>1. \A j \in Jobs : SoundNext(j, status_params[j]) /\ SoundNext(j, bastion.docs[j])
    BY <1>4, DocsStay DEF BookInv
  <2>2. \A j \in Jobs : SoundNext(j, status_params'[j]) /\ SoundNext(j, bastion'.docs[j])
    <3>1. ASSUME NEW j \in Jobs
          PROVE  SoundNext(j, status_params'[j])
      <4>1. CASE status_params'[j] = status_params[j]
        BY <2>1, <4>1
      <4>2. QED
        BY <4>1
    <3>2. QED
      BY <1>1, <2>1, <3>1
  <2>3. QED
    BY <2>2, SoundNexts DEF DocsSoundNext
<1>6. HeldSound'
  BY <1>1 DEF BookInv, HeldSound
<1>7. Placed(bastion')
  BY <1>1 DEF BookInv
<1>8. CloudSound'
  <2>1. CloudSound /\ finished \subseteq Instances
    BY TypeParts DEF BookInv, CloudOK
  <2>2. \A j \in Jobs : Workers(j)' = Workers(j) /\ LiveOf(j)' \subseteq LiveOf(j)
    BY <1>1 DEF LiveOf, Workers
  <2>3. /\ \A i \in Instances : ec2'[i] = "unused" <=> owner'[i] = NoJob
        /\ \A i \in finished' : ec2'[i] \notin Live /\ owner'[i] # NoJob
    BY <1>1, <2>1 DEF CloudSound
  <2>4. \A j \in Jobs : fleet'[j] = fleet[j] \/ (use_spot_fleet /\ fleet'[j] = "deleted" /\ LiveOf(j)' = {})
    BY <2>2 DEF LiveOf
  <2>5. ~use_spot_fleet' => \A j \in Jobs : fleet'[j] = "none"
    BY <1>1, <2>1, <2>4 DEF CloudSound
  <2>6. ASSUME NEW j \in Jobs, use_spot_fleet'
        PROVE  /\ fleet'[j] \in {"none", "failed"} => Workers(j)' = {}
               /\ fleet'[j] = "active" => Workers(j)' # {}
               /\ fleet'[j] # "active" => LiveOf(j)' = {}
    BY <1>1, <2>1, <2>2, <2>4, <2>6 DEF CloudSound
  <2>7. QED
    BY <2>3, <2>5, <2>6 DEF CloudSound
<1>9. QED
  BY <1>3, <1>5, <1>6, <1>7, <1>8 DEF BookInv

\* When the client's step changes nothing at EC2.
LEMMA ClientQuiet ==
  ASSUME BookInv, ClientUnchanged, UNCHANGED <<ec2, fleet>>, ParamsOK', ClientOK', EventsOK',
         forsaken' \in SUBSET Instances,
         \A j \in Jobs : status_params'[j] = status_params[j] \/ SoundNext(j, status_params'[j]),
         ClientSound', \A j \in Jobs : Left(j) => Left(j)'
  PROVE  BookInv'
<1>1. /\ ec2' \in [Instances -> Ec2States]
      /\ \A i \in Instances : /\ ec2'[i] \in Live => ec2[i] \in Live
                              /\ ec2'[i] = "unused" <=> ec2[i] = "unused"
      /\ fleet' \in [Jobs -> {"none", "active", "failed", "deleted"}]
      /\ \A j \in Jobs : fleet'[j] = fleet[j]
  BY TypeParts DEF BookInv, CloudOK
<1>2. FleetsLeft'
  BY DEF BookInv, FleetsLeft
<1>3. QED
  BY <1>1, <1>2, ClientKeeps

\* What has been left stays left, whatever the client does.
LEMMA LeftStaysClient ==
  ASSUME BookInv, NEW j \in Jobs, Left(j),
         \/ \E k \in Jobs : SubmitJob(k) \/ GetJobStatus(k) \/ CleanupResources(k)
         \/ \E S \in SUBSET Jobs : CancelJobs(S)
         \/ ClientContinues
  PROVE  Left(j)'
<1>1. resources \in [Jobs -> LocalRecord] /\ client.op \in {"idle", "submit", "delete_jobs", "delete_status"}
  BY DEF BookInv, TypeOK
<1>2. ASSUME NEW k \in Jobs, SubmitJob(k)
      PROVE  Left(j)'
  BY <1>2 DEF SubmitJob, ClientIdle, Left, Deleting, Submitting, Tracked, BookInv, ClientSound
<1>3. ASSUME NEW k \in Jobs, GetJobStatus(k)
      PROVE  Left(j)'
  <2>1. \A l \in Jobs \ {k} : resources'[l] = resources[l]
    BY <1>1, <1>3 DEF GetJobStatus
  <2>2. QED
    BY <1>3, <2>1 DEF GetJobStatus, ClientIdle, Left, Deleting, Submitting, Tracked
<1>4. ASSUME NEW k \in Jobs, CleanupResources(k)
      PROVE  Left(j)'
  <2>1. resources' = resources \/ resources' = MarkedCanceled({k})
    BY <1>4 DEF CleanupResources
  <2>2. \A l \in Jobs \ {k} : resources'[l] = resources[l]
    BY <1>1, <2>1 DEF MarkedCanceled
  <2>3. Deleting(k)'
    BY <1>4 DEF CleanupResources, Deleting
  <2>4. canceled \subseteq canceled' /\ submitted' = submitted /\ client.op = "idle" /\ client'.op = "delete_jobs"
    BY <1>4 DEF CleanupResources, RequestCancel, ClientIdle
  <2>5. QED
    BY <2>2, <2>3, <2>4 DEF Left, Deleting, Submitting, Tracked
<1>5. ASSUME NEW S \in SUBSET Jobs, CancelJobs(S)
      PROVE  Left(j)'
  <2>1. canceled' = canceled \cup S /\ submitted' = submitted /\ client' = client
    BY <1>5 DEF CancelJobs, RequestCancel
  <2>2. j \notin S => resources'[j] = resources[j]
    BY <1>5 DEF CancelJobs, MarkedCanceled
  <2>3. QED
    BY <2>1, <2>2 DEF Left, Deleting, Submitting, Tracked
<1>6. CASE SubmitStatus
  <2>1. client.op = "submit" /\ client' = ClientIdle /\ submitted' = submitted /\ canceled' = canceled
    BY <1>6 DEF SubmitStatus
  <2>2. j # client.job => resources'[j] = resources[j]
    BY <1>1, <1>6 DEF SubmitStatus
  <2>3. j = client.job => j \in canceled
    BY <2>1 DEF Left, Deleting, Submitting
  <2>4. QED
    BY <2>1, <2>2, <2>3 DEF ClientIdle, Left, Deleting, Submitting, Tracked
<1>7. CASE DropRecord /\ client.op \in {"delete_jobs", "delete_status"} /\ UNCHANGED <<submitted, canceled>>
  <2>1. client' = ClientIdle /\ submitted' = submitted /\ canceled' = canceled
    BY <1>7 DEF DropRecord
  <2>2. j # client.job => resources'[j] = resources[j]
    BY <1>1, <1>7 DEF DropRecord
  <2>3. j = client.job => resources'[j] = NoLocalRecord /\ j \in submitted
    BY <1>1, <1>7, <2>1 DEF DropRecord, BookInv, ClientSound
  <2>4. QED
    BY <1>7, <2>1, <2>2, <2>3 DEF ClientIdle, Left, Deleting, Submitting, Tracked, NoLocalRecord
<1>8. CASE DeleteJob \/ DeleteStatus
  <2>1. CASE DropRecord
    BY <1>7, <1>8, <2>1 DEF DeleteJob, DeleteStatus
  <2>2. CASE DeleteJob /\ ~DropRecord
    <3>1. client'.op = "delete_status" /\ client'.job = client.job
      BY <2>2 DEF DeleteJob, BookInv, TypeOK
    <3>2. QED
      BY <2>2, <3>1 DEF DeleteJob, Left, Deleting, Submitting, Tracked
  <2>3. QED
    BY <1>8, <2>1, <2>2 DEF DeleteStatus
<1>9. QED
  BY <1>2, <1>3, <1>4, <1>5, <1>6, <1>8 DEF ClientContinues

\* The steps of submit_job() keep the books.
LEMMA SubmitBook ==
  ASSUME BookInv, (\E j \in Jobs : SubmitJob(j)) \/ SubmitStatus
  PROVE  BookInv'
<1>1. /\ resources \in [Jobs -> LocalRecord] /\ status_params \in [Jobs -> Document]
      /\ ClientSound /\ submitted \subseteq Jobs
  BY DEF BookInv, TypeOK
<1>2. \A j \in Jobs : Left(j) => Left(j)'
  BY LeftStaysClient DEF ClientContinues
<1>3. ASSUME NEW j \in Jobs, SubmitJob(j)
      PROVE  BookInv'
  <2>1. ParamsOK' /\ ClientOK' /\ forsaken' \in SUBSET Instances
    BY <1>3, TypeParts DEF SubmitJob, BookInv, ParamsOK, ClientOK
  <2>2. EventsOK'
    BY <1>3, TypeParts DEF SubmitJob, eventVars, EventsOK, BookInv
  <2>3. ClientSound'
    <3>1. ~Tracked(j) /\ j \notin canceled
      BY <1>1, <1>3 DEF SubmitJob, ClientSound
    <3>2. QED
      BY <1>1, <1>3, <3>1 DEF SubmitJob, ClientUnchanged, ClientSound, Tracked, Submitting, ClientIdle
  <2>4. QED
    BY <1>2, <1>3, <2>1, <2>2, <2>3, ClientQuiet DEF SubmitJob
<1>4. CASE SubmitStatus
  <2>1. PICK j \in Jobs : j = client.job /\ Submitting(j)
    BY <1>1, <1>4 DEF SubmitStatus, ClientSound, Submitting
  <2>2. \/ /\ status_params' = [status_params EXCEPT ![j] = PlainDocument("PENDING", NoInstance)]
           /\ resources' = [resources EXCEPT ![j] = [NoLocalRecord EXCEPT !.status = "PENDING"]]
           /\ Happen({})
        \/ Happen({"client_call"}) /\ UNCHANGED <<status_params, resources>>
    BY <1>4, <2>1 DEF SubmitStatus
  <2>3. EventsOK'
    BY <2>2, Happens, TypeParts DEF BookInv
  <2>4. client' = ClientIdle /\ UNCHANGED <<job_params, cancel_param, submitted, canceled, ec2, fleet>>
        /\ ClientUnchanged /\ forsaken' \in SUBSET Instances
    BY <1>4, TypeParts DEF SubmitStatus, BookInv
  <2>5. CASE UNCHANGED <<status_params, resources>>
    <3>1. ParamsOK' /\ ClientOK'
      BY <2>4, <2>5, TypeParts DEF ClientIdle, BookInv, ParamsOK, ClientOK
    <3>2. ClientSound'
      BY <1>1, <2>4, <2>5 DEF ClientUnchanged, ClientSound, Tracked, Submitting, ClientIdle
    <3>3. QED
      BY <1>2, <2>3, <2>4, <2>5, <3>1, <3>2, ClientQuiet
  <2>6. CASE /\ status_params' = [status_params EXCEPT ![j] = PlainDocument("PENDING", NoInstance)]
             /\ resources' = [resources EXCEPT ![j] = [NoLocalRecord EXCEPT !.status = "PENDING"]]
    <3>1. PICK d, e : d = PlainDocument("PENDING", NoInstance) /\ e = [NoLocalRecord EXCEPT !.status = "PENDING"]
      OBVIOUS
    <3>2. d \in Document /\ e \in LocalRecord /\ e.status = "PENDING" /\ ~e.fleet_request_id
          /\ SoundNext(j, d)
      BY <3>1, Documents, NothingNamed DEF Status, NoLocalRecord, LocalRecord
    <3>3. status_params' = [status_params EXCEPT ![j] = d] /\ resources' = [resources EXCEPT ![j] = e]
      BY <2>6, <3>1
    <3>4. ParamsOK' /\ ClientOK'
      BY <1>1, <2>4, <3>2, <3>3, TypeParts DEF ClientIdle, BookInv, ParamsOK, ClientOK
    <3>5. \A k \in Jobs : status_params'[k] = status_params[k] \/ SoundNext(k, status_params'[k])
      BY <1>1, <3>2, <3>3
    <3>6. resources'[j] = e /\ \A k \in Jobs \ {j} : resources'[k] = resources[k]
      BY <1>1, <3>3
    <3>7. j \in submitted /\ j \notin canceled
      BY <1>1, <2>1 DEF ClientSound, Submitting
    <3>8. ClientSound'
      <4>1. \A k \in Jobs : Tracked(k)' => k \in submitted'
        BY <1>1, <2>4, <3>6, <3>7 DEF ClientSound, Tracked
      <4>2. \A k \in canceled' : resources'[k].status \in {"CANCELED", Absent}
        BY <1>1, <2>4, <3>6, <3>7 DEF ClientSound
      <4>3. \A k \in Jobs : resources'[k].fleet_request_id => use_spot_fleet' /\ fleet'[k] # "none"
        BY <1>1, <2>4, <3>2, <3>6 DEF ClientSound, ClientUnchanged
      <4>4. client'.op = "idle"
        BY <2>4 DEF ClientIdle
      <4>5. QED
        BY <1>1, <2>4, <4>1, <4>2, <4>3, <4>4 DEF ClientSound, Submitting, ClientUnchanged
    <3>9. QED
      BY <1>2, <2>3, <2>4, <3>4, <3>5, <3>8, ClientQuiet
  <2>7. QED
    BY <2>2, <2>5, <2>6
<1>5. QED
  BY <1>3, <1>4

\* get_job_status() keeps the books.
LEMMA GetJobStatusBook ==
  ASSUME BookInv, NEW j \in Jobs, GetJobStatus(j)
  PROVE  BookInv'
<1>1. /\ resources \in [Jobs -> LocalRecord] /\ status_params \in [Jobs -> Document]
      /\ ClientSound
  BY DEF BookInv, TypeOK
<1>2. \A k \in Jobs : Left(k) => Left(k)'
  BY LeftStaysClient
<1>3. PICK e : e = [status |-> status_params[j].status,
                    fleet_request_id |-> resources[j].fleet_request_id \/ status_params[j].fleet_request_id]
  OBVIOUS
<1>4. /\ e \in LocalRecord /\ e.status = status_params[j].status
      /\ e.fleet_request_id = (resources[j].fleet_request_id \/ status_params[j].fleet_request_id)
  <2>1. status_params[j].status \in Status \cup {Absent}
    BY <1>1 DEF Document
  <2>2. (resources[j].fleet_request_id \/ status_params[j].fleet_request_id) \in BOOLEAN
    OBVIOUS
  <2>3. QED
    BY <1>3, <2>1, <2>2 DEF LocalRecord
<1>5. /\ resources' = [resources EXCEPT ![j] = e]
      /\ UNCHANGED <<paramVars, client, submitted, canceled, ec2, fleet, forsaken, eventVars>> /\ ClientUnchanged
      /\ client = ClientIdle /\ Tracked(j) /\ resources[j].status \notin Terminal
  BY <1>3 DEF GetJobStatus
<1>6. ParamsOK' /\ ClientOK' /\ EventsOK' /\ forsaken' \in SUBSET Instances
  BY <1>1, <1>4, <1>5, TypeParts DEF BookInv, ParamsOK, ClientOK, EventsOK, paramVars, eventVars
<1>7. resources'[j] = e /\ \A k \in Jobs \ {j} : resources'[k] = resources[k]
  BY <1>1, <1>5
<1>8. j \notin canceled /\ j \in submitted
  BY <1>1, <1>5 DEF ClientSound, Tracked, Terminal
<1>9. ClientSound'
  <2>1. \A k \in Jobs : Tracked(k)' => k \in submitted'
    BY <1>1, <1>5, <1>7, <1>8 DEF ClientSound, Tracked
  <2>2. canceled' \subseteq Jobs /\ \A k \in canceled' : resources'[k].status \in {"CANCELED", Absent}
    BY <1>1, <1>5, <1>7, <1>8 DEF ClientSound, BookInv, TypeOK
  <2>3. \A k \in Jobs : resources'[k].fleet_request_id => use_spot_fleet' /\ fleet'[k] # "none"
    BY <1>1, <1>4, <1>5, <1>7 DEF ClientSound, ClientUnchanged, BookInv, DocsSound, DocSound
  <2>4. client'.op = "idle"
    BY <1>5 DEF ClientIdle
  <2>5. QED
    BY <1>1, <1>5, <2>1, <2>2, <2>3, <2>4 DEF ClientSound, Submitting, ClientUnchanged, paramVars
<1>10. QED
  BY <1>2, <1>5, <1>6, <1>9, ClientQuiet DEF paramVars

\* The marks of cancel_jobs() in the records of the jobs of S.
LEMMA Marks ==
  ASSUME TypeOK, NEW S \in SUBSET Jobs, resources' = MarkedCanceled(S)
  PROVE  /\ resources' \in [Jobs -> LocalRecord]
         /\ \A k \in Jobs : /\ k \in S => resources'[k].status = "CANCELED"
                            /\ k \notin S => resources'[k] = resources[k]
                            /\ resources'[k].fleet_request_id = resources[k].fleet_request_id
<1>1. ASSUME NEW k \in Jobs
      PROVE  /\ [resources[k] EXCEPT !.status = "CANCELED"] \in LocalRecord
             /\ [resources[k] EXCEPT !.status = "CANCELED"].status = "CANCELED"
             /\ [resources[k] EXCEPT !.status = "CANCELED"].fleet_request_id = resources[k].fleet_request_id
             /\ resources[k] \in LocalRecord
  <2>1. PICK r : r = resources[k]
    OBVIOUS
  <2>2. r \in LocalRecord
    BY <2>1 DEF TypeOK
  <2>3. /\ [r EXCEPT !.status = "CANCELED"] \in LocalRecord
        /\ [r EXCEPT !.status = "CANCELED"].status = "CANCELED"
        /\ [r EXCEPT !.status = "CANCELED"].fleet_request_id = r.fleet_request_id
    BY <2>2 DEF LocalRecord, Status
  <2>4. QED
    BY <2>1, <2>2, <2>3
<1>2. QED
  BY <1>1 DEF MarkedCanceled

\* cancel_jobs() keeps the books.
LEMMA CancelJobsBook ==
  ASSUME BookInv, NEW S \in SUBSET Jobs, CancelJobs(S)
  PROVE  BookInv'
<1>1. /\ UNCHANGED <<job_params, status_params, client, submitted, ec2, fleet>> /\ ClientUnchanged
      /\ canceled' = canceled \cup S /\ cancel_param' \in {S, cancel_param}
      /\ \A j \in S : Tracked(j)
      /\ resources' = MarkedCanceled(S) /\ client.op = "idle"
  BY DEF CancelJobs, RequestCancel, ClientIdle
<1>2. EventsOK'
  BY Happens, TypeParts DEF BookInv, CancelJobs, RequestCancel
<1>3. \A k \in Jobs : Left(k) => Left(k)'
  BY LeftStaysClient
<1>4. /\ resources' \in [Jobs -> LocalRecord]
      /\ \A k \in Jobs : /\ k \in S => resources'[k].status = "CANCELED"
                         /\ k \notin S => resources'[k] = resources[k]
                         /\ resources'[k].fleet_request_id = resources[k].fleet_request_id
  BY <1>1, Marks DEF BookInv
<1>5. ParamsOK' /\ ClientOK' /\ forsaken' \in SUBSET Instances
  BY <1>1, <1>4, TypeParts DEF BookInv, ParamsOK, ClientOK, CancelJobs
<1>6. ClientSound'
  <2>1. ClientSound /\ canceled \subseteq Jobs
    BY DEF BookInv, TypeOK
  <2>2. S \subseteq submitted
    BY <1>1, <2>1 DEF ClientSound
  <2>3. \A k \in Jobs : Tracked(k)' => k \in submitted'
    BY <1>1, <1>4, <2>1, <2>2 DEF ClientSound, Tracked
  <2>4. \A k \in canceled' : resources'[k].status \in {"CANCELED", Absent}
    BY <1>1, <1>4, <2>1 DEF ClientSound
  <2>5. \A k \in Jobs : resources'[k].fleet_request_id => use_spot_fleet' /\ fleet'[k] # "none"
    BY <1>1, <1>4, <2>1 DEF ClientSound, ClientUnchanged
  <2>6. QED
    BY <1>1, <2>1, <2>2, <2>3, <2>4, <2>5 DEF ClientSound, Submitting, ClientUnchanged
<1>7. QED
  BY <1>1, <1>2, <1>3, <1>5, <1>6, ClientQuiet

\* cleanup_resources() keeps the books: it deletes the fleet of the job it has
\* in hand.
LEMMA CleanupBook ==
  ASSUME BookInv, NEW j \in Jobs, CleanupResources(j)
  PROVE  BookInv'
<1>1. /\ UNCHANGED <<job_params, status_params, submitted, forsaken>> /\ ClientUnchanged
      /\ client = ClientIdle /\ client' = [op |-> "delete_jobs", job |-> j] /\ Tracked(j)
  BY DEF CleanupResources
<1>1a. PICK gone \in BOOLEAN :
         /\ gone => resources[j].fleet_request_id
         /\ gone => ec2' = Stopped(Workers(j)) /\ fleet' = [fleet EXCEPT ![j] = "deleted"]
         /\ ~gone => ec2' = ec2 /\ fleet' = fleet
  BY DEF CleanupResources
<1>2. \/ /\ resources' = MarkedCanceled({j}) /\ canceled' = canceled \cup {j}
         /\ cancel_param' \in {{j}, cancel_param} /\ resources'[j].status = "CANCELED"
      \/ UNCHANGED <<cancel_param, canceled, resources>>
  BY DEF CleanupResources, RequestCancel, MarkedCanceled, BookInv, TypeOK, LocalRecord
<1>3. EventsOK'
  <2>1. \E K : Happen(K)
    BY DEF CleanupResources, RequestCancel
  <2>2. QED
    BY <2>1, Happens, TypeParts DEF BookInv
<1>4. \A k \in Jobs : Left(k) => Left(k)'
  BY LeftStaysClient
<1>5. ClientSound /\ canceled \subseteq Jobs /\ resources \in [Jobs -> LocalRecord]
  BY DEF BookInv, TypeOK
<1>6. /\ resources' \in [Jobs -> LocalRecord]
      /\ \A k \in Jobs : /\ resources'[k].fleet_request_id = resources[k].fleet_request_id
                         /\ k # j => resources'[k] = resources[k]
                         /\ resources'[k].status \in {resources[k].status, "CANCELED"}
  <2>1. CASE resources' = MarkedCanceled({j})
    <3>1. PICK S \in SUBSET Jobs : S = {j}
      OBVIOUS
    <3>2. resources' = MarkedCanceled(S)
      BY <2>1, <3>1
    <3>3. /\ resources' \in [Jobs -> LocalRecord]
          /\ \A k \in Jobs : /\ k \in S => resources'[k].status = "CANCELED"
                             /\ k \notin S => resources'[k] = resources[k]
                             /\ resources'[k].fleet_request_id = resources[k].fleet_request_id
      BY <3>2, Marks DEF BookInv
    <3>4. QED
      BY <3>1, <3>3
  <2>2. CASE resources' = resources
    BY <1>5, <2>2
  <2>3. QED
    BY <1>2, <2>1, <2>2
<1>7. ParamsOK' /\ ClientOK' /\ forsaken' \in SUBSET Instances
  BY <1>1, <1>2, <1>6, TypeParts DEF BookInv, ParamsOK, ClientOK
<1>8. j \in submitted
  BY <1>1, <1>5 DEF ClientSound
<1>9. ec2 \in [Instances -> Ec2States]
  BY TypeParts DEF BookInv, CloudOK
<1>10. /\ ec2' \in [Instances -> Ec2States]
       /\ \A i \in Instances : /\ ec2'[i] \in Live => ec2[i] \in Live /\ ~(gone /\ i \in Workers(j))
                               /\ ec2'[i] = "unused" <=> ec2[i] = "unused"
  <2>1. CASE gone
    BY <1>1a, <2>1, StoppedIs, TypeParts DEF BookInv
  <2>2. CASE ~gone
    BY <1>9, <1>1a, <2>2
  <2>3. QED
    BY <2>1, <2>2
<1>11. fleet \in [Jobs -> {"none", "active", "failed", "deleted"}]
  BY DEF BookInv, TypeOK
<1>12. /\ fleet' \in [Jobs -> {"none", "active", "failed", "deleted"}]
       /\ \A k \in Jobs : fleet'[k] = IF k = j /\ gone THEN "deleted" ELSE fleet[k]
  BY <1>1a, <1>11
<1>13. \A k \in Jobs : \/ fleet'[k] = fleet[k]
                       \/ /\ use_spot_fleet /\ fleet[k] # "none" /\ fleet'[k] = "deleted"
                          /\ \A i \in Workers(k) : ec2'[i] \notin Live
  <2>1. gone => use_spot_fleet /\ fleet[j] # "none"
    BY <1>5, <1>1a DEF ClientSound
  <2>2. gone => \A i \in Workers(j) : ec2'[i] \notin Live
    BY <1>10 DEF Workers
  <2>3. QED
    BY <1>12, <2>1, <2>2
<1>14. FleetsLeft'
  <2>1. Left(j)'
    BY <1>1 DEF Left, Deleting
  <2>2. ASSUME NEW k \in Jobs, fleet'[k] = "deleted"
        PROVE  Left(k)'
    BY <1>4, <1>12, <2>1, <2>2 DEF BookInv, FleetsLeft
  <2>3. QED
    BY <2>2 DEF FleetsLeft
<1>15. ClientSound'
  <2>1. \A k \in Jobs : Tracked(k)' => k \in submitted'
    BY <1>1, <1>5, <1>6, <1>8 DEF ClientSound, Tracked
  <2>2. \A k \in canceled' : resources'[k].status \in {"CANCELED", Absent}
    <3>1. CASE resources'[j].status = "CANCELED" /\ canceled' = canceled \cup {j}
      BY <1>5, <1>6, <3>1 DEF ClientSound
    <3>2. CASE UNCHANGED <<canceled, resources>>
      BY <1>5, <3>2 DEF ClientSound
    <3>3. QED
      BY <1>2, <3>1, <3>2
  <2>3. \A k \in Jobs : resources'[k].fleet_request_id => use_spot_fleet' /\ fleet'[k] # "none"
    BY <1>1, <1>5, <1>6, <1>12 DEF ClientSound, ClientUnchanged
  <2>4. cancel_param' \cup bastion'.request \subseteq canceled' /\ canceled' \subseteq submitted'
    BY <1>1, <1>2, <1>5, <1>8 DEF ClientSound, ClientUnchanged
  <2>5. \A k \in Jobs : ~Submitting(k)'
    BY <1>1 DEF Submitting
  <2>6. client'.job \in submitted' /\ job_params' \subseteq submitted'
    BY <1>1, <1>5, <1>8 DEF ClientSound
  <2>7. QED
    BY <2>1, <2>2, <2>3, <2>4, <2>5, <2>6 DEF ClientSound
<1>16. /\ \A i \in Instances : /\ ec2'[i] \in Live => ec2[i] \in Live
                               /\ ec2'[i] = "unused" <=> ec2[i] = "unused"
       /\ \A k \in Jobs : status_params'[k] = status_params[k]
  BY <1>1, <1>10
<1>17. QED
  BY <1>1, <1>3, <1>7, <1>10, <1>12, <1>13, <1>14, <1>15, <1>16, ClientKeeps

\* The rest of cleanup_resources() keeps the books.
LEMMA DeleteBook ==
  ASSUME BookInv, DeleteJob \/ DeleteStatus
  PROVE  BookInv'
<1>1. /\ ClientSound /\ canceled \subseteq Jobs /\ resources \in [Jobs -> LocalRecord]
      /\ status_params \in [Jobs -> Document] /\ submitted \subseteq Jobs
      /\ client \in [op : {"idle", "submit", "delete_jobs", "delete_status"}, job : Jobs \cup {NoJob}]
  BY DEF BookInv, TypeOK
<1>2. \A k \in Jobs : Left(k) => Left(k)'
  BY LeftStaysClient DEF ClientContinues
<1>3. PICK j \in Jobs : j = client.job
  BY <1>1 DEF DeleteJob, DeleteStatus, ClientSound
<1>4. /\ status_params' \in [Jobs -> Document] /\ job_params' \subseteq job_params
      /\ \A k \in Jobs : status_params'[k] = status_params[k] \/ SoundNext(k, status_params'[k])
      /\ UNCHANGED <<cancel_param, submitted, canceled, ec2, fleet>> /\ ClientUnchanged
  <2>1. \/ status_params' = status_params
        \/ status_params' = [status_params EXCEPT ![j] = NoDocument]
    BY <1>3 DEF DeleteJob, DeleteStatus
  <2>2. QED
    BY <1>1, <2>1, Documents, NothingNamed DEF DeleteJob, DeleteStatus
<1>5. EventsOK'
  BY Happens, TypeParts DEF DeleteJob, DeleteStatus, BookInv
<1>6. forsaken' \in SUBSET Instances
  <2>1. status_params[j] \in Document /\ forsaken \in SUBSET Instances
    BY <1>1, TypeParts DEF BookInv
  <2>2. Named(status_params[j]) \subseteq Instances
    BY <2>1 DEF Named, Document
  <2>3. QED
    BY <1>3, <2>1, <2>2 DEF DeleteJob, DeleteStatus
<1>7. CASE DropRecord
  <2>1. resources' = [resources EXCEPT ![j] = NoLocalRecord] /\ client' = ClientIdle
    BY <1>3, <1>7 DEF DropRecord
  <2>2. ParamsOK' /\ ClientOK'
    BY <1>1, <1>4, <2>1, Documents, TypeParts DEF ClientIdle, BookInv, ParamsOK, ClientOK
  <2>3. resources'[j] = NoLocalRecord /\ \A k \in Jobs \ {j} : resources'[k] = resources[k]
    BY <1>1, <2>1
  <2>4. ClientSound'
    <3>1. \A k \in Jobs : Tracked(k)' => k \in submitted'
      BY <1>1, <1>4, <2>3 DEF ClientSound, Tracked, NoLocalRecord
    <3>2. \A k \in canceled' : resources'[k].status \in {"CANCELED", Absent}
      BY <1>1, <1>4, <2>3 DEF ClientSound, NoLocalRecord
    <3>3. \A k \in Jobs : resources'[k].fleet_request_id => use_spot_fleet' /\ fleet'[k] # "none"
      BY <1>1, <1>4, <2>3 DEF ClientSound, ClientUnchanged, NoLocalRecord
    <3>4. client'.op = "idle"
      BY <2>1 DEF ClientIdle
    <3>5. QED
      BY <1>1, <1>4, <3>1, <3>2, <3>3, <3>4 DEF ClientSound, Submitting, ClientUnchanged
  <2>5. QED
    BY <1>2, <1>4, <1>5, <1>6, <2>2, <2>4, ClientQuiet
<1>8. CASE DeleteJob /\ ~DropRecord
  <2>1. /\ client'.op = "delete_status" /\ client'.job = client.job
        /\ client' \in [op : {"idle", "submit", "delete_jobs", "delete_status"}, job : Jobs \cup {NoJob}]
        /\ client.op = "delete_jobs" /\ resources' = resources
    BY <1>1, <1>8 DEF DeleteJob
  <2>2. ParamsOK' /\ ClientOK'
    BY <1>1, <1>4, <2>1, TypeParts DEF BookInv, ParamsOK, ClientOK
  <2>3. ClientSound'
    BY <1>1, <1>4, <2>1 DEF ClientUnchanged, ClientSound, Tracked, Submitting
  <2>4. QED
    BY <1>2, <1>4, <1>5, <1>6, <2>2, <2>3, ClientQuiet
<1>9. QED
  BY <1>7, <1>8 DEF DeleteStatus

\* The steps of EC2.
Ec2Step == \E i \in Instances : Boot(i) \/ Finish(i) \/ Stop(i) \/ Reclaim(i) \/ Forget(i)

\* What they do to the instances.
Ec2Moves ==
  /\ \A i \in Instances : \/ ec2'[i] = ec2[i]
                          \/ ec2'[i] = "running" /\ ec2[i] = "pending"
                          \/ ec2'[i] = "shutting-down" /\ ec2[i] \in Live /\ i \in finished'
                          \/ ec2'[i] = "shutting-down" /\ ec2[i] \in Live /\ "reclaim" \in happened'
                          \/ ec2'[i] = "terminated" /\ ec2[i] = "shutting-down"
                          \/ ec2'[i] = "gone" /\ ec2[i] = "terminated" /\ "forget" \in happened'
  /\ finished \subseteq finished'
  /\ \A i \in finished' : i \in finished \/ (ec2[i] = "running" /\ ec2'[i] = "shutting-down")

\* And what they leave alone.
LEMMA Ec2Steps ==
  ASSUME BookInv, Ec2Step
  PROVE  /\ UNCHANGED <<use_spot_fleet, paramVars, clientVars, bastion, owner, fleet, template, forsaken>>
         /\ CloudOK' /\ EventsOK'
         /\ happened \subseteq happened' /\ events <= events'
         /\ Ec2Moves
<1>1. CloudOK /\ EventsOK
  BY TypeParts DEF BookInv
<1>2. PICK i \in Instances : Boot(i) \/ Finish(i) \/ Stop(i) \/ Reclaim(i) \/ Forget(i)
  BY DEF Ec2Step
<1>3. UNCHANGED <<use_spot_fleet, paramVars, clientVars, bastion, owner, fleet, template, forsaken>>
  BY <1>2 DEF Boot, Finish, Stop, Reclaim, Forget
<1>4. EventsOK' /\ happened \subseteq happened' /\ events <= events'
  <2>1. CASE Boot(i) \/ Finish(i) \/ Stop(i)
    BY <1>1, <2>1 DEF Boot, Finish, Stop, eventVars, EventsOK
  <2>2. CASE Reclaim(i) \/ Forget(i)
    BY <1>1, <2>2, Happens DEF Reclaim, Forget
  <2>3. QED
    BY <1>2, <2>1, <2>2
<1>5. ASSUME NEW s \in Ec2States, ec2' = [ec2 EXCEPT ![i] = s], finished' \subseteq finished \cup {i}
      PROVE  CloudOK' /\ ec2'[i] = s /\ \A k \in Instances \ {i} : ec2'[k] = ec2[k]
  BY <1>1, <1>3, <1>5 DEF CloudOK
<1>6. CASE Boot(i)
  <2>1. ec2[i] = "pending" /\ ec2' = [ec2 EXCEPT ![i] = "running"] /\ finished' = finished
    BY <1>6 DEF Boot
  <2>2. CloudOK' /\ ec2'[i] = "running" /\ \A k \in Instances \ {i} : ec2'[k] = ec2[k]
    BY <1>5, <2>1 DEF Ec2States
  <2>3. Ec2Moves
    BY <2>1, <2>2 DEF Ec2Moves, Live
  <2>4. QED
    BY <1>3, <1>4, <2>2, <2>3
<1>7. CASE Finish(i)
  <2>1. ec2[i] = "running" /\ ec2' = [ec2 EXCEPT ![i] = "shutting-down"] /\ finished' = finished \cup {i}
    BY <1>7 DEF Finish
  <2>2. CloudOK' /\ ec2'[i] = "shutting-down" /\ \A k \in Instances \ {i} : ec2'[k] = ec2[k]
    BY <1>5, <2>1 DEF Ec2States
  <2>3. Ec2Moves
    BY <2>1, <2>2 DEF Ec2Moves, Live
  <2>4. QED
    BY <1>3, <1>4, <2>2, <2>3
<1>8. CASE Stop(i)
  <2>1. ec2[i] = "shutting-down" /\ ec2' = [ec2 EXCEPT ![i] = "terminated"] /\ finished' = finished
    BY <1>8 DEF Stop
  <2>2. CloudOK' /\ ec2'[i] = "terminated" /\ \A k \in Instances \ {i} : ec2'[k] = ec2[k]
    BY <1>5, <2>1 DEF Ec2States
  <2>3. Ec2Moves
    BY <2>1, <2>2 DEF Ec2Moves, Live
  <2>4. QED
    BY <1>3, <1>4, <2>2, <2>3
<1>9. CASE Reclaim(i)
  <2>1. "reclaim" \in happened' /\ finished' = finished /\ ec2[i] \in Live /\ ec2' = Stopped({i})
    BY <1>1, <1>9, Happens DEF Reclaim
  <2>2. ec2' = [ec2 EXCEPT ![i] = "shutting-down"]
    BY <1>1, <2>1 DEF Stopped, CloudOK
  <2>3. CloudOK' /\ ec2'[i] = "shutting-down" /\ \A k \in Instances \ {i} : ec2'[k] = ec2[k]
    BY <1>5, <2>1, <2>2 DEF Ec2States
  <2>4. Ec2Moves
    BY <2>1, <2>3 DEF Ec2Moves, Live
  <2>5. QED
    BY <1>3, <1>4, <2>3, <2>4
<1>10. CASE Forget(i)
  <2>1. /\ "forget" \in happened' /\ finished' = finished /\ ec2[i] = "terminated"
        /\ ec2' = [ec2 EXCEPT ![i] = "gone"]
    BY <1>1, <1>10, Happens DEF Forget
  <2>2. CloudOK' /\ ec2'[i] = "gone" /\ \A k \in Instances \ {i} : ec2'[k] = ec2[k]
    BY <1>5, <2>1 DEF Ec2States
  <2>3. Ec2Moves
    BY <2>1, <2>2 DEF Ec2Moves, Live
  <2>4. QED
    BY <1>3, <1>4, <2>2, <2>3
<1>11. QED
  BY <1>2, <1>6, <1>7, <1>8, <1>9, <1>10

\* The steps of EC2 keep the books.
LEMMA Ec2Book ==
  ASSUME BookInv, Ec2Step
  PROVE  BookInv'
<1>1. /\ UNCHANGED <<use_spot_fleet, paramVars, clientVars, bastion, owner, fleet, template, forsaken>>
      /\ CloudOK' /\ EventsOK'
      /\ \A i \in Instances : /\ ec2'[i] \in Live => ec2[i] \in Live
                              /\ ec2'[i] = "unused" <=> ec2[i] = "unused"
      /\ finished \subseteq finished'
      /\ \A i \in finished' : i \in finished \/ (ec2[i] = "running" /\ ec2'[i] = "shutting-down")
  BY Ec2Steps DEF Ec2Moves, Live
<1>2. /\ ParamsOK' /\ ClientOK' /\ bastion' \in BastionState /\ use_spot_fleet' \in BOOLEAN
      /\ forsaken' \in SUBSET Instances
  BY <1>1, TypeParts DEF BookInv, ParamsOK, ClientOK, paramVars, clientVars
<1>3. TypeOK'
  BY <1>1, <1>2, TypeParts
<1>4. DocsSound'
  BY <1>1 DEF BookInv, DocsSound, DocSound, Workers, paramVars
<1>5. HeldSound'
  BY <1>1 DEF BookInv, HeldSound
<1>6. ClientSound'
  BY <1>1 DEF BookInv, ClientSound, Tracked, Submitting, paramVars, clientVars
<1>7. FleetsLeft'
  BY <1>1, LeftSame DEF BookInv, FleetsLeft
<1>8. CloudSound'
  <2>1. CloudSound /\ finished \subseteq Instances /\ finished' \subseteq Instances
    BY <1>1, TypeParts DEF BookInv, CloudOK
  <2>2. \A j \in Jobs : Workers(j)' = Workers(j) /\ LiveOf(j)' \subseteq LiveOf(j)
    BY <1>1 DEF LiveOf, Workers
  <2>3. \A i \in Instances : ec2'[i] = "unused" <=> owner'[i] = NoJob
    BY <1>1, <2>1 DEF CloudSound
  <2>4. \A i \in finished' : ec2'[i] \notin Live /\ owner'[i] # NoJob
    BY <1>1, <2>1 DEF CloudSound, Live
  <2>5. ~use_spot_fleet' => \A j \in Jobs : fleet'[j] = "none"
    BY <1>1, <2>1 DEF CloudSound
  <2>6. use_spot_fleet' => \A j \in Jobs : /\ fleet'[j] \in {"none", "failed"} => Workers(j)' = {}
                                           /\ fleet'[j] = "active" => Workers(j)' # {}
                                           /\ fleet'[j] # "active" => LiveOf(j)' = {}
    BY <1>1, <2>1, <2>2 DEF CloudSound
  <2>7. QED
    BY <2>3, <2>4, <2>5, <2>6 DEF CloudSound
<1>9. Placed(bastion')
  BY <1>1 DEF BookInv
<1>10. QED
  BY <1>3, <1>4, <1>5, <1>6, <1>7, <1>8, <1>9 DEF BookInv

\* What has happened stays so, and what has been left stays left.
LEMMA Lasts ==
  ASSUME BookInv, [Next]_vars
  PROVE  /\ happened \subseteq happened' /\ events <= events' /\ finished \subseteq finished'
         /\ canceled \subseteq canceled' /\ submitted \subseteq submitted'
         /\ \A j \in Jobs : Left(j) => Left(j)'
<1>1. EventsOK
  BY TypeParts DEF BookInv
<1>2. CASE \/ \E j \in Jobs : SubmitJob(j) \/ GetJobStatus(j) \/ CleanupResources(j)
           \/ \E S \in SUBSET Jobs : CancelJobs(S)
           \/ ClientContinues
  <2>1. \A j \in Jobs : Left(j) => Left(j)'
    BY <1>2, LeftStaysClient
  <2>2. finished' = finished /\ canceled \subseteq canceled' /\ submitted \subseteq submitted'
    BY <1>2 DEF SubmitJob, GetJobStatus, CleanupResources, CancelJobs, RequestCancel, ClientContinues,
                SubmitStatus, DeleteJob, DeleteStatus, ClientUnchanged
  <2>3. UNCHANGED eventVars \/ \E K : Happen(K)
    <3>1. ASSUME NEW j \in Jobs, CleanupResources(j)
          PROVE  \E K : Happen(K)
      BY <3>1 DEF CleanupResources, RequestCancel
    <3>2. ASSUME NEW S \in SUBSET Jobs, CancelJobs(S)
          PROVE  \E K : Happen(K)
      BY <3>2 DEF CancelJobs, RequestCancel
    <3>3. ASSUME SubmitStatus
          PROVE  \E K : Happen(K)
      BY <3>3 DEF SubmitStatus
    <3>4. QED
      BY <1>2, <3>1, <3>2, <3>3 DEF SubmitJob, GetJobStatus, ClientContinues, DeleteJob, DeleteStatus
  <2>4. happened \subseteq happened' /\ events <= events'
    <3>1. CASE UNCHANGED eventVars
      BY <1>1, <3>1 DEF eventVars, EventsOK
    <3>2. CASE \E K : Happen(K)
      BY <1>1, <3>2, Happens
    <3>3. QED
      BY <2>3, <3>1, <3>2
  <2>5. QED
    BY <2>1, <2>2, <2>4
<1>3. CASE BastionStep \/ Crash \/ IdleShutdown
  <2>1. UNCHANGED clientVars /\ finished' = finished
    BY <1>3 DEF BastionStep, UpdateRead, DescribeInstances, DescribeFleets, PutChanged, CancelRead,
                CollectJob, DeleteFleets, TerminateInstances, DeleteCancel, ListJobs, CheckJob,
                MarkSubmitting, LaunchInstance, CreateTemplate, CreateFleet, RecordLaunch,
                BastionUnchanged, Crash, IdleShutdown, cloudVars
  <2>2. UNCHANGED eventVars \/ \E K : Happen(K)
    <3>1. ASSUME NEW j, NEW d, NEW K, PutStatus(j, d, K)
          PROVE  \E E : Happen(E)
      BY <3>1 DEF PutStatus
    <3>2. ASSUME PutChanged \/ MarkSubmitting \/ RecordLaunch
          PROVE  \E E : Happen(E)
      BY <3>1, <3>2 DEF PutChanged, MarkSubmitting, RecordLaunch
    <3>3. ASSUME LaunchInstance \/ CreateTemplate \/ CreateFleet
          PROVE  \E E : Happen(E)
      BY <3>1, <3>3 DEF LaunchInstance, CreateTemplate, CreateFleet, LaunchFails
    <3>4. ASSUME CollectJob
          PROVE  \E E : Happen(E)
      BY <3>1, <3>4 DEF CollectJob
    <3>5. ASSUME \/ DescribeInstances \/ DescribeFleets \/ CancelRead \/ DeleteFleets
                 \/ TerminateInstances \/ DeleteCancel \/ ListJobs \/ CheckJob \/ Crash \/ IdleShutdown
          PROVE  \E E : Happen(E)
      BY <3>5 DEF DescribeInstances, DescribeFleets, CancelRead, DeleteFleets, TerminateInstances,
                  DeleteCancel, ListJobs, CheckJob, Crash, IdleShutdown
    <3>6. QED
      BY <1>3, <3>2, <3>3, <3>4, <3>5 DEF BastionStep, UpdateRead
  <2>3. happened \subseteq happened' /\ events <= events'
    <3>1. CASE UNCHANGED eventVars
      BY <1>1, <3>1 DEF eventVars, EventsOK
    <3>2. CASE \E K : Happen(K)
      BY <1>1, <3>2, Happens
    <3>3. QED
      BY <2>2, <3>1, <3>2
  <2>4. QED
    BY <2>1, <2>3, LeftSame DEF clientVars
<1>4. CASE Ec2Step
  BY <1>4, Ec2Steps, LeftSame DEF clientVars, Ec2Moves
<1>5. CASE UNCHANGED vars
  BY <1>1, <1>5, LeftSame DEF vars, cloudVars, eventVars, clientVars, EventsOK
<1>6. QED
  BY <1>2, <1>3, <1>4, <1>5 DEF Next, Ec2Step

\* The books are right at first.
LEMMA InitBook ==
  ASSUME Init
  PROVE  BookInv
<1>1. TypeOK
  BY Documents, Empty DEF Init, TypeOK, ClientIdle, Labels
<1>2. AtRest(bastion)
  BY DEF Init, AtRest
<1>3. /\ Placed(bastion) /\ NoDocs(bastion) /\ NoRequest(bastion) /\ NoLaunch(bastion)
      /\ bastion.pc # "create_fleet"
  BY <1>2, Resting
<1>4. DocsSound
  BY <1>3 DEF Init, NoDocs, DocsSound, DocSound, NoDocument, PlainDocument
<1>5. HeldSound
  BY <1>3 DEF HeldSound, NoRequest, NoLaunch
<1>6. \A j \in Jobs : Workers(j) = {} /\ LiveOf(j) = {}
  BY DetachedAssumption DEF Init, Workers, LiveOf
<1>7. CloudSound
  BY <1>6 DEF Init, CloudSound
<1>8. ClientSound
  BY <1>3 DEF Init, ClientSound, NoRequest, Tracked, NoLocalRecord, ClientIdle, Submitting
<1>9. FleetsLeft
  BY DEF Init, FleetsLeft
<1>10. QED
  BY <1>1, <1>3, <1>4, <1>5, <1>7, <1>8, <1>9 DEF BookInv

\* The books are kept by every step.
LEMMA NextBook ==
  ASSUME BookInv, [Next]_vars
  PROVE  BookInv'
<1>1. CASE \E j \in Jobs : SubmitJob(j) \/ GetJobStatus(j) \/ CleanupResources(j)
  BY <1>1, SubmitBook, GetJobStatusBook, CleanupBook
<1>2. CASE \E S \in SUBSET Jobs : CancelJobs(S)
  BY <1>2, CancelJobsBook
<1>3. CASE ClientContinues
  BY <1>3, SubmitBook, DeleteBook DEF ClientContinues
<1>4. CASE BastionStep
  BY <1>4, UpdateReadBook, DescribeInstancesBook, DescribeFleetsBook, PutChangedBook, CancelReadBook,
     CollectJobBook, DeleteFleetsBook, TerminateBook, DeleteCancelBook, ListJobsBook, CheckJobBook,
     MarkSubmittingBook, LaunchInstanceBook, CreateTemplateBook, CreateFleetBook, RecordLaunchBook
     DEF BastionStep
<1>5. CASE Crash \/ IdleShutdown
  BY <1>5, CrashBook
<1>6. CASE Ec2Step
  BY <1>6, Ec2Book
<1>7. CASE UNCHANGED vars
  <2>1. UNCHANGED <<use_spot_fleet, cloudVars>> /\ BastionUnchanged /\ bastion' = bastion
        /\ UNCHANGED <<paramVars, clientVars, eventVars>>
    BY <1>7 DEF vars, BastionUnchanged, paramVars, cloudVars
  <2>2. CloudGrows /\ CloudSound' /\ CloudOK'
    BY <2>1, CloudStays
  <2>3. EventsOK'
    BY <2>1, TypeParts DEF eventVars, EventsOK, BookInv
  <2>4. status_params' \in [Jobs -> Document] /\ \A j \in Jobs : SoundNext(j, status_params'[j])
    BY <2>1, <2>2, DocsUnwritten DEF paramVars
  <2>5. DocsSoundNext
    BY <2>1, <2>2, <2>4, DocsNext DEF BookInv
  <2>6. HeldSound'
    BY <2>1 DEF BookInv, HeldSound, cloudVars
  <2>7. bastion' \in BastionState /\ Placed(bastion') /\ bastion'.request \subseteq bastion.request \cup cancel_param
    BY <2>1 DEF BookInv, TypeOK
  <2>8. cancel_param' \subseteq cancel_param
    BY <2>1 DEF paramVars
  <2>9. QED
    BY <2>1, <2>3, <2>4, <2>5, <2>6, <2>7, <2>8, QuietStep
<1>8. QED
  BY <1>1, <1>2, <1>3, <1>4, <1>5, <1>6, <1>7 DEF Next, Ec2Step

\* The books are right in every reachable state, whatever fails.
LEMMA BookCorrect == Spec => []BookInv
<1>1. Init => BookInv
  BY InitBook
<1>2. BookInv /\ [Next]_vars => BookInv'
  BY NextBook
<1>3. QED
  BY <1>1, <1>2, PTL DEF Spec

\* Type correctness: the parameters, the records, the bastion's variables and
\* EC2's instances keep their types (DetachedMode and the bastion's program).
THEOREM TypeCorrect == Spec => []TypeOK
<1>1. BookInv => TypeOK
  BY DEF BookInv
<1>2. QED
  BY <1>1, BookCorrect, PTL

-----------------------------------------------------------------------------
(* What a step may do to EC2, to the documents, to the records, and to     *)
(* what the bastion has seen and will put.                                 *)

\* The client's steps, and the bastion's.
ClientStep ==
  \/ \E j \in Jobs : SubmitJob(j) \/ GetJobStatus(j) \/ CleanupResources(j)
  \/ \E S \in SUBSET Jobs : CancelJobs(S)
  \/ ClientContinues

\* Every step is the client's, the bastion's, the machine's or EC2's.
LEMMA Steps ==
  ASSUME [Next]_vars
  PROVE  ClientStep \/ BastionStep \/ Crash \/ IdleShutdown \/ Ec2Step \/ UNCHANGED vars
BY DEF Next, ClientStep, Ec2Step

\* The steps that change no instance.
LEMMA Ec2Same ==
  ASSUME [Next]_vars
  PROVE  \/ UNCHANGED <<ec2, owner>>
         \/ \E j \in Jobs : CleanupResources(j)
         \/ DeleteFleets \/ TerminateInstances \/ LaunchInstance \/ CreateFleet \/ Ec2Step
<1>1. CASE ClientStep
  BY <1>1 DEF ClientStep, ClientContinues, SubmitJob, GetJobStatus, CancelJobs, SubmitStatus, DeleteJob,
              DeleteStatus, ClientUnchanged
<1>2. CASE BastionStep
  BY <1>2 DEF BastionStep, UpdateRead, DescribeInstances, DescribeFleets, PutChanged, CancelRead,
              CollectJob, DeleteCancel, ListJobs, CheckJob, MarkSubmitting, CreateTemplate, RecordLaunch,
              cloudVars
<1>3. CASE Crash \/ IdleShutdown \/ UNCHANGED vars
  BY <1>3 DEF Crash, IdleShutdown, vars, cloudVars
<1>4. QED
  BY <1>1, <1>2, <1>3, Steps

\* An instance changes hands only when it is launched, and stops for a reason.
Ended == {"shutting-down", "terminated", "gone"}

InstanceMoves(i) ==
  \/ ec2'[i] = ec2[i] /\ owner'[i] = owner[i]
  \/ /\ ec2[i] = "unused" /\ ec2'[i] = "pending" /\ owner'[i] = bastion.job /\ bastion.job \in Jobs
     /\ bastion.pc \in {"launch", "create_fleet"} /\ bastion'.pc = "record" /\ i \in bastion'.new
     /\ bastion'.job = bastion.job
  \/ /\ ec2[i] \in Live /\ ec2'[i] = "shutting-down" /\ owner'[i] = owner[i]
     /\ i \in finished' \/ "reclaim" \in happened' \/ Left(owner[i])'
  \/ ec2[i] = "pending" /\ ec2'[i] = "running" /\ owner'[i] = owner[i]
  \/ ec2[i] = "shutting-down" /\ ec2'[i] = "terminated" /\ owner'[i] = owner[i]
  \/ ec2[i] = "terminated" /\ ec2'[i] = "gone" /\ owner'[i] = owner[i] /\ "forget" \in happened'

\* EC2 stops the workers of a set of jobs the client has left.
LEMMA StoppedMoves ==
  ASSUME BookInv, NEW S, ec2' = Stopped(S), owner' = owner,
         NEW i \in Instances, i \in S => Left(owner[i])'
  PROVE  InstanceMoves(i)
<1>1. CloudOK
  BY TypeParts DEF BookInv
<1>2. \/ ec2'[i] = ec2[i]
      \/ i \in S /\ ec2[i] \in Live /\ ec2'[i] = "shutting-down"
  BY <1>1, StoppedIs
<1>3. QED
  BY <1>2 DEF InstanceMoves

\* Launching is one of the moves.
LEMMA LaunchMoves ==
  ASSUME BookInv, bastion.pc \in {"launch", "create_fleet"}, NEW N \in SUBSET Unused,
         Launch(bastion.job, N), Recorded(bastion', N), NEW i \in Instances
  PROVE  InstanceMoves(i)
<1>1. PICK j \in Jobs : j = bastion.job
  BY LaunchedJob DEF Starting
<1>2. Launch(j, N)
  BY <1>1
<1>3. /\ i \notin N => ec2'[i] = ec2[i] /\ owner'[i] = owner[i]
      /\ i \in N => ec2'[i] = "pending" /\ owner'[i] = j
  BY <1>2, LaunchCloud
<1>4. bastion'.pc = "record" /\ bastion'.new = N /\ bastion'.job = bastion.job
  BY DEF Recorded
<1>5. i \in N => ec2[i] = "unused"
  BY DEF Unused
<1>6. QED
  BY <1>1, <1>3, <1>4, <1>5 DEF InstanceMoves

\* Every step makes one of these moves with each instance.
LEMMA Moves ==
  ASSUME BookInv, [Next]_vars, NEW i \in Instances
  PROVE  InstanceMoves(i)
<1>1. CASE UNCHANGED <<ec2, owner>>
  BY <1>1 DEF InstanceMoves
<1>2. ASSUME NEW j \in Jobs, CleanupResources(j)
      PROVE  InstanceMoves(i)
  <2>1. PICK S : S = Workers(j)
    OBVIOUS
  <2>2. owner' = owner /\ Left(j)' /\ (ec2' = Stopped(S) \/ ec2' = ec2)
    BY <1>2, <2>1 DEF CleanupResources, ClientUnchanged, Left, Deleting
  <2>3. i \in S => owner[i] = j
    BY <2>1 DEF Workers
  <2>4. i \in S => Left(owner[i])'
    <3>1. CASE i \in S
      <4>1. owner' = owner /\ owner[i] = j
        BY <2>2, <2>3, <3>1
      <4>2. QED
        BY <2>2, <4>1 DEF Left, Deleting, Submitting, Tracked
    <3>2. QED
      BY <3>1
  <2>5. QED
    BY <1>1, <2>2, <2>4, StoppedMoves
<1>3. CASE DeleteFleets
  <2>1. PICK failed \in SUBSET bastion.fleets :
          ec2' = Stopped(UNION {Workers(j) : j \in bastion.fleets \ failed})
    BY <1>3 DEF DeleteFleets
  <2>2. owner' = owner /\ canceled' = canceled
    BY <1>3 DEF DeleteFleets, BastionUnchanged, clientVars
  <2>3. PICK S : S = UNION {Workers(j) : j \in bastion.fleets \ failed}
    OBVIOUS
  <2>4. i \in S => owner[i] \in canceled
    BY <2>3 DEF Workers, BookInv, Placed, CancelPlaced, ClientSound
  <2>5. i \in S => Left(owner[i])'
    BY <2>2, <2>4 DEF Left
  <2>6. QED
    BY <2>1, <2>2, <2>3, <2>5, StoppedMoves
<1>4. CASE TerminateInstances
  <2>1. owner' = owner /\ canceled' = canceled
    BY <1>4 DEF TerminateInstances, BastionUnchanged, clientVars
  <2>2. i \in bastion.kill => owner[i] \in canceled
    BY DEF BookInv, HeldSound, ClientSound
  <2>3. i \in bastion.kill => Left(owner[i])'
    BY <2>1, <2>2 DEF Left
  <2>4. CASE ec2' = Stopped(bastion.kill)
    <3>1. PICK S : S = bastion.kill
      OBVIOUS
    <3>2. QED
      BY <2>1, <2>3, <2>4, <3>1, StoppedMoves
  <2>5. CASE ec2' = ec2
    BY <2>1, <2>5 DEF InstanceMoves
  <2>6. QED
    BY <1>4, <2>4, <2>5 DEF TerminateInstances
<1>5. CASE LaunchInstance
  <2>1. bastion.pc = "launch"
    BY <1>5 DEF LaunchInstance
  <2>2. ASSUME NEW k \in Unused, Launch(bastion.job, {k}), Recorded(bastion', {k})
        PROVE  InstanceMoves(i)
    <3>1. PICK N \in SUBSET Unused : N = {k}
      OBVIOUS
    <3>2. QED
      BY <2>1, <2>2, <3>1, LaunchMoves
  <2>3. QED
    BY <1>1, <1>5, <2>2, LaunchInstanceTo DEF BookInv
<1>6. CASE CreateFleet
  <2>1. bastion.pc = "create_fleet"
    BY <1>6 DEF CreateFleet
  <2>2. ASSUME NEW N \in SUBSET Unused, Launch(bastion.job, N), Recorded(bastion', N)
        PROVE  InstanceMoves(i)
    BY <2>1, <2>2, LaunchMoves
  <2>3. QED
    BY <1>1, <1>6, <2>2, CreateFleetTo DEF BookInv
<1>7. CASE Ec2Step
  BY <1>7, Ec2Steps DEF Ec2Moves, InstanceMoves
<1>8. QED
  BY <1>1, <1>2, <1>3, <1>4, <1>5, <1>6, <1>7, Ec2Same

\* A worker stays its job's.
LEMMA OwnerStays ==
  ASSUME BookInv, [Next]_vars
  PROVE  \A i \in Instances : ec2[i] # "unused" \/ owner[i] # NoJob => owner'[i] = owner[i]
BY Moves DEF InstanceMoves, BookInv, CloudSound

\* A worker has stopped because its command ended or the client left its job,
\* unless EC2 took it away.
StopInv ==
  "reclaim" \notin happened =>
    \A i \in Instances : ec2[i] \in Ended => i \in finished \/ Left(owner[i])

\* That is so after every step.
LEMMA StopKept ==
  ASSUME BookInv, StopInv, [Next]_vars
  PROVE  StopInv'
<1>1. SUFFICES ASSUME "reclaim" \notin happened', NEW i \in Instances, ec2'[i] \in Ended
               PROVE  i \in finished' \/ Left(owner[i])'
  BY DEF StopInv
<1>2. /\ "reclaim" \notin happened /\ finished \subseteq finished'
      /\ \A j \in Jobs : Left(j) => Left(j)'
  BY <1>1, Lasts
<1>3. CASE ec2[i] \in Ended
  <2>1. i \in finished \/ Left(owner[i])
    BY <1>2, <1>3 DEF StopInv
  <2>2. owner'[i] = owner[i] /\ owner[i] \in Jobs
    BY <1>3, OwnerStays DEF Ended, BookInv, TypeOK, CloudSound
  <2>3. PICK j \in Jobs : j = owner[i] /\ j = owner'[i]
    BY <2>2
  <2>4. CASE Left(owner[i])
    <3>1. Left(j)'
      BY <1>2, <2>3, <2>4
    <3>2. QED
      BY <2>3, <3>1 DEF Left, Deleting, Submitting, Tracked
  <2>5. QED
    BY <1>2, <2>1, <2>4
<1>4. CASE ec2[i] \notin Ended
  BY <1>1, <1>4, Moves DEF InstanceMoves, Ended
<1>5. QED
  BY <1>3, <1>4

\* A document changes in one of these ways.
DocMoves(j) ==
  \/ status_params'[j] = status_params[j]
  \/ SubmitStatus /\ Submitting(j) /\ status_params'[j] = PlainDocument("PENDING", NoInstance)
  \/ DeleteStatus /\ client.job = j /\ status_params'[j] = NoDocument
  \/ /\ PutChanged /\ bastion.pc = "put" /\ bastion.puts[j] # << >>
     /\ \E s \in Status : Has(bastion.puts[j], s) /\ status_params'[j] = [bastion.docs[j] EXCEPT !.status = s]
  \/ /\ CollectJob /\ j \in bastion.todo /\ j \in bastion.request
     /\ status_params'[j] = [status_params[j] EXCEPT !.status = "CANCELED"]
  \/ /\ MarkSubmitting /\ j \in bastion.pending
     /\ status_params'[j] = PlainDocument("SUBMITTING", NoInstance)
  \/ /\ LaunchInstance \/ CreateTemplate \/ CreateFleet
     /\ j = bastion.job /\ status_params'[j].status = "FAILED"
     /\ status_params'[j].instance_id = NoInstance
     /\ ec2' = ec2 /\ owner' = owner /\ bastion'.pc # "record" /\ ToNext(bastion')
  \/ /\ RecordLaunch /\ ToNext(bastion') /\ j = bastion.job
     /\ status_params'[j] = IF use_spot_fleet THEN FleetDocument("RUNNING", Primary, bastion.new)
                                              ELSE PlainDocument("RUNNING", Primary)

\* The steps that write no document.
LEMMA DocsSame ==
  ASSUME [Next]_vars
  PROVE  \/ UNCHANGED status_params
         \/ SubmitStatus \/ DeleteStatus \/ PutChanged \/ CollectJob \/ MarkSubmitting
         \/ LaunchInstance \/ CreateTemplate \/ CreateFleet \/ RecordLaunch
<1>1. CASE ClientStep
  BY <1>1 DEF ClientStep, ClientContinues, SubmitJob, GetJobStatus, CancelJobs, CleanupResources,
              DeleteJob, paramVars
<1>2. CASE BastionStep
  BY <1>2 DEF BastionStep, UpdateRead, DescribeInstances, DescribeFleets, CancelRead,
              DeleteFleets, TerminateInstances, DeleteCancel, ListJobs, CheckJob
<1>3. CASE Crash \/ IdleShutdown \/ UNCHANGED vars
  BY <1>3 DEF Crash, IdleShutdown, vars, paramVars
<1>4. CASE Ec2Step
  BY <1>4 DEF Ec2Step, Boot, Finish, Stop, Reclaim, Forget, paramVars
<1>5. QED
  BY <1>1, <1>2, <1>3, <1>4, Steps

\* A put writes its document only.
LEMMA PutMoves ==
  ASSUME BookInv, NEW k, NEW d, NEW K, PutStatus(k, d, K), NEW j \in Jobs
  PROVE  status_params'[j] = status_params[j] \/ (j = k /\ status_params'[j] = d)
BY DEF PutStatus, BookInv, TypeOK

\* Every step changes each document in one of these ways, or not.
LEMMA DocsMove ==
  ASSUME BookInv, [Next]_vars, NEW j \in Jobs
  PROVE  DocMoves(j)
<1>1. CASE UNCHANGED status_params
  BY <1>1 DEF DocMoves
<1>2. CASE SubmitStatus
  <2>1. client.op = "submit"
    BY <1>2 DEF SubmitStatus
  <2>2. \/ status_params'[j] = status_params[j]
        \/ j = client.job /\ status_params'[j] = PlainDocument("PENDING", NoInstance)
    BY <1>2 DEF SubmitStatus, BookInv, TypeOK
  <2>3. QED
    BY <1>2, <2>1, <2>2 DEF DocMoves, Submitting
<1>3. CASE DeleteStatus
  BY <1>3 DEF DeleteStatus, DocMoves, BookInv, TypeOK
<1>4. CASE PutChanged
  <2>1. bastion.pc = "put"
    BY <1>4 DEF PutChanged
  <2>2. PICK k \in bastion.todo :
          /\ k \in Jobs /\ bastion.puts[k] \in Seq(Status) /\ bastion.puts[k] # << >>
          /\ PutStatus(k, [bastion.docs[k] EXCEPT !.status = Head(bastion.puts[k])], {})
    BY <1>4, PutChangedTo DEF BookInv, Placed
  <2>3. PICK s : s = Head(bastion.puts[k])
    OBVIOUS
  <2>4. s \in Status /\ Has(bastion.puts[k], s)
    BY <2>2, <2>3, HeadTail
  <2>5. PutStatus(k, [bastion.docs[k] EXCEPT !.status = s], {})
    BY <2>2, <2>3
  <2>6. PICK d : d = [bastion.docs[k] EXCEPT !.status = s]
    OBVIOUS
  <2>7. status_params'[j] = status_params[j] \/ (j = k /\ status_params'[j] = d)
    BY <2>5, <2>6, PutMoves
  <2>8. QED
    BY <1>4, <2>1, <2>2, <2>4, <2>6, <2>7 DEF DocMoves
<1>5. CASE CollectJob
  <2>1. CASE UNCHANGED status_params
    BY <2>1 DEF DocMoves
  <2>2. ASSUME NEW k \in bastion.todo, PutStatus(k, [status_params[k] EXCEPT !.status = "CANCELED"], {})
        PROVE  DocMoves(j)
    <3>1. PICK d : d = [status_params[k] EXCEPT !.status = "CANCELED"]
      OBVIOUS
    <3>2. status_params'[j] = status_params[j] \/ (j = k /\ status_params'[j] = d)
      BY <2>2, <3>1, PutMoves
    <3>3. k \in bastion.request
      BY <1>5 DEF CollectJob, BookInv, Placed, CancelPlaced
    <3>4. QED
      BY <1>5, <3>1, <3>2, <3>3 DEF DocMoves
  <2>3. QED
    BY <1>5, <2>1, <2>2 DEF CollectJob
<1>6. CASE MarkSubmitting
  <2>1. PICK k \in bastion.pending : PutStatus(k, PlainDocument("SUBMITTING", NoInstance), {})
    BY <1>6 DEF MarkSubmitting
  <2>2. QED
    BY <1>6, <2>1, PutMoves DEF DocMoves
<1>7. CASE LaunchInstance \/ CreateTemplate \/ CreateFleet
  <2>1. CASE UNCHANGED status_params
    BY <2>1 DEF DocMoves
  <2>2. CASE /\ \E s, K : PutStatus(bastion.job, s, K) /\ s.status = "FAILED" /\ s.instance_id = NoInstance
             /\ ec2' = ec2 /\ owner' = owner /\ ToNext(bastion')
    <3>1. PICK d, K : PutStatus(bastion.job, d, K) /\ d.status = "FAILED" /\ d.instance_id = NoInstance
      BY <2>2
    <3>2. status_params'[j] = status_params[j] \/ (j = bastion.job /\ status_params'[j] = d)
      BY <3>1, PutMoves
    <3>3. bastion'.pc # "record"
      BY <2>2, Empty DEF ToNext
    <3>4. QED
      BY <1>7, <2>2, <3>1, <3>2, <3>3 DEF DocMoves
  <2>3. ASSUME NEW K, LaunchFails(K)
        PROVE  \E s, E : PutStatus(bastion.job, s, E) /\ s.status = "FAILED" /\ s.instance_id = NoInstance
    BY <2>3 DEF LaunchFails, PlainDocument
  <2>4. CASE LaunchInstance
    BY <2>1, <2>2, <2>3, <2>4, LaunchInstanceTo DEF BookInv
  <2>5. CASE CreateTemplate
    <3>1. ec2' = ec2 /\ owner' = owner
      BY <2>5 DEF CreateTemplate
    <3>2. QED
      BY <2>1, <2>2, <2>3, <2>5, <3>1, CreateTemplateTo DEF BookInv
  <2>6. CASE CreateFleet
    <3>1. ASSUME PutStatus(bastion.job, FleetDocument("FAILED", NoInstance, {}), {})
          PROVE  \E s, E : PutStatus(bastion.job, s, E) /\ s.status = "FAILED" /\ s.instance_id = NoInstance
      BY <3>1 DEF FleetDocument
    <3>2. QED
      BY <2>1, <2>2, <2>3, <2>6, <3>1, CreateFleetTo DEF BookInv
  <2>7. QED
    BY <1>7, <2>4, <2>5, <2>6
<1>8. CASE RecordLaunch
  <2>1. /\ PutStatus(bastion.job, IF use_spot_fleet THEN FleetDocument("RUNNING", Primary, bastion.new)
                                                    ELSE PlainDocument("RUNNING", Primary), {})
        /\ ToNext(bastion')
    BY <1>8, RecordLaunchTo DEF BookInv, Placed
  <2>2. QED
    BY <1>8, <2>1, PutMoves DEF DocMoves
<1>9. QED
  BY <1>1, <1>2, <1>3, <1>4, <1>5, <1>6, <1>7, <1>8, DocsSame

\* The client's variables change in its own steps only.
LEMMA NotClient ==
  ASSUME BookInv, BastionStep \/ Crash \/ IdleShutdown \/ Ec2Step \/ UNCHANGED vars
  PROVE  UNCHANGED clientVars
<1>1. CASE BastionStep
  BY <1>1 DEF BastionStep, UpdateRead, DescribeInstances, DescribeFleets, PutChanged, CancelRead,
              CollectJob, DeleteFleets, TerminateInstances, DeleteCancel, ListJobs, CheckJob,
              MarkSubmitting, LaunchInstance, CreateTemplate, CreateFleet, RecordLaunch, BastionUnchanged
<1>2. CASE Ec2Step
  BY <1>2, Ec2Steps
<1>3. QED
  BY <1>1, <1>2 DEF Crash, IdleShutdown, vars

\* A record changes in one of these ways.
RecordMoves(j) ==
  \/ resources'[j] = resources[j]
  \/ resources'[j].status \in {"PENDING", Absent}
  \/ resources'[j].status = "CANCELED" /\ j \in canceled'
  \/ GetJobStatus(j) /\ Tracked(j) /\ ~Left(j) /\ resources'[j].status = status_params[j].status

\* So the client's record of a job changes in no other way.
LEMMA RecordsMove ==
  ASSUME BookInv, [Next]_vars, NEW j \in Jobs
  PROVE  RecordMoves(j)
<1>1. resources \in [Jobs -> LocalRecord]
  BY DEF BookInv, TypeOK
<1>2. CASE UNCHANGED resources
  BY <1>2 DEF RecordMoves
<1>3. CASE SubmitStatus \/ DropRecord
  BY <1>1, <1>3 DEF SubmitStatus, DropRecord, RecordMoves, NoLocalRecord
<1>4. ASSUME NEW S \in SUBSET Jobs, CancelJobs(S)
      PROVE  RecordMoves(j)
  <2>1. resources' = MarkedCanceled(S) /\ canceled' = canceled \cup S
    BY <1>4 DEF CancelJobs, RequestCancel
  <2>2. QED
    BY <2>1, Marks DEF RecordMoves, BookInv
<1>5. ASSUME NEW k \in Jobs, CleanupResources(k)
      PROVE  RecordMoves(j)
  <2>1. UNCHANGED resources \/ (resources' = MarkedCanceled({k}) /\ canceled' = canceled \cup {k})
    BY <1>5 DEF CleanupResources, RequestCancel
  <2>2. PICK S \in SUBSET Jobs : S = {k}
    OBVIOUS
  <2>3. QED
    BY <1>2, <2>1, <2>2, Marks DEF RecordMoves, BookInv
<1>6. ASSUME NEW k \in Jobs, GetJobStatus(k)
      PROVE  RecordMoves(j)
  <2>1. j # k => resources'[j] = resources[j]
    BY <1>1, <1>6 DEF GetJobStatus
  <2>2. j = k => /\ Tracked(j) /\ resources[j].status \notin Terminal /\ client = ClientIdle
                 /\ resources'[j].status = status_params[j].status
    BY <1>1, <1>6 DEF GetJobStatus
  <2>3. j = k => ~Left(j)
    BY <2>2 DEF Left, Deleting, ClientIdle, BookInv, ClientSound, Tracked, Terminal
  <2>4. QED
    BY <1>6, <2>1, <2>2, <2>3 DEF RecordMoves
<1>7. CASE ClientStep
  BY <1>2, <1>3, <1>4, <1>5, <1>6, <1>7 DEF ClientStep, ClientContinues, SubmitJob, DeleteJob, DeleteStatus
<1>8. CASE BastionStep \/ Crash \/ IdleShutdown \/ Ec2Step \/ UNCHANGED vars
  <2>1. UNCHANGED clientVars
    BY <1>8, NotClient
  <2>2. QED
    BY <1>2, <2>1 DEF clientVars
<1>9. QED
  BY <1>7, <1>8, Steps

\* The steps of the others leave the bastion alone.
LEMMA Others ==
  ASSUME BookInv, [Next]_vars
  PROVE  bastion' = bastion \/ BastionStep \/ Crash \/ IdleShutdown
<1>1. CASE ClientStep
  BY <1>1 DEF ClientStep, ClientContinues, SubmitJob, GetJobStatus, CancelJobs, CleanupResources,
              SubmitStatus, DeleteJob, DeleteStatus, ClientUnchanged
<1>2. CASE Ec2Step \/ UNCHANGED vars
  BY <1>2, Ec2Steps DEF vars
<1>3. QED
  BY <1>1, <1>2, Steps

\* Where each step of the bastion leads.
LEMMA Goes ==
  ASSUME BookInv
  PROVE  /\ UpdateRead \/ DescribeInstances \/ DescribeFleets \/ PutChanged =>
              bastion'.pc \in Following \cup {"cancel"}
         /\ CancelRead \/ CollectJob \/ DeleteFleets \/ TerminateInstances \/ DeleteCancel =>
              bastion'.pc \in Cancelling \cup {"list"}
         /\ ListJobs \/ CheckJob => bastion'.pc \in {"update", "check", "submitting"}
         /\ MarkSubmitting => bastion'.pc = "launch"
         /\ LaunchInstance \/ CreateTemplate \/ CreateFleet \/ RecordLaunch =>
              bastion'.pc \in {"update", "submitting", "record", "create_fleet"}
         /\ Crash \/ IdleShutdown => bastion'.pc \in {"update", "off"}
<1>1. ASSUME UpdateRead \/ DescribeInstances \/ DescribeFleets \/ PutChanged
      PROVE  bastion'.pc \in Following \cup {"cancel"}
  <2>1. CASE UpdateRead
    BY <2>1, UpdateReadTo, Empty DEF BookInv, ReadBy, Following
  <2>2. CASE DescribeInstances
    BY <2>2, DescribeInstancesTo, Empty DEF SeenBy, Following
  <2>3. CASE DescribeFleets
    BY <2>3, DescribeFleetsTo, Empty DEF BookInv, ToPut, Following
  <2>4. CASE PutChanged
    BY <2>4, PutChangedTo, Empty DEF BookInv, Placed, Following
  <2>5. QED
    BY <1>1, <2>1, <2>2, <2>3, <2>4
<1>2. ASSUME CancelRead \/ CollectJob \/ DeleteFleets \/ TerminateInstances \/ DeleteCancel
      PROVE  bastion'.pc \in Cancelling \cup {"list"}
  <2>1. CASE CancelRead
    BY <2>1, CancelReadTo, Empty DEF BookInv, Cancelling
  <2>2. CASE CollectJob
    BY <2>2, CollectJobTo, Empty DEF BookInv, Cancelling
  <2>3. CASE DeleteFleets
    BY <2>3, DeleteFleetsTo DEF BookInv, Cancelling
  <2>4. CASE TerminateInstances
    BY <2>4, TerminateTo, Empty DEF BookInv, Cancelling
  <2>5. CASE DeleteCancel
    BY <2>5, Empty DEF DeleteCancel
  <2>6. QED
    BY <1>2, <2>1, <2>2, <2>3, <2>4, <2>5
<1>3. ListJobs => bastion'.pc \in {"update", "check"}
  BY ListJobsTo, Empty DEF BookInv
<1>4. CheckJob => bastion'.pc \in {"update", "check", "submitting"}
  BY CheckJobTo, Empty DEF BookInv
<1>5. MarkSubmitting => bastion'.pc = "launch"
  BY MarkSubmittingTo DEF BookInv
<1>6. ASSUME LaunchInstance \/ CreateTemplate \/ CreateFleet \/ RecordLaunch
      PROVE  bastion'.pc \in {"update", "submitting", "record", "create_fleet"}
  <2>1. ToNext(bastion') => bastion'.pc \in {"update", "submitting"}
    BY Empty DEF ToNext
  <2>2. \A N : Recorded(bastion', N) => bastion'.pc = "record"
    BY DEF Recorded
  <2>3. CASE LaunchInstance
    BY <2>1, <2>2, <2>3, LaunchInstanceTo DEF BookInv
  <2>4. CASE CreateTemplate
    BY <2>1, <2>4, CreateTemplateTo DEF BookInv
  <2>5. CASE CreateFleet
    BY <2>1, <2>2, <2>5, CreateFleetTo DEF BookInv
  <2>6. CASE RecordLaunch
    BY <2>1, <2>6, RecordLaunchTo DEF BookInv, Placed
  <2>7. QED
    BY <1>6, <2>3, <2>4, <2>5, <2>6
<1>7. Crash \/ IdleShutdown => bastion'.pc \in {"update", "off"}
  BY Empty DEF Crash, IdleShutdown
<1>8. QED
  BY <1>1, <1>2, <1>3, <1>4, <1>5, <1>6, <1>7

\* Only the steps of update_running_job_status() follow jobs.
LEMMA FollowSteps ==
  ASSUME BookInv, [Next]_vars
  PROVE  \/ bastion'.pc \notin Following /\ NoDocs(bastion') /\ NoneSeen(bastion') /\ NoPuts(bastion')
         \/ bastion' = bastion
         \/ UpdateRead /\ ReadBy(bastion')
         \/ DescribeInstances /\ SeenBy(bastion')
         \/ DescribeFleets \/ PutChanged
<1>1. Placed(bastion')
  BY NextBook DEF BookInv
<1>2. ASSUME bastion'.pc \notin Following
      PROVE  NoDocs(bastion') /\ NoneSeen(bastion') /\ NoPuts(bastion')
  BY <1>1, <1>2 DEF Placed, FollowPlaced, Following
<1>3. CASE Crash \/ IdleShutdown
  BY <1>2, <1>3, Empty DEF Crash, IdleShutdown, Following
<1>4. CASE UpdateRead
  BY <1>2, <1>4, UpdateReadTo, Empty DEF BookInv, Following
<1>5. CASE DescribeInstances
  BY <1>2, <1>5, DescribeInstancesTo, Empty DEF BookInv, Following
<1>6. CASE CancelRead \/ CollectJob \/ DeleteFleets \/ TerminateInstances \/ DeleteCancel
  BY <1>2, <1>6, Goes DEF Cancelling, Following
<1>7. CASE ListJobs \/ CheckJob \/ MarkSubmitting
  BY <1>2, <1>7, Goes DEF Following
<1>8. CASE LaunchInstance \/ CreateTemplate \/ CreateFleet \/ RecordLaunch
  BY <1>2, <1>8, Goes DEF Following
<1>9. QED
  BY <1>3, <1>4, <1>5, <1>6, <1>7, <1>8, Others DEF BastionStep

\* What the bastion has seen of an instance is what EC2 said.
SeenMoves(i) ==
  \/ bastion'.seen[i] \in {Absent, bastion.seen[i]}
  \/ /\ ec2' = ec2 /\ owner' = owner /\ owner[i] \in Jobs
     /\ \/ bastion'.seen[i] = "COMPLETED" /\ \E k \in Instances : ec2[k] = "gone"
        \/ /\ ec2[i] = "pending" /\ bastion'.seen[i] = "PENDING"
           /\ "slow_boot" \in happened' /\ events + 1 <= events'
        \/ ec2[i] = "running" /\ bastion'.seen[i] = "RUNNING"
        \/ /\ ec2[i] = "shutting-down" /\ bastion'.seen[i] = "CANCELED"
           /\ i \in finished => "slow_stop" \in happened'
        \/ ec2[i] = "terminated" /\ bastion'.seen[i] = "COMPLETED"

\* So the bastion sees of an instance only what EC2 said of it.
LEMMA SeenMove ==
  ASSUME BookInv, [Next]_vars, NEW i \in Instances
  PROVE  SeenMoves(i)
<1>1. CASE NoneSeen(bastion')
  BY <1>1 DEF NoneSeen, SeenMoves
<1>2. CASE bastion' = bastion
  BY <1>2 DEF SeenMoves
<1>3. CASE UpdateRead /\ ReadBy(bastion')
  BY <1>1, <1>3 DEF ReadBy
<1>4. CASE DescribeInstances /\ SeenBy(bastion')
  <2>1. ec2' = ec2 /\ owner' = owner /\ bastion'.seen = InstanceStatuses(Described)
    BY <1>4 DEF DescribeInstances, cloudVars, SeenBy
  <2>2. bastion'.pc = "fleets"
    BY <1>4 DEF SeenBy
  <2>3. Happen(IfSo(\E k \in Described : ec2[k] = "pending", "slow_boot")
               \cup IfSo(\E k \in Described \cap finished : ec2[k] = "shutting-down", "slow_stop"))
    BY <1>4, <2>2, DescribeInstancesTo, Empty
  <2>10. EventsOK
    BY TypeParts DEF BookInv
  <2>4. /\ (\E k \in Described : ec2[k] = "pending") =>
              "slow_boot" \in happened' /\ events + 1 <= events'
        /\ (\E k \in Described \cap finished : ec2[k] = "shutting-down") => "slow_stop" \in happened'
    BY <2>3, <2>10, Happens DEF IfSo
  <2>5. Described \in SUBSET Instances /\ \A k \in Described : owner[k] \in Jobs /\ ec2[k] # "unused"
    BY DescribedLaunched
  <2>6. CloudOK
    BY TypeParts DEF BookInv
  <2>7. CASE i \notin Described
    BY <2>1, <2>5, <2>6, <2>7, Statuses DEF SeenMoves
  <2>8. CASE i \in Described
    <3>1. \/ InstanceStatuses(Described)[i] = "COMPLETED" /\ \E k \in Described : ec2[k] = "gone"
          \/ ec2[i] = "pending" /\ InstanceStatuses(Described)[i] = "PENDING"
          \/ ec2[i] = "running" /\ InstanceStatuses(Described)[i] = "RUNNING"
          \/ ec2[i] = "shutting-down" /\ InstanceStatuses(Described)[i] = "CANCELED"
          \/ ec2[i] = "terminated" /\ InstanceStatuses(Described)[i] = "COMPLETED"
      BY <2>5, <2>6, <2>8, Statuses
    <3>2. QED
      BY <2>1, <2>4, <2>5, <2>8, <3>1 DEF SeenMoves
  <2>9. QED
    BY <2>7, <2>8
<1>5. CASE DescribeFleets
  <2>1. bastion' = AtLabel("cancel") \/ \E U \in SUBSET Jobs : ToPut(bastion', U)
    BY <1>5, DescribeFleetsTo DEF BookInv
  <2>2. NoneSeen(bastion')
    BY <2>1, Empty DEF ToPut
  <2>3. QED
    BY <1>1, <2>2
<1>6. CASE PutChanged
  <2>1. bastion' = AtLabel("cancel") \/ bastion'.seen = bastion.seen
    BY <1>6, PutChangedTo DEF BookInv, Placed
  <2>2. QED
    BY <1>1, <2>1, Empty DEF SeenMoves
<1>7. QED
  BY <1>1, <1>2, <1>3, <1>4, <1>5, <1>6, FollowSteps

\* The statuses to put are found by DescribeFleets, and put one by one.
PutsMoves(j) ==
  \/ bastion'.puts[j] \in {<< >>, bastion.puts[j]}
  \/ bastion.puts[j] # << >> /\ bastion'.puts[j] = Tail(bastion.puts[j])
  \/ /\ bastion.pc = "fleets" /\ j \in bastion.todo
     /\ UNCHANGED <<cloudVars, status_params, clientVars>>
     /\ \E U \in SUBSET Jobs : bastion'.puts[j] = NewStatuses(j, U) /\ (U # {} => "list" \in happened')

\* So no other statuses are ever put.
LEMMA PutsMove ==
  ASSUME BookInv, [Next]_vars, NEW j \in Jobs
  PROVE  PutsMoves(j)
<1>1. CASE NoPuts(bastion')
  BY <1>1 DEF NoPuts, PutsMoves
<1>2. CASE bastion' = bastion
  BY <1>2 DEF PutsMoves
<1>3. CASE UpdateRead /\ ReadBy(bastion')
  BY <1>1, <1>3 DEF ReadBy
<1>4. CASE DescribeInstances /\ SeenBy(bastion')
  BY <1>4 DEF SeenBy, PutsMoves
<1>5. CASE DescribeFleets
  <2>1. /\ bastion.pc = "fleets" /\ UNCHANGED <<cloudVars, status_params, clientVars>>
    BY <1>5 DEF DescribeFleets, BastionUnchanged
  <2>2. CASE bastion' = AtLabel("cancel")
    BY <1>1, <2>2, Empty
  <2>3. ASSUME NEW U \in SUBSET Jobs, ToPut(bastion', U), Happen(IfSo(U # {}, "list"))
        PROVE  PutsMoves(j)
    <3>1. U # {} => "list" \in happened'
      BY <2>3 DEF Happen, IfSo
    <3>2. bastion'.puts[j] = IF j \in bastion.todo THEN NewStatuses(j, U) ELSE << >>
      BY <2>3 DEF ToPut
    <3>3. QED
      BY <2>1, <3>1, <3>2 DEF PutsMoves
  <2>4. QED
    BY <1>5, <2>2, <2>3, DescribeFleetsTo DEF BookInv
<1>6. CASE PutChanged
  <2>1. bastion.puts \in [Jobs -> Seq(Status)]
    BY DEF BookInv, TypeOK, BastionState
  <2>2. \/ bastion' = AtLabel("cancel")
        \/ \E k \in Jobs : /\ bastion.puts[k] # << >>
                           /\ bastion'.puts = [bastion.puts EXCEPT ![k] = Tail(bastion.puts[k])]
    BY <1>6, PutChangedTo DEF BookInv, Placed
  <2>3. CASE bastion' = AtLabel("cancel")
    BY <1>1, <2>3, Empty
  <2>4. ASSUME NEW k \in Jobs, bastion.puts[k] # << >>,
               bastion'.puts = [bastion.puts EXCEPT ![k] = Tail(bastion.puts[k])]
        PROVE  PutsMoves(j)
    BY <2>1, <2>4 DEF PutsMoves
  <2>5. QED
    BY <2>2, <2>3, <2>4
<1>7. QED
  BY <1>1, <1>2, <1>3, <1>4, <1>5, <1>6, FollowSteps

\* The documents the bastion holds are those it has read.
HeldMoves(j) ==
  \/ bastion'.docs[j] \in {NoDocument, bastion.docs[j]}
  \/ /\ UpdateRead /\ bastion'.docs[j] = status_params[j] /\ status_params[j].status = "RUNNING"
     /\ UNCHANGED <<cloudVars, status_params, clientVars>>

\* So the bastion holds no other document.
LEMMA HeldMove ==
  ASSUME BookInv, [Next]_vars, NEW j \in Jobs
  PROVE  HeldMoves(j)
<1>1. CASE NoDocs(bastion')
  BY <1>1 DEF NoDocs, HeldMoves
<1>2. CASE bastion'.docs = bastion.docs
  BY <1>2 DEF HeldMoves
<1>3. CASE UpdateRead /\ ReadBy(bastion')
  BY <1>3 DEF ReadBy, HeldMoves, UpdateRead, BastionUnchanged
<1>4. CASE DescribeInstances /\ SeenBy(bastion')
  BY <1>2, <1>4 DEF SeenBy
<1>5. CASE DescribeFleets
  BY <1>1, <1>2, <1>5, DescribeFleetsTo, Empty DEF BookInv, ToPut
<1>6. CASE PutChanged
  BY <1>1, <1>2, <1>6, PutChangedTo, Empty DEF BookInv, Placed
<1>7. QED
  BY <1>1, <1>2, <1>3, <1>4, <1>5, <1>6, FollowSteps

-----------------------------------------------------------------------------
(* A job is reported CANCELED for a reason.                                *)

\* What the client has left it does not take up again, nor does EC2 give its
\* worker to another job.
LEMMA OwnerLeft ==
  ASSUME BookInv, [Next]_vars, NEW i \in Instances, Left(owner[i])
  PROVE  owner[i] \in Jobs /\ owner'[i] = owner[i] /\ Left(owner[i])'
<1>1. owner[i] \in Jobs
  BY DetachedAssumption DEF Left, Deleting, BookInv, TypeOK, ClientSound
<1>2. owner'[i] = owner[i]
  BY <1>1, OwnerStays, DetachedAssumption
<1>3. PICK j \in Jobs : j = owner[i] /\ j = owner'[i]
  BY <1>1, <1>2
<1>4. Left(j)'
  BY <1>3, Lasts
<1>5. QED
  BY <1>1, <1>2, <1>3, <1>4 DEF Left, Deleting, Submitting, Tracked

\* Unless EC2 takes a worker, or the bastion meets one between the end of its
\* command and `terminated', whatever says CANCELED is about a job the client
\* has left.
CancelInv ==
  happened \cap {"reclaim", "slow_stop"} = {} =>
    /\ \A j \in Jobs : /\ status_params[j].status = "CANCELED" => Left(j)
                       /\ resources[j].status = "CANCELED" => j \in canceled
                       /\ Has(bastion.puts[j], "CANCELED") => Left(j)
    /\ \A i \in Instances : bastion.seen[i] = "CANCELED" => Left(owner[i])

\* That is so after every step.
LEMMA CancelKept ==
  ASSUME BookInv, StopInv, CancelInv, [Next]_vars
  PROVE  CancelInv'
<1>1. SUFFICES ASSUME "reclaim" \notin happened', "slow_stop" \notin happened'
               PROVE  /\ \A j \in Jobs : /\ status_params'[j].status = "CANCELED" => Left(j)'
                                         /\ resources'[j].status = "CANCELED" => j \in canceled'
                                         /\ Has(bastion'.puts[j], "CANCELED") => Left(j)'
                      /\ \A i \in Instances : bastion'.seen[i] = "CANCELED" => Left(owner[i])'
  BY DEF CancelInv, Has
<1>2. /\ "reclaim" \notin happened /\ "slow_stop" \notin happened
      /\ canceled \subseteq canceled' /\ \A j \in Jobs : Left(j) => Left(j)'
  BY <1>1, Lasts
<1>3. /\ \A j \in Jobs : /\ status_params[j].status = "CANCELED" => Left(j)
                         /\ resources[j].status = "CANCELED" => j \in canceled
                         /\ Has(bastion.puts[j], "CANCELED") => Left(j)
      /\ \A i \in Instances : bastion.seen[i] = "CANCELED" => Left(owner[i])
  BY <1>2 DEF CancelInv
<1>4. /\ bastion \in BastionState
      /\ \A j \in Jobs : bastion.docs[j] \in Document /\ status_params[j] \in Document
      /\ \A j \in Jobs : bastion.puts[j] \in Seq(Status)
  BY DEF BookInv, TypeOK, BastionState
<1>5. ASSUME NEW j \in Jobs, status_params'[j].status = "CANCELED"
      PROVE  Left(j)'
  <2>1. DocMoves(j)
    BY DocsMove
  <2>2. CASE status_params'[j] = status_params[j]
    BY <1>2, <1>3, <1>5, <2>2
  <2>3. CASE \E s \in Status : /\ Has(bastion.puts[j], s)
                               /\ status_params'[j] = [bastion.docs[j] EXCEPT !.status = s]
    BY <1>2, <1>3, <1>4, <1>5, <2>3 DEF Document
  <2>4. CASE j \in bastion.request
    BY <1>2, <2>4 DEF BookInv, ClientSound, Left
  <2>5. QED
    BY <1>5, <2>1, <2>2, <2>3, <2>4 DEF DocMoves, PlainDocument, FleetDocument, NoDocument, Absent
<1>6. ASSUME NEW j \in Jobs, resources'[j].status = "CANCELED"
      PROVE  j \in canceled'
  <2>1. RecordMoves(j)
    BY RecordsMove
  <2>2. QED
    BY <1>2, <1>3, <1>6, <2>1 DEF RecordMoves, Absent
<1>7. ASSUME NEW j \in Jobs, Has(bastion'.puts[j], "CANCELED")
      PROVE  Left(j)'
  <2>1. PutsMoves(j)
    BY PutsMove
  <2>2. CASE bastion'.puts[j] = << >>
    BY <1>7, <2>2, Sequences_
  <2>3. CASE bastion'.puts[j] = bastion.puts[j]
    BY <1>2, <1>3, <1>7, <2>3
  <2>4. CASE bastion.puts[j] # << >> /\ bastion'.puts[j] = Tail(bastion.puts[j])
    BY <1>2, <1>3, <1>4, <1>7, <2>4, HeadTail
  <2>5. CASE \E U \in SUBSET Jobs : bastion'.puts[j] = NewStatuses(j, U)
    <3>1. PICK U \in SUBSET Jobs : Has(NewStatuses(j, U), "CANCELED")
      BY <1>7, <2>5
    <3>2. \/ /\ bastion.docs[j].instance_id # NoInstance
             /\ bastion.seen[bastion.docs[j].instance_id] = "CANCELED"
          \/ FleetStatus(j, U) = "CANCELED"
      <4>1. TypeOK
        BY DEF BookInv
      <4>2. QED
        BY <3>1, <4>1, NewOnes
    <3>3. CASE FleetStatus(j, U) = "CANCELED"
      <4>1. fleet[j] = "deleted"
        BY <3>3 DEF FleetStatus, BookInv, TypeOK
      <4>2. QED
        BY <1>2, <4>1 DEF BookInv, FleetsLeft
    <3>4. CASE /\ bastion.docs[j].instance_id # NoInstance
               /\ bastion.seen[bastion.docs[j].instance_id] = "CANCELED"
      <4>1. bastion.docs[j].instance_id \in Instances /\ owner[bastion.docs[j].instance_id] = j
        BY <1>4, <3>4 DEF Document, BookInv, DocsSound, DocSound
      <4>2. QED
        BY <1>2, <1>3, <3>4, <4>1
    <3>5. QED
      BY <3>2, <3>3, <3>4
  <2>6. QED
    BY <2>1, <2>2, <2>3, <2>4, <2>5 DEF PutsMoves
<1>8. ASSUME NEW i \in Instances, bastion'.seen[i] = "CANCELED"
      PROVE  Left(owner[i])'
  <2>1. Left(owner[i])
    <3>1. SeenMoves(i)
      BY SeenMove
    <3>2. CASE bastion'.seen[i] \in {Absent, bastion.seen[i]}
      BY <1>3, <1>8, <3>2 DEF Absent
    <3>3. CASE ec2[i] = "shutting-down" /\ (i \in finished => "slow_stop" \in happened')
      BY <1>1, <1>2, <3>3 DEF StopInv, Ended
    <3>4. QED
      BY <1>8, <3>1, <3>2, <3>3 DEF SeenMoves
  <2>2. QED
    BY <2>1, OwnerLeft
<1>9. QED
  BY <1>5, <1>6, <1>7, <1>8

\* Every behaviour keeps it.
LEMMA CancelCorrect == Spec => [](BookInv /\ StopInv /\ CancelInv)
<1>1. ASSUME Init
      PROVE  StopInv /\ CancelInv
  BY <1>1, Empty, Sequences_ DEF Init, StopInv, CancelInv, Ended, NoDocument, PlainDocument, NoLocalRecord,
                                 Absent, NoneSeen, NoPuts
<1>2. ASSUME BookInv, StopInv, CancelInv, [Next]_vars
      PROVE  (BookInv /\ StopInv /\ CancelInv)'
  BY <1>2, NextBook, StopKept, CancelKept
<1>3. QED
  BY <1>1, <1>2, InitBook, PTL DEF Spec

\* A job nobody canceled is reported CANCELED only if EC2 took its worker or the
\* bastion saw it between the end of its command and `terminated'.
THEOREM CancellationIsTrue == Spec => []NoFalseCancellation
<1>1. CancelInv => NoFalseCancellation
  BY DEF CancelInv, NoFalseCancellation
<1>2. QED
  BY <1>1, CancelCorrect, PTL

-----------------------------------------------------------------------------
(* A job is reported COMPLETED when its command has run.                   *)

\* A job gets workers when the bastion launches it: a plain job one, a fleet
\* job those of the only fleet its client token buys.
WorkersMove(j) ==
  \/ Workers(j)' = Workers(j)
  \/ /\ ~use_spot_fleet /\ j = bastion.job /\ bastion.pc = "launch" /\ bastion'.pc = "record"
     /\ bastion'.job = j /\ UNCHANGED <<status_params, job_params, clientVars, eventVars>>
     /\ SameRequest(bastion', bastion) /\ bastion'.pending = bastion.pending
     /\ bastion'.docs = bastion.docs /\ bastion'.puts = bastion.puts
     /\ \E i \in Instances : Workers(j)' = Workers(j) \cup {i}
  \/ /\ use_spot_fleet /\ j = bastion.job /\ fleet[j] = "none"
     /\ \E N \in SUBSET Instances : Workers(j)' = Workers(j) \cup N /\ Cardinality(N) <= NodesPerBlock

\* A step without events.
LEMMA NoEvents ==
  ASSUME BookInv, Happen({})
  PROVE  UNCHANGED eventVars
BY FS_EmptySet, TypeParts DEF Happen, BookInv, EventsOK, eventVars

\* In no other way.
LEMMA WorkersMoves ==
  ASSUME BookInv, [Next]_vars, NEW j \in Jobs
  PROVE  WorkersMove(j)
<1>1. CASE owner' = owner
  BY <1>1 DEF WorkersMove, Workers
<1>2. CASE LaunchInstance
  <2>1. bastion.pc = "launch" /\ ~use_spot_fleet /\ UNCHANGED <<job_params, clientVars>>
    BY <1>2 DEF LaunchInstance, BastionUnchanged
  <2>2. ASSUME NEW i \in Unused, Launch(bastion.job, {i}), Recorded(bastion', {i}), Happen({}),
               UNCHANGED status_params
        PROVE  WorkersMove(j)
    <3>1. PICK k \in Jobs : k = bastion.job
      BY <2>1, LaunchedJob DEF Starting
    <3>2. PICK N \in SUBSET Unused : N = {i}
      OBVIOUS
    <3>3. Launch(k, N)
      BY <2>2, <3>1, <3>2
    <3>4. Workers(k)' = Workers(k) \cup N /\ \A l \in Jobs \ {k} : Workers(l)' = Workers(l)
      BY <3>3, LaunchCloud
    <3>5. UNCHANGED eventVars
      BY <2>2, NoEvents
    <3>6. CASE j # k
      BY <3>4, <3>6 DEF WorkersMove
    <3>7. CASE j = k
      BY <2>1, <2>2, <3>1, <3>2, <3>4, <3>5, <3>7 DEF WorkersMove, Recorded, Unused
    <3>8. QED
      BY <3>6, <3>7
  <2>3. QED
    BY <1>1, <1>2, <2>2, LaunchInstanceTo DEF BookInv
<1>3. CASE CreateFleet
  <2>1. bastion.pc = "create_fleet" /\ use_spot_fleet
    BY <1>3 DEF CreateFleet, BookInv, HeldSound
  <2>2. ASSUME fleet[bastion.job] = "none", NEW N \in SUBSET Unused, Launch(bastion.job, N),
               Cardinality(N) <= NodesPerBlock
        PROVE  WorkersMove(j)
    <3>1. PICK k \in Jobs : k = bastion.job
      BY <2>1, LaunchedJob DEF Starting
    <3>2. Launch(k, N)
      BY <2>2, <3>1
    <3>3. Workers(k)' = Workers(k) \cup N /\ \A l \in Jobs \ {k} : Workers(l)' = Workers(l)
      BY <3>2, LaunchCloud
    <3>4. N \in SUBSET Instances
      BY DEF Unused
    <3>5. QED
      BY <2>1, <2>2, <3>1, <3>3, <3>4 DEF WorkersMove
  <2>3. QED
    BY <1>1, <1>3, <2>2, CreateFleetTo DEF BookInv
<1>4. CASE (\E k \in Jobs : CleanupResources(k)) \/ DeleteFleets \/ TerminateInstances
  BY <1>1, <1>4 DEF CleanupResources, ClientUnchanged, DeleteFleets, TerminateInstances
<1>5. CASE Ec2Step
  BY <1>1, <1>5, Ec2Steps
<1>6. QED
  BY <1>1, <1>2, <1>3, <1>4, <1>5, Ec2Same

\* A worker of the job ran the command to its end; in a fleet, every worker did.
Done(j) == /\ Workers(j) \cap finished # {}
           /\ use_spot_fleet => fleet[j] # "none" /\ Workers(j) \subseteq finished

\* The mode's configuration stays.
LEMMA Config ==
  ASSUME [Next]_vars
  PROVE  use_spot_fleet' = use_spot_fleet
<1>1. CASE ClientStep
  BY <1>1 DEF ClientStep, ClientContinues, SubmitJob, GetJobStatus, CancelJobs, CleanupResources,
              SubmitStatus, DeleteJob, DeleteStatus, ClientUnchanged
<1>2. CASE BastionStep
  BY <1>2 DEF BastionStep, UpdateRead, DescribeInstances, DescribeFleets, PutChanged, CancelRead,
              CollectJob, DeleteFleets, TerminateInstances, DeleteCancel, ListJobs, CheckJob,
              MarkSubmitting, LaunchInstance, CreateTemplate, CreateFleet, RecordLaunch, BastionUnchanged
<1>3. CASE Crash \/ IdleShutdown \/ UNCHANGED vars
  BY <1>3 DEF Crash, IdleShutdown, vars
<1>4. CASE Ec2Step
  BY <1>4 DEF Ec2Step, Boot, Finish, Stop, Reclaim, Forget
<1>5. QED
  BY <1>1, <1>2, <1>3, <1>4, Steps

\* What is done stays done.
LEMMA DoneStays ==
  ASSUME BookInv, [Next]_vars, NEW j \in Jobs, Done(j)
  PROVE  Done(j)'
<1>1. finished \subseteq finished'
  BY Lasts
<1>2. WorkersMove(j)
  BY WorkersMoves
<1>3. Workers(j) \subseteq Workers(j)'
  BY <1>2 DEF WorkersMove
<1>4. use_spot_fleet' = use_spot_fleet
  BY Config
<1>5. use_spot_fleet => fleet'[j] # "none" /\ Workers(j)' = Workers(j)
  <2>1. SUFFICES ASSUME use_spot_fleet
                 PROVE  fleet'[j] # "none" /\ Workers(j)' = Workers(j)
    OBVIOUS
  <2>2. Workers(j)' = Workers(j)
    BY <1>2, <2>1 DEF WorkersMove, Done
  <2>3. Workers(j)' # {} /\ CloudSound' /\ fleet'[j] # "none"
    BY <1>4, <2>1, <2>2, NextBook DEF Done, BookInv, CloudSound
  <2>4. QED
    BY <2>2, <2>3
<1>6. QED
  BY <1>1, <1>3, <1>4, <1>5 DEF Done

\* A fleet without a live worker is done, unless the client has left its job.
LEMMA FleetDone ==
  ASSUME BookInv, StopInv, "reclaim" \notin happened, use_spot_fleet,
         NEW j \in Jobs, fleet[j] = "active", LiveOf(j) = {}
  PROVE  Left(j) \/ Done(j)
<1>1. Workers(j) # {}
  BY DEF BookInv, CloudSound
<1>2. ASSUME ~Left(j), NEW i \in Workers(j)
      PROVE  i \in finished
  <2>1. i \in Instances /\ owner[i] = j
    BY DEF Workers
  <2>2. ec2[i] \notin Live /\ ec2[i] # "unused"
    BY <2>1, DetachedAssumption DEF LiveOf, Workers, BookInv, CloudSound
  <2>3. ec2[i] \in Ended
    BY <2>1, <2>2, TypeParts DEF BookInv, CloudOK, Ec2States, Live, Ended
  <2>4. QED
    BY <1>2, <2>1, <2>3 DEF StopInv
<1>3. QED
  BY <1>1, <1>2 DEF Done

\* Unless EC2 takes a worker or forgets it, or a fleet cannot be listed,
\* whatever says COMPLETED is about a job that is done or that the client left.
ComplInv ==
  happened \cap {"reclaim", "forget", "list"} = {} =>
    /\ \A i \in Instances : /\ ec2[i] # "gone"
                            /\ bastion.seen[i] = "COMPLETED" => i \in finished \/ Left(owner[i])
    /\ \A j \in Jobs : /\ status_params[j].status = "COMPLETED" => Left(j) \/ Done(j)
                       /\ resources[j].status = "COMPLETED" => Done(j)
                       /\ Has(bastion.puts[j], "COMPLETED") => Left(j) \/ Done(j)

\* A COMPLETED to put is about such a job.
LEMMA FoundDone ==
  ASSUME BookInv, StopInv, happened \cap {"reclaim", "forget", "list"} = {}, ComplInv,
         NEW j \in Jobs, Has(NewStatuses(j, {}), "COMPLETED")
  PROVE  Left(j) \/ Done(j)
<1> DEFINE d == bastion.docs[j]
           fs == FleetStatus(j, {})
<1>1. \/ /\ d.instance_id # NoInstance /\ bastion.seen[d.instance_id] = "COMPLETED"
         /\ ~d.fleet_request_id
      \/ d.fleet_request_id /\ fs # "RUNNING"
  <2>1. TypeOK /\ {} \in SUBSET Jobs
    BY DEF BookInv
  <2>2. NewStatuses(j, {}) # << >>
    BY Sequences_
  <2>3. ~d.fleet_request_id => d.instance_id # NoInstance /\ bastion.seen[d.instance_id] = "COMPLETED"
    BY <2>1, NewOnes
  <2>4. d.fleet_request_id => fs # "RUNNING"
    BY <2>1, <2>2, NewOnes
  <2>5. QED
    BY <2>3, <2>4
<1>2. d \in Document /\ DocSound(j, d) /\ fleet[j] \in {"none", "active", "failed", "deleted"}
  BY DEF BookInv, TypeOK, BastionState, DocsSound
<1>3. CASE d.instance_id # NoInstance /\ bastion.seen[d.instance_id] = "COMPLETED" /\ ~d.fleet_request_id
  <2>1. d.instance_id \in Instances /\ owner[d.instance_id] = j
    BY <1>2, <1>3 DEF Document, DocSound
  <2>2. ~use_spot_fleet
    BY <1>2, <1>3 DEF DocSound
  <2>3. d.instance_id \in finished \/ Left(j)
    BY <1>3, <2>1 DEF ComplInv
  <2>4. d.instance_id \in Workers(j)
    BY <2>1 DEF Workers
  <2>5. QED
    BY <2>2, <2>3, <2>4 DEF Done
<1>4. CASE d.fleet_request_id /\ fs # "RUNNING"
  <2>1. use_spot_fleet /\ fleet[j] # "none"
    BY <1>2, <1>4 DEF DocSound
  <2>2. CASE fleet[j] = "deleted"
    BY <2>2 DEF BookInv, FleetsLeft
  <2>3. CASE fleet[j] = "active"
    <3>1. FleetInstances(j, {}) = {}
      BY <1>4, <2>3 DEF FleetStatus
    <3>2. LiveOf(j) = {}
      BY <3>1 DEF FleetInstances, LiveOf
    <3>3. QED
      BY <2>1, <2>3, <3>2, FleetDone
  <2>4. CASE fleet[j] = "failed"
    <3>1. Workers(j) = {} /\ fs = "FAILED"
      BY <2>1, <2>4 DEF BookInv, CloudSound, FleetStatus
    <3>2. d.instance_id # NoInstance => d.instance_id \in Workers(j)
      BY <1>2 DEF DocSound, Workers, Document
    <3>3. TypeOK /\ {} \in SUBSET Jobs
      BY DEF BookInv
    <3>4. d.instance_id # NoInstance \/ fs = "COMPLETED"
      BY <3>3, NewOnes
    <3>5. QED
      BY <3>1, <3>2, <3>4
  <2>5. QED
    BY <1>2, <2>1, <2>2, <2>3, <2>4
<1>5. QED
  BY <1>1, <1>3, <1>4

\* That is so after every step.
LEMMA ComplKept ==
  ASSUME BookInv, StopInv, ComplInv, [Next]_vars
  PROVE  ComplInv'
<1>1. SUFFICES ASSUME happened' \cap {"reclaim", "forget", "list"} = {}
               PROVE  /\ \A i \in Instances :
                           /\ ec2'[i] # "gone"
                           /\ bastion'.seen[i] = "COMPLETED" => i \in finished' \/ Left(owner[i])'
                      /\ \A j \in Jobs :
                           /\ status_params'[j].status = "COMPLETED" => Left(j)' \/ Done(j)'
                           /\ resources'[j].status = "COMPLETED" => Done(j)'
                           /\ Has(bastion'.puts[j], "COMPLETED") => Left(j)' \/ Done(j)'
  BY DEF ComplInv, Has
<1>2. /\ happened \cap {"reclaim", "forget", "list"} = {}
      /\ finished \subseteq finished' /\ \A j \in Jobs : Left(j) => Left(j)'
  BY <1>1, Lasts
<1>3. \A j \in Jobs : Done(j) => Done(j)'
  BY DoneStays
<1>4. /\ \A i \in Instances : /\ ec2[i] # "gone"
                              /\ bastion.seen[i] = "COMPLETED" => i \in finished \/ Left(owner[i])
      /\ \A j \in Jobs : /\ status_params[j].status = "COMPLETED" => Left(j) \/ Done(j)
                         /\ resources[j].status = "COMPLETED" => Done(j)
                         /\ Has(bastion.puts[j], "COMPLETED") => Left(j) \/ Done(j)
  BY <1>2 DEF ComplInv
<1>5. /\ bastion \in BastionState
      /\ \A j \in Jobs : bastion.docs[j] \in Document /\ status_params[j] \in Document
      /\ \A j \in Jobs : bastion.puts[j] \in Seq(Status)
  BY DEF BookInv, TypeOK, BastionState
<1>6. ASSUME NEW i \in Instances
      PROVE  ec2'[i] # "gone"
  BY <1>1, <1>4, Moves DEF InstanceMoves
<1>7. ASSUME NEW i \in Instances, bastion'.seen[i] = "COMPLETED"
      PROVE  i \in finished' \/ Left(owner[i])'
  <2>1. i \in finished \/ Left(owner[i])
    <3>1. SeenMoves(i)
      BY SeenMove
    <3>2. CASE bastion'.seen[i] \in {Absent, bastion.seen[i]}
      BY <1>4, <1>7, <3>2 DEF Absent
    <3>3. CASE ec2[i] = "terminated"
      BY <1>2, <3>3 DEF StopInv, Ended
    <3>4. QED
      BY <1>4, <1>7, <3>1, <3>2, <3>3 DEF SeenMoves
  <2>2. QED
    BY <1>2, <2>1, OwnerLeft
<1>8. ASSUME NEW j \in Jobs, status_params'[j].status = "COMPLETED"
      PROVE  Left(j)' \/ Done(j)'
  <2>1. DocMoves(j)
    BY DocsMove
  <2>2. CASE status_params'[j] = status_params[j]
    BY <1>2, <1>3, <1>4, <1>8, <2>2
  <2>3. CASE \E s \in Status : /\ Has(bastion.puts[j], s)
                               /\ status_params'[j] = [bastion.docs[j] EXCEPT !.status = s]
    BY <1>2, <1>3, <1>4, <1>5, <1>8, <2>3 DEF Document
  <2>4. status_params'[j] # [status_params[j] EXCEPT !.status = "CANCELED"]
    BY <1>5, <1>8 DEF Document
  <2>5. QED
    BY <1>8, <2>1, <2>2, <2>3, <2>4 DEF DocMoves, PlainDocument, FleetDocument, NoDocument, Absent
<1>9. ASSUME NEW j \in Jobs, resources'[j].status = "COMPLETED"
      PROVE  Done(j)'
  <2>1. RecordMoves(j)
    BY RecordsMove
  <2>2. QED
    BY <1>3, <1>4, <1>9, <2>1 DEF RecordMoves, Absent
<1>10. ASSUME NEW j \in Jobs, Has(bastion'.puts[j], "COMPLETED")
       PROVE  Left(j)' \/ Done(j)'
  <2>1. PutsMoves(j)
    BY PutsMove
  <2>2. Left(j) \/ Done(j)
    <3>1. CASE bastion'.puts[j] = << >>
      BY <1>10, <3>1, Sequences_
    <3>2. CASE bastion'.puts[j] = bastion.puts[j]
      BY <1>4, <1>10, <3>2
    <3>3. CASE bastion.puts[j] # << >> /\ bastion'.puts[j] = Tail(bastion.puts[j])
      BY <1>4, <1>5, <1>10, <3>3, HeadTail
    <3>4. CASE \E U \in SUBSET Jobs : bastion'.puts[j] = NewStatuses(j, U) /\ (U # {} => "list" \in happened')
      <4>1. bastion'.puts[j] = NewStatuses(j, {})
        BY <1>1, <3>4
      <4>2. Has(NewStatuses(j, {}), "COMPLETED")
        BY <1>10, <4>1
      <4>3. QED
        BY <1>2, <4>2, FoundDone
    <3>5. QED
      BY <2>1, <3>1, <3>2, <3>3, <3>4 DEF PutsMoves
  <2>3. QED
    BY <1>2, <1>3, <2>2
<1>11. QED
  BY <1>6, <1>7, <1>8, <1>9, <1>10

\* Every behaviour keeps it.
LEMMA ComplCorrect == Spec => [](BookInv /\ StopInv /\ ComplInv)
<1>1. ASSUME Init
      PROVE  StopInv /\ ComplInv
  BY <1>1, Empty, Sequences_ DEF Init, StopInv, ComplInv, Ended, NoDocument, PlainDocument, NoLocalRecord,
                                 Absent, NoneSeen, NoPuts
<1>2. ASSUME BookInv, StopInv, ComplInv, [Next]_vars
      PROVE  (BookInv /\ StopInv /\ ComplInv)'
  BY <1>2, NextBook, StopKept, ComplKept
<1>3. QED
  BY <1>1, <1>2, InitBook, PTL DEF Spec

\* A job the client reports COMPLETED has a worker that ran the command to its
\* end; in a fleet, every worker did.
THEOREM CompletionIsTrue == Spec => []NoFalseCompletion
<1>1. ComplInv => NoFalseCompletion
  BY DEF ComplInv, NoFalseCompletion, Done
<1>2. QED
  BY <1>1, ComplCorrect, PTL

-----------------------------------------------------------------------------
(* The end of a job is final.                                              *)

\* How the jobs the bastion works on become so.
Fresh == {Absent, "PENDING", "SUBMITTING"}

LoopMoves(j) ==
  /\ j \in bastion'.todo => \/ j \in bastion.todo
                            \/ status_params[j].status = "RUNNING"
                            \/ j \in cancel_param
                            \/ ListJobs /\ j \in job_params
  /\ j \in bastion'.pending => \/ j \in bastion.pending
                               \/ /\ CheckJob /\ bastion.pc = "check" /\ j \in bastion.todo
                                  /\ status_params[j].status \in Fresh
  /\ bastion'.job = j => bastion.job = j \/ (MarkSubmitting /\ j \in bastion.pending)

\* A bastion that drops work takes up none.
LEMMA DropsWork ==
  ASSUME NEW j \in Jobs,
         \/ \E l : bastion' = AtLabel(l)
         \/ bastion'.todo \subseteq bastion.todo /\ SameLaunch(bastion', bastion)
         \/ bastion'.todo = {} /\ NoLaunch(bastion') /\ bastion'.pending \subseteq bastion.pending
  PROVE  LoopMoves(j)
BY Empty, DetachedAssumption DEF LoopMoves, SameLaunch, NoLaunch

\* The bastion takes up jobs in no other way.
LEMMA LoopMove ==
  ASSUME BookInv, [Next]_vars, NEW j \in Jobs
  PROVE  LoopMoves(j)
<1>1. CASE bastion' = bastion
  BY <1>1 DEF LoopMoves
<1>2. CASE Crash \/ IdleShutdown
  BY <1>2, DropsWork DEF Crash, IdleShutdown
<1>3. CASE UpdateRead
  <2>1. CASE ReadBy(bastion')
    BY <2>1, DetachedAssumption DEF ReadBy, LoopMoves, NoLaunch
  <2>2. QED
    BY <1>3, <2>1, UpdateReadTo, DropsWork DEF BookInv
<1>4. CASE DescribeInstances
  BY <1>4, DescribeInstancesTo, DropsWork DEF SeenBy
<1>5. CASE DescribeFleets
  <2>1. ASSUME NEW U \in SUBSET Jobs, ToPut(bastion', U)
        PROVE  LoopMoves(j)
    <3>1. bastion'.todo \subseteq bastion.todo
      BY <2>1 DEF ToPut
    <3>2. QED
      BY <2>1, <3>1, DropsWork DEF ToPut
  <2>2. QED
    BY <1>5, <2>1, DescribeFleetsTo, DropsWork DEF BookInv
<1>6. CASE PutChanged
  <2>1. bastion' = AtLabel("cancel") \/ (bastion'.todo \subseteq bastion.todo /\ SameLaunch(bastion', bastion))
    BY <1>6, PutChangedTo DEF BookInv, Placed
  <2>2. QED
    BY <2>1, DropsWork
<1>7. CASE CancelRead
  <2>1. CASE bastion'.todo = cancel_param /\ bastion'.pending = {} /\ NoLaunch(bastion')
    BY <2>1, DetachedAssumption DEF LoopMoves, NoLaunch
  <2>2. QED
    BY <1>7, <2>1, CancelReadTo, DropsWork DEF BookInv
<1>8. CASE CollectJob
  <2>1. bastion' = AtLabel("list") \/ (bastion'.todo \subseteq bastion.todo /\ SameLaunch(bastion', bastion))
    BY <1>8, CollectJobTo DEF BookInv
  <2>2. QED
    BY <2>1, DropsWork
<1>9. CASE DeleteFleets \/ TerminateInstances \/ DeleteCancel
  <2>1. CASE DeleteFleets
    BY <2>1, DeleteFleetsTo, DropsWork DEF BookInv
  <2>2. CASE TerminateInstances
    BY <2>2, TerminateTo, DropsWork DEF BookInv
  <2>3. QED
    BY <1>9, <2>1, <2>2, DropsWork DEF DeleteCancel
<1>10. CASE ListJobs
  <2>1. CASE bastion'.todo = job_params /\ bastion'.pending = {} /\ NoLaunch(bastion')
    BY <1>10, <2>1, DetachedAssumption DEF LoopMoves, NoLaunch
  <2>2. QED
    BY <1>10, <2>1, ListJobsTo, DropsWork DEF BookInv
<1>11. CASE CheckJob
  <2>1. bastion.pc = "check"
    BY <1>11 DEF CheckJob
  <2>2. ASSUME NEW k \in bastion.todo, bastion'.pending = PendingWith(k),
               \/ bastion'.todo = bastion.todo \ {k} /\ bastion'.job = bastion.job
               \/ bastion'.todo = {} /\ NoLaunch(bastion')
        PROVE  LoopMoves(j)
    BY <1>11, <2>1, <2>2, DetachedAssumption DEF LoopMoves, PendingWith, Fresh, NoLaunch
  <2>3. QED
    BY <1>11, <2>2, CheckJobTo, DropsWork DEF BookInv
<1>12. CASE MarkSubmitting
  <2>1. PICK k \in bastion.pending :
          bastion'.todo = {} /\ bastion'.pending = bastion.pending \ {k} /\ bastion'.job = k
    BY <1>12, MarkSubmittingTo DEF BookInv
  <2>2. QED
    BY <1>12, <2>1 DEF LoopMoves
<1>13. CASE LaunchInstance \/ CreateTemplate \/ CreateFleet \/ RecordLaunch
  <2>1. CASE ToNext(bastion')
    BY <2>1, DropsWork DEF ToNext
  <2>2. CASE \E N : Recorded(bastion', N)
    BY <2>2 DEF Recorded, LoopMoves
  <2>3. CASE LaunchInstance
    BY <2>1, <2>2, <2>3, LaunchInstanceTo DEF BookInv
  <2>4. CASE CreateTemplate
    BY <2>1, <2>4, CreateTemplateTo, DropsWork DEF BookInv
  <2>5. CASE CreateFleet
    BY <2>1, <2>2, <2>5, CreateFleetTo DEF BookInv
  <2>6. CASE RecordLaunch
    BY <2>1, <2>6, RecordLaunchTo DEF BookInv, Placed
  <2>7. QED
    BY <1>13, <2>3, <2>4, <2>5, <2>6
<1>14. QED
  BY <1>1, <1>2, <1>3, <1>4, <1>5, <1>6, <1>7, <1>8, <1>9, <1>10, <1>11, <1>12, <1>13, Others DEF BastionStep

\* Neither the bastion nor EC2 has anything to do with the job.
Untouched(j) ==
  /\ status_params[j] = NoDocument /\ Workers(j) = {} /\ bastion.docs[j] = NoDocument
  /\ bastion.job # j /\ j \notin bastion.pending /\ j \notin bastion.todo

\* That is so until the job is submitted, and between the two puts of
\* submit_job() unless the bastion lists the jobs there.
UntouchedInv ==
  \A j \in Jobs : j \notin submitted \/ (Submitting(j) /\ "slow_submit" \notin happened) => Untouched(j)

\* A job being submitted was that before the step, or was not submitted yet.
LEMMA SubmittingWas ==
  ASSUME BookInv, [Next]_vars, NEW j \in Jobs, j \notin submitted' \/ Submitting(j)'
  PROVE  /\ j \notin submitted \/ Submitting(j)
         /\ ~(SubmitStatus /\ Submitting(j))
<1>1. submitted \subseteq submitted' /\ (Submitting(j) => j \in submitted)
  BY Lasts DEF BookInv, ClientSound, Submitting
<1>2. CASE \E k \in Jobs : SubmitJob(k)
  BY <1>1, <1>2 DEF SubmitJob, Submitting, ClientIdle, SubmitStatus
<1>3. CASE client' = client \/ client'.op # "submit"
  BY <1>1, <1>3 DEF Submitting, SubmitStatus, ClientIdle
<1>4. CASE ClientStep
  <2>1. CASE \E k \in Jobs : CleanupResources(k)
    BY <1>3, <2>1 DEF CleanupResources
  <2>2. CASE \E k \in Jobs : GetJobStatus(k)
    BY <1>3, <2>2 DEF GetJobStatus
  <2>3. CASE \E S \in SUBSET Jobs : CancelJobs(S)
    BY <1>3, <2>3 DEF CancelJobs
  <2>4. CASE DeleteJob
    <3>1. client'.op = "delete_status" \/ client'.op = "idle"
      BY <2>4 DEF DeleteJob, DropRecord, ClientIdle, BookInv, TypeOK
    <3>2. QED
      BY <1>3, <3>1
  <2>5. CASE SubmitStatus \/ DeleteStatus
    BY <1>3, <2>5 DEF SubmitStatus, DeleteStatus, DropRecord, ClientIdle
  <2>6. QED
    BY <1>2, <1>4, <2>1, <2>2, <2>3, <2>4, <2>5 DEF ClientStep, ClientContinues
<1>5. CASE BastionStep \/ Crash \/ IdleShutdown \/ Ec2Step \/ UNCHANGED vars
  BY <1>3, <1>5, NotClient DEF clientVars
<1>6. QED
  BY <1>4, <1>5, Steps

\* Untouched jobs stay so after every step.
LEMMA UntouchedKept ==
  ASSUME BookInv, UntouchedInv, [Next]_vars
  PROVE  UntouchedInv'
<1>1. SUFFICES ASSUME NEW j \in Jobs,
                      j \notin submitted' \/ (Submitting(j)' /\ "slow_submit" \notin happened')
               PROVE  Untouched(j)'
  BY DEF UntouchedInv
<1>2. /\ j \notin submitted \/ (Submitting(j) /\ "slow_submit" \notin happened)
      /\ ~(SubmitStatus /\ Submitting(j))
  BY <1>1, Lasts, SubmittingWas
<1>3. Untouched(j)
  BY <1>2 DEF UntouchedInv
<1>4. /\ bastion.pc = "put" => bastion.puts[j] = << >>
      /\ j \notin canceled /\ cancel_param \subseteq canceled /\ job_params \subseteq submitted
      /\ Submitting(j) => j \in submitted
  BY <1>2, <1>3 DEF Untouched, BookInv, Placed, FollowPlaced, ClientSound, Submitting
<1>5. DocMoves(j) /\ WorkersMove(j) /\ LoopMoves(j) /\ HeldMoves(j)
  BY DocsMove, WorkersMoves, LoopMove, HeldMove
<1>6. status_params'[j] = NoDocument
  BY <1>2, <1>3, <1>4, <1>5 DEF DocMoves, Untouched
<1>7. Workers(j)' = {}
  BY <1>3, <1>5 DEF WorkersMove, Untouched
<1>8. status_params[j].status = Absent /\ Absent # "RUNNING"
  BY <1>3 DEF Untouched, NoDocument, PlainDocument, Absent
<1>9. bastion'.docs[j] = NoDocument
  BY <1>3, <1>5, <1>8 DEF HeldMoves, Untouched
<1>10. ~(ListJobs /\ j \in job_params)
  <2>1. SUFFICES ASSUME ListJobs, j \in job_params
                 PROVE  FALSE
    OBVIOUS
  <2>2. Submitting(j)
    BY <1>2, <1>4, <2>1
  <2>3. "slow_submit" \in happened'
    BY <1>3, <2>1, <2>2 DEF ListJobs, Happen, IfSo, Submitting, Untouched
  <2>4. QED
    BY <1>1, <1>4, <2>2, <2>3, Lasts
<1>11. bastion'.job # j /\ j \notin bastion'.pending /\ j \notin bastion'.todo
  BY <1>3, <1>4, <1>5, <1>8, <1>10 DEF LoopMoves, Untouched
<1>12. QED
  BY <1>6, <1>7, <1>9, <1>11 DEF Untouched

\* The jobs the bastion will launch have not ended.
OpenInv ==
  \A j \in Jobs : j \in bastion.pending \/ bastion.job = j => status_params[j].status \notin Terminal

\* They have not after the step either.
LEMMA OpenKept ==
  ASSUME BookInv, OpenInv, [Next]_vars
  PROVE  OpenInv'
<1>1. SUFFICES ASSUME NEW j \in Jobs, j \in bastion'.pending \/ bastion'.job = j,
                      status_params'[j].status \in Terminal
               PROVE  FALSE
  BY DEF OpenInv
<1>2. LoopMoves(j) /\ DocMoves(j)
  BY LoopMove, DocsMove
<1>3. CASE CheckJob
  BY <1>1, <1>2, <1>3 DEF LoopMoves, OpenInv, CheckJob, Fresh, Terminal, Absent
<1>4. CASE j \in bastion.pending \/ bastion.job = j
  <2>1. status_params[j].status \notin Terminal
    BY <1>4 DEF OpenInv
  <2>2. bastion.pc \notin {"put", "collect"}
    BY <1>4, DetachedAssumption DEF BookInv, Placed, StartPlaced, Starting
  <2>3. bastion.job \notin bastion.pending
    BY DEF BookInv, Placed, StartPlaced
  <2>4. ASSUME j = bastion.job, ToNext(bastion')
        PROVE  FALSE
    BY <1>1, <2>3, <2>4, Empty, DetachedAssumption DEF ToNext, NoLaunch
  <2>5. CollectJob => bastion.pc = "collect"
    BY DEF CollectJob
  <2>6. QED
    BY <1>1, <1>2, <2>1, <2>2, <2>4, <2>5
       DEF DocMoves, Terminal, PlainDocument, FleetDocument, NoDocument, Absent
<1>5. QED
  BY <1>1, <1>2, <1>3, <1>4 DEF LoopMoves

\* The bastion puts the end of a job, or PENDING when it has seen an instance
\* before it booted.
PutsInv ==
  /\ \A i \in Instances : /\ bastion.seen[i] \in Terminal \cup {"PENDING", "RUNNING", Absent}
                          /\ bastion.seen[i] = "PENDING" => "slow_boot" \in happened
  /\ \A j \in Jobs, s \in Status : Has(bastion.puts[j], s) =>
       s \in Terminal \/ (s = "PENDING" /\ "slow_boot" \in happened)

\* It does so after every step.
LEMMA PutsKept ==
  ASSUME BookInv, PutsInv, [Next]_vars
  PROVE  PutsInv'
<1>1. happened \subseteq happened'
  BY Lasts
<1>2. ASSUME NEW i \in Instances
      PROVE  /\ bastion'.seen[i] \in Terminal \cup {"PENDING", "RUNNING", Absent}
             /\ bastion'.seen[i] = "PENDING" => "slow_boot" \in happened'
  <2>1. SeenMoves(i)
    BY SeenMove
  <2>2. QED
    BY <1>1, <2>1 DEF SeenMoves, PutsInv, Terminal, Absent
<1>3. ASSUME NEW j \in Jobs, NEW s \in Status, Has(bastion'.puts[j], s)
      PROVE  s \in Terminal \/ (s = "PENDING" /\ "slow_boot" \in happened')
  <2>1. PutsMoves(j)
    BY PutsMove
  <2>2. bastion.puts[j] \in Seq(Status) /\ bastion.docs[j] \in Document
    BY DEF BookInv, TypeOK, BastionState
  <2>3. CASE bastion'.puts[j] = << >>
    BY <1>3, <2>3, Sequences_
  <2>4. CASE bastion'.puts[j] = bastion.puts[j]
    BY <1>1, <1>3, <2>4 DEF PutsInv
  <2>5. CASE bastion.puts[j] # << >> /\ bastion'.puts[j] = Tail(bastion.puts[j])
    BY <1>1, <1>3, <2>2, <2>5, HeadTail DEF PutsInv
  <2>6. ASSUME NEW U \in SUBSET Jobs, bastion'.puts[j] = NewStatuses(j, U)
        PROVE  s \in Terminal \/ (s = "PENDING" /\ "slow_boot" \in happened')
    <3>1. TypeOK
      BY DEF BookInv
    <3>2. Has(NewStatuses(j, U), s) /\ NewStatuses(j, U) # << >>
      BY <1>3, <2>6, Sequences_
    <3>3. \/ /\ bastion.docs[j].instance_id # NoInstance
             /\ s = bastion.seen[bastion.docs[j].instance_id] /\ s \notin {"RUNNING", Absent}
          \/ s = FleetStatus(j, U) /\ s # "RUNNING"
      BY <3>1, <3>2, NewOnes
    <3>4. CASE s = FleetStatus(j, U) /\ s # "RUNNING"
      BY <3>1, <3>4 DEF FleetStatus, Terminal, TypeOK
    <3>5. QED
      BY <1>1, <2>2, <3>3, <3>4 DEF PutsInv, Document
  <2>7. QED
    BY <2>1, <2>3, <2>4, <2>5, <2>6 DEF PutsMoves
<1>4. QED
  BY <1>2, <1>3 DEF PutsInv, Has

\* What makes the end final.
FinalInv == BookInv /\ UntouchedInv /\ OpenInv /\ PutsInv

\* It holds at first.
LEMMA InitFinal ==
  ASSUME Init
  PROVE  FinalInv
<1>1. UntouchedInv
  BY Empty, DetachedAssumption DEF Init, UntouchedInv, Untouched, Submitting, ClientIdle, Workers,
                                   NoDocs, NoLaunch
<1>2. OpenInv
  BY Empty, DetachedAssumption DEF Init, OpenInv, NoLaunch
<1>3. PutsInv
  BY Empty, Sequences_ DEF Init, PutsInv, NoneSeen, NoPuts, Absent
<1>4. QED
  BY <1>1, <1>2, <1>3, InitBook DEF FinalInv

\* Every behaviour keeps it.
LEMMA FinalCorrect == Spec => []FinalInv
<1>1. ASSUME FinalInv, [Next]_vars
      PROVE  FinalInv'
  BY <1>1, NextBook, UntouchedKept, OpenKept, PutsKept DEF FinalInv
<1>2. QED
  BY <1>1, InitFinal, PTL DEF Spec

\* Only the client removes the end of a job.
LEMMA EndStays ==
  ASSUME FinalInv, [Next]_vars, NEW j \in Jobs, status_params[j].status \in Terminal,
         happened' \cap {"slow_submit", "slow_boot"} = {}
  PROVE  \/ status_params'[j].status \in Terminal
         \/ DeleteStatus /\ client.job = j /\ status_params'[j] = NoDocument
<1>1. BookInv /\ UntouchedInv /\ OpenInv /\ PutsInv /\ happened \subseteq happened'
  BY Lasts DEF FinalInv
<1>2. DocMoves(j) /\ bastion.docs[j] \in Document /\ status_params[j] \in Document
  BY <1>1, DocsMove DEF BookInv, TypeOK, BastionState
<1>3. CASE Submitting(j)
  BY <1>1, <1>3 DEF UntouchedInv, Untouched, NoDocument, PlainDocument, Terminal, Absent
<1>4. CASE \E s \in Status : /\ Has(bastion.puts[j], s)
                             /\ status_params'[j] = [bastion.docs[j] EXCEPT !.status = s]
  BY <1>1, <1>2, <1>4 DEF PutsInv, Document
<1>5. ~(j \in bastion.pending \/ bastion.job = j)
  BY <1>1 DEF OpenInv
<1>6. [status_params[j] EXCEPT !.status = "CANCELED"].status \in Terminal
  BY <1>2 DEF Document, Terminal
<1>7. QED
  BY <1>2, <1>3, <1>4, <1>5, <1>6 DEF DocMoves

\* The end of a job is final: once its document says so, no later read, launch
\* or put of the bastion brings the job back to life.
THEOREM EndIsFinal == Spec => FinalStays
<1>1. ASSUME FinalInv, [Next]_vars, NEW j \in Jobs, status_params[j].status \in Terminal,
             status_params'[j].status \notin Terminal \cup {Absent}
      PROVE  happened' \cap {"slow_submit", "slow_boot"} # {}
  <2>1. status_params'[j] # NoDocument
    BY <1>1 DEF NoDocument, PlainDocument
  <2>2. QED
    BY <1>1, <2>1, EndStays
<1>2. FinalInv /\ [Next]_vars =>
        [\A j \in Jobs : /\ status_params[j].status \in Terminal
                         /\ status_params'[j].status \notin Terminal \cup {Absent}
                         => happened' \cap {"slow_submit", "slow_boot"} # {}]_vars
  BY <1>1
<1>3. QED
  BY <1>2, FinalCorrect, PTL DEF Spec, FinalStays

-----------------------------------------------------------------------------
(* The bastion loses sight of no worker.                                   *)

\* A document names an instance; the bastion is about to terminate it; every
\* worker of a job that may run is in that case.
Names(d, i) == d.instance_id = i \/ i \in d.all_instance_ids

\* The workers of the job that may run, without those the client deleted the
\* document of.
WatchedOf(j) == LiveOf(j) \ forsaken

Doomed(i) == i \in bastion.kill \/ owner[i] \in bastion.fleets
Settled(j) == \A i \in WatchedOf(j) : Doomed(i)

\* Nothing has happened that hides a worker.
Calm == happened \cap OrphanEvents = {}

\* Calm after the step means that these calls succeeded in it.
LEMMA CalmStep ==
  ASSUME BookInv, [Next]_vars, Calm'
  PROVE  /\ Calm /\ ~Crash /\ ~IdleShutdown
         /\ \A K : Happen(K) => K \cap OrphanEvents = {}
         /\ \A j, d, K : PutStatus(j, d, K) => status_params' = [status_params EXCEPT ![j] = d]
         /\ "slow_submit" \notin happened' /\ "slow_boot" \notin happened' /\ "forget" \notin happened'
         /\ "list" \notin happened'
<1>1. /\ "call" \in OrphanEvents /\ "put" \in OrphanEvents /\ "crash" \in OrphanEvents
      /\ "idle" \in OrphanEvents /\ "slow_submit" \in OrphanEvents /\ "slow_boot" \in OrphanEvents
      /\ "forget" \in OrphanEvents /\ "list" \in OrphanEvents
  BY DEF OrphanEvents
<1>2. \A K : Happen(K) => K \cap OrphanEvents = {}
  BY DEF Happen, Calm
<1>3. Calm
  BY Lasts DEF Calm
<1>4. ~Crash /\ ~IdleShutdown
  BY <1>1, <1>2 DEF Crash, IdleShutdown
<1>5. ASSUME NEW j, NEW d, NEW K, PutStatus(j, d, K)
      PROVE  status_params' = [status_params EXCEPT ![j] = d]
  <2>1. ~Happen(K \cup {"put"})
    BY <1>1, <1>2
  <2>2. QED
    BY <1>5, <2>1 DEF PutStatus
<1>6. QED
  BY <1>1, <1>2, <1>3, <1>4, <1>5 DEF Calm

\* A worker that may run after the step did before, or is new.
LEMMA LiveWas ==
  ASSUME BookInv, [Next]_vars, NEW i \in Instances, ec2'[i] \in Live
  PROVE  /\ owner'[i] \in Jobs
         /\ \/ ec2[i] \in Live /\ owner'[i] = owner[i]
            \/ /\ bastion.pc \in {"launch", "create_fleet"} /\ bastion'.pc = "record"
               /\ owner'[i] = bastion.job /\ bastion'.job = bastion.job /\ i \in bastion'.new
<1>1. InstanceMoves(i)
  BY Moves
<1>2. ec2[i] \in Live => owner[i] \in Jobs
  BY DEF BookInv, TypeOK, CloudSound, Live
<1>3. QED
  BY <1>1, <1>2 DEF InstanceMoves, Live

\* What the client has forsaken stays so.
LEMMA ForsakenStays ==
  ASSUME [Next]_vars
  PROVE  forsaken \subseteq forsaken'
<1>1. CASE ClientStep
  BY <1>1 DEF ClientStep, ClientContinues, SubmitJob, SubmitStatus, GetJobStatus, CancelJobs,
              CleanupResources, DeleteJob, DeleteStatus
<1>2. CASE BastionStep
  <2>1. BastionUnchanged
    BY <1>2 DEF BastionStep, UpdateRead, DescribeInstances, DescribeFleets, PutChanged, CancelRead,
       CollectJob, DeleteFleets, TerminateInstances, DeleteCancel, ListJobs, CheckJob,
       MarkSubmitting, LaunchInstance, CreateTemplate, CreateFleet, RecordLaunch
  <2>2. QED
    BY <2>1 DEF BastionUnchanged
<1>3. CASE Crash \/ IdleShutdown \/ Ec2Step \/ UNCHANGED vars
  BY <1>3 DEF Crash, IdleShutdown, Ec2Step, Boot, Finish, Stop, Reclaim, Forget, vars
<1>4. QED
  BY <1>1, <1>2, <1>3, Steps

\* Only the job being launched gets live workers.
LEMMA NoneNew ==
  ASSUME BookInv, [Next]_vars, NEW j \in Jobs,
         bastion.job # j \/ bastion.pc \notin {"launch", "create_fleet"}
  PROVE  WatchedOf(j)' \subseteq WatchedOf(j)
<1>1. SUFFICES ASSUME NEW i \in Instances, owner'[i] = j, ec2'[i] \in Live
               PROVE  owner[i] = j /\ ec2[i] \in Live
  BY ForsakenStays DEF WatchedOf, LiveOf, Workers
<1>2. QED
  BY <1>1, LiveWas

\* How a launch goes on.
StartMoves ==
  \/ bastion' = bastion
  \/ bastion'.pc = "launch" /\ bastion'.job \in bastion.pending
  \/ bastion.pc = "launch" /\ bastion'.pc = "create_fleet" /\ bastion'.job = bastion.job
  \/ bastion.pc \in {"launch", "create_fleet"} /\ bastion'.pc = "record" /\ bastion'.job = bastion.job

\* In no other way.
LEMMA StartMove ==
  ASSUME BookInv, [Next]_vars, bastion'.pc \in Starting
  PROVE  StartMoves
<1>1. CASE Crash \/ IdleShutdown
  BY <1>1, Empty DEF Crash, IdleShutdown, Starting
<1>2. CASE UpdateRead \/ DescribeInstances \/ DescribeFleets \/ PutChanged
  BY <1>2, Goes DEF Following, Starting
<1>3. CASE CancelRead \/ CollectJob \/ DeleteFleets \/ TerminateInstances \/ DeleteCancel
  BY <1>3, Goes DEF Cancelling, Starting
<1>4. CASE ListJobs \/ CheckJob
  BY <1>4, Goes DEF Starting
<1>5. CASE MarkSubmitting
  BY <1>5, MarkSubmittingTo DEF BookInv, StartMoves
<1>6. CASE LaunchInstance \/ CreateTemplate \/ CreateFleet \/ RecordLaunch
  <2>1. ToNext(bastion') => bastion'.pc \in {"update", "submitting"}
    BY Empty DEF ToNext
  <2>2. ~ToNext(bastion')
    BY <2>1 DEF Starting
  <2>3. \A N : Recorded(bastion', N) => bastion'.pc = "record" /\ bastion'.job = bastion.job
    BY DEF Recorded
  <2>4. CASE LaunchInstance
    <3>1. bastion.pc = "launch" /\ bastion'.pc = "record" /\ bastion'.job = bastion.job
      BY <2>2, <2>3, <2>4, LaunchInstanceTo DEF BookInv, LaunchInstance
    <3>2. QED
      BY <3>1 DEF StartMoves
  <2>5. CASE CreateTemplate
    <3>1. bastion.pc = "launch" /\ bastion'.pc = "create_fleet" /\ bastion'.job = bastion.job
      BY <2>2, <2>5, CreateTemplateTo DEF BookInv, CreateTemplate, SameLaunch
    <3>2. QED
      BY <3>1 DEF StartMoves
  <2>6. CASE CreateFleet
    <3>1. bastion.pc = "create_fleet" /\ bastion'.pc = "record" /\ bastion'.job = bastion.job
      BY <2>2, <2>3, <2>6, CreateFleetTo DEF BookInv, CreateFleet
    <3>2. QED
      BY <3>1 DEF StartMoves
  <2>7. CASE RecordLaunch
    BY <2>2, <2>7, RecordLaunchTo DEF BookInv, Placed
  <2>8. QED
    BY <1>6, <2>4, <2>5, <2>6, <2>7
<1>7. QED
  BY <1>1, <1>2, <1>3, <1>4, <1>5, <1>6, Others DEF BastionStep, StartMoves

\* How a request is handled when nothing fails.
CancelMoves ==
  \/ bastion' = bastion
  \/ bastion'.pc \notin Cancelling /\ bastion.pc \notin {"collect", "delete_fleets", "terminate"}
  \/ bastion'.pc = "collect" /\ bastion'.todo = bastion'.request /\ NoRequest(bastion)
  \/ /\ bastion.pc = "collect" /\ bastion'.request = bastion.request
     /\ UNCHANGED <<ec2, owner>>
     /\ \E k \in bastion.todo :
          /\ bastion'.todo = bastion.todo \ {k}
          /\ bastion'.pc = (IF bastion'.todo = {} THEN "delete_fleets" ELSE "collect")
          /\ \A j \in Jobs \ {k} : status_params'[j] = status_params[j]
          /\ bastion.kill \cup ({status_params[k].instance_id} \ {NoInstance}) \subseteq bastion'.kill
          /\ bastion.fleets \subseteq bastion'.fleets
          /\ status_params[k].fleet_request_id => k \in bastion'.fleets
  \/ /\ bastion.pc = "delete_fleets" /\ bastion'.pc = "terminate" /\ bastion'.request = bastion.request
     /\ bastion.kill \subseteq bastion'.kill /\ owner' = owner
     /\ \A i \in Instances : owner[i] \in bastion.fleets => ec2'[i] \notin Live
  \/ /\ bastion.pc = "terminate" /\ bastion'.pc = "delete_cancel" /\ bastion'.request = bastion.request
     /\ bastion.fleets = {} /\ owner' = owner /\ \A i \in bastion.kill : ec2'[i] \notin Live

\* In no other way.
LEMMA CancelMove ==
  ASSUME BookInv, [Next]_vars, Calm', \A i \in Instances : ec2[i] # "gone"
  PROVE  CancelMoves
<1>1. ~Happen({"call"}) /\ ~Crash /\ ~IdleShutdown
  BY CalmStep DEF OrphanEvents
<1>2. bastion \in BastionState /\ CloudOK /\ TypeOK
  BY TypeParts DEF BookInv, TypeOK
<1>3. CASE bastion.pc \notin Cancelling
  <2>1. NoRequest(bastion)
    BY <1>3 DEF BookInv, Placed, CancelPlaced
  <2>2. CASE bastion'.pc \notin Cancelling
    BY <1>3, <2>2 DEF CancelMoves, Cancelling
  <2>3. CASE CancelRead
    BY <2>1, <2>2, <2>3, CancelReadTo, Empty DEF BookInv, CancelMoves, Cancelling
  <2>4. CASE bastion' # bastion /\ ~CancelRead
    <3>1. ~(CollectJob \/ DeleteFleets \/ TerminateInstances \/ DeleteCancel)
      BY <1>3 DEF CollectJob, DeleteFleets, TerminateInstances, DeleteCancel, Cancelling
    <3>2. bastion'.pc \notin Cancelling
      BY <1>1, <2>4, <3>1, Goes, Others DEF BastionStep, Cancelling, Following
    <3>3. QED
      BY <2>2, <3>2
  <2>5. QED
    BY <2>3, <2>4 DEF CancelMoves
<1>4. CASE CollectJob
  <2>1. bastion.pc = "collect" /\ UNCHANGED <<ec2, owner>>
    BY <1>4 DEF CollectJob, cloudVars
  <2>2. PICK k \in bastion.todo :
          /\ k \in Jobs
          /\ \/ PutStatus(k, [status_params[k] EXCEPT !.status = "CANCELED"], {})
             \/ UNCHANGED status_params
          /\ bastion'.todo = bastion.todo \ {k}
          /\ bastion'.pc = (IF bastion'.todo = {} THEN "delete_fleets" ELSE "collect")
          /\ bastion'.request = bastion.request
          /\ bastion'.kill = bastion.kill \cup ({status_params[k].instance_id} \ {NoInstance})
          /\ bastion'.fleets = bastion.fleets \cup IF status_params[k].fleet_request_id THEN {k} ELSE {}
    BY <1>1, <1>2, <1>4, CollectJobTo, Zenon
  <2>3. \A j \in Jobs \ {k} : status_params'[j] = status_params[j]
    BY <2>2, PutMoves
  <2>4. QED
    BY <2>1, <2>2, <2>3 DEF CancelMoves
<1>5. CASE DeleteFleets
  <2>1. bastion.pc = "delete_fleets" /\ owner' = owner
    BY <1>5 DEF DeleteFleets
  <2>2. PICK failed \in SUBSET bastion.fleets :
          /\ Happen(IfSo(failed # {}, "call"))
          /\ ec2' = Stopped(UNION {Workers(j) : j \in bastion.fleets \ failed})
          /\ bastion'.pc = "terminate" /\ bastion'.request = bastion.request
          /\ bastion.kill \subseteq bastion'.kill
    BY <1>2, <1>5, DeleteFleetsTo
  <2>3. failed = {}
    BY <1>1, <2>2 DEF IfSo
  <2>4. PICK S : S = UNION {Workers(j) : j \in bastion.fleets \ failed}
    OBVIOUS
  <2>5. \A i \in Instances : owner[i] \in bastion.fleets => i \in S
    BY <2>3, <2>4 DEF Workers
  <2>6. \A i \in Instances : owner[i] \in bastion.fleets => ec2'[i] \notin Live
    BY <1>2, <2>2, <2>4, <2>5, StoppedIs
  <2>7. QED
    BY <2>1, <2>2, <2>6 DEF CancelMoves
<1>6. CASE TerminateInstances
  <2>1. bastion.pc = "terminate" /\ owner' = owner
    BY <1>6 DEF TerminateInstances
  <2>2. bastion.fleets = {} /\ bastion.kill \subseteq Instances
    BY <1>2, <2>1 DEF BookInv, Placed, CancelPlaced, BastionState
  <2>3. \A i \in bastion.kill : ec2[i] # "gone"
    BY <2>2
  <2>4. ~Happen(IfSo(\A i \in bastion.kill : ec2[i] # "gone", "call"))
    BY <1>1, <2>3 DEF IfSo
  <2>5. /\ ec2' = Stopped(bastion.kill) /\ bastion'.pc = "delete_cancel"
        /\ bastion'.request = bastion.request
    BY <1>2, <1>6, <2>4, TerminateTo
  <2>6. \A i \in bastion.kill : ec2'[i] \notin Live
    BY <1>2, <2>2, <2>5, StoppedIs
  <2>7. QED
    BY <2>1, <2>2, <2>5, <2>6 DEF CancelMoves
<1>7. CASE DeleteCancel
  BY <1>7, Empty DEF DeleteCancel, CancelMoves, Cancelling
<1>8. CASE bastion.pc \in Cancelling /\ bastion' # bastion
  <2>1. BastionStep
    BY <1>1, <1>8, Others
  <2>2. CollectJob \/ DeleteFleets \/ TerminateInstances \/ DeleteCancel
    BY <1>8, <2>1 DEF BastionStep, Cancelling, UpdateRead, DescribeInstances, DescribeFleets, PutChanged,
       CancelRead, ListJobs, CheckJob, MarkSubmitting, LaunchInstance, CreateTemplate, CreateFleet,
       RecordLaunch
  <2>3. QED
    BY <1>4, <1>5, <1>6, <1>7, <2>2
<1>9. QED
  BY <1>3, <1>8 DEF CancelMoves

\* What is doomed stays so until it is terminated.
LEMMA DoomedStays ==
  ASSUME BookInv, [Next]_vars, Calm', \A i \in Instances : ec2[i] # "gone",
         NEW i \in Instances, Doomed(i), ec2'[i] \in Live, ec2[i] \in Live
  PROVE  Doomed(i)'
<1>1. CancelMoves
  BY CancelMove
<1>2. ~NoRequest(bastion)
  BY DEF Doomed, NoRequest
<1>3. bastion.pc \in Cancelling /\ (bastion.pc = "delete_cancel" => bastion.kill = {} /\ bastion.fleets = {})
  BY <1>2 DEF BookInv, Placed, CancelPlaced
<1>4. owner'[i] = owner[i]
  BY LiveWas, <1>3 DEF Cancelling
<1>5. bastion.pc # "delete_cancel"
  BY <1>3 DEF Doomed
<1>6. QED
  BY <1>1, <1>2, <1>3, <1>4, <1>5 DEF CancelMoves, Doomed, Cancelling

\* So do the workers of a job that gets no new ones.
LEMMA SettledStays ==
  ASSUME BookInv, [Next]_vars, Calm', \A i \in Instances : ec2[i] # "gone",
         NEW j \in Jobs, Settled(j), bastion.job # j \/ bastion.pc \notin {"launch", "create_fleet"}
  PROVE  Settled(j)'
<1>1. SUFFICES ASSUME NEW i \in WatchedOf(j)'
               PROVE  Doomed(i)'
  BY DEF Settled
<1>2. i \in WatchedOf(j) /\ i \in Instances /\ ec2'[i] \in Live /\ ec2[i] \in Live
  BY NoneNew DEF WatchedOf, LiveOf, Workers
<1>3. QED
  BY <1>2, DoomedStays DEF Settled

\* While a worker may still run its command, the job's document names it, or the
\* bastion is about to write it down or to terminate it; or the client has deleted
\* that document.
InSight(i) ==
  ec2[i] \in Live /\ i \notin forsaken =>
    \/ Names(status_params[owner[i]], i)
    \/ bastion.pc = "record" /\ i \in bastion.new
    \/ Doomed(i)

\* A document without an instance says so; one that says the job ended leaves
\* no worker alone.
DocsTell ==
  \A j \in Jobs : /\ status_params[j].status \in Fresh => status_params[j].instance_id = NoInstance
                  /\ status_params[j].status \in Terminal => Settled(j)

\* A job to be launched has no worker that may run.
Launchable ==
  /\ \A j \in bastion.pending : WatchedOf(j) = {}
  /\ bastion.pc \in {"launch", "create_fleet"} => WatchedOf(bastion.job) = {}
  /\ bastion.pc = "record" => WatchedOf(bastion.job) \subseteq bastion.new

\* What the bastion follows it has read, and the ends it has found are true.
Followed ==
  /\ bastion.pc \in Following =>
       \A j \in bastion.todo : \A i \in WatchedOf(j) : Names(bastion.docs[j], i)
  /\ \A i \in Instances : ec2[i] # "gone" /\ (bastion.seen[i] \in Terminal => ec2[i] \in Ended)
  /\ \A j \in Jobs : bastion.puts[j] # << >> => WatchedOf(j) = {}

\* The workers of the canceled jobs are collected, and then terminated.
Collected ==
  /\ bastion.pc = "collect" => \A j \in bastion.request \ bastion.todo : Settled(j)
  /\ bastion.pc \in {"delete_fleets", "terminate"} => \A j \in bastion.request : Settled(j)
  /\ bastion.pc = "delete_cancel" => \A j \in bastion.request : WatchedOf(j) = {}

SightInv == Calm => /\ \A i \in Instances : InSight(i)
                    /\ DocsTell /\ Launchable /\ Followed /\ Collected

\* A worker out of the bastion's hands is named by a sound document.
LEMMA OnlyNamed ==
  ASSUME BookInv, NEW j \in Jobs, NEW i \in WatchedOf(j), InSight(i),
         bastion.pc # "record", NoRequest(bastion)
  PROVE  Names(status_params[j], i) /\ status_params[j].instance_id # NoInstance
<1>1. i \in Instances /\ owner[i] = j /\ ec2[i] \in Live /\ i \notin forsaken
  BY DEF WatchedOf, LiveOf, Workers
<1>2. Names(status_params[j], i)
  BY <1>1 DEF InSight, Doomed, NoRequest
<1>3. DocSound(j, status_params[j])
  BY DEF BookInv, DocsSound
<1>4. QED
  BY <1>1, <1>2, <1>3, DetachedAssumption DEF Names, DocSound

\* The writing down of the new workers.
LEMMA RecordKeeps ==
  ASSUME BookInv, [Next]_vars, Calm', bastion.pc = "record", NEW i \in bastion.new
  PROVE  \/ bastion' = bastion
         \/ Names(status_params'[bastion.job], i)
<1>1. CASE RecordLaunch
  <2>1. bastion.job \in Jobs
    BY LaunchedJob DEF Starting
  <2>2. status_params' = [status_params EXCEPT ![bastion.job] =
          IF use_spot_fleet THEN FleetDocument("RUNNING", Primary, bastion.new)
                            ELSE PlainDocument("RUNNING", Primary)]
    BY <1>1, RecordLaunchTo, CalmStep DEF BookInv, Placed
  <2>3. status_params'[bastion.job] = IF use_spot_fleet THEN FleetDocument("RUNNING", Primary, bastion.new)
                                      ELSE PlainDocument("RUNNING", Primary)
    BY <2>1, <2>2 DEF BookInv, TypeOK
  <2>4. ~use_spot_fleet => i = Primary
    BY <1>1, RecordLaunchTo DEF BookInv, Placed, HeldSound
  <2>5. QED
    BY <2>3, <2>4 DEF Names, FleetDocument, PlainDocument
<1>2. CASE bastion' = bastion
  BY <1>2
<1>3. ~Crash /\ ~IdleShutdown
  BY CalmStep
<1>4. BastionStep => RecordLaunch
  BY DEF BastionStep, UpdateRead, DescribeInstances, DescribeFleets, PutChanged, CancelRead,
         CollectJob, DeleteFleets, TerminateInstances, DeleteCancel, ListJobs, CheckJob,
         MarkSubmitting, LaunchInstance, CreateTemplate, CreateFleet
<1>5. QED
  BY <1>1, <1>2, <1>3, <1>4, Others

\* No worker gets out of sight.
LEMMA SightKept ==
  ASSUME FinalInv, SightInv, [Next]_vars, Calm', NEW i \in Instances
  PROVE  InSight(i)'
<1>1. /\ BookInv /\ Calm /\ "slow_submit" \notin happened /\ "slow_submit" \notin happened'
  BY CalmStep, Lasts DEF FinalInv
<1>2. /\ \A k \in Instances : InSight(k)
      /\ DocsTell /\ Launchable /\ Followed /\ \A k \in Instances : ec2[k] # "gone"
  BY <1>1 DEF SightInv, Followed
<1>3. SUFFICES ASSUME ec2'[i] \in Live, i \notin forsaken'
               PROVE  \/ Names(status_params'[owner'[i]], i)
                      \/ bastion'.pc = "record" /\ i \in bastion'.new
                      \/ Doomed(i)'
  BY DEF InSight, Names
<1>4. CASE ~(ec2[i] \in Live /\ owner'[i] = owner[i])
  BY <1>1, <1>3, <1>4, LiveWas
<1>5. CASE ec2[i] \in Live /\ owner'[i] = owner[i]
  <2>1. PICK j \in Jobs : /\ j = owner[i] /\ j = owner'[i] /\ i \in WatchedOf(j) /\ i \in Workers(j)
                          /\ i \notin forsaken
    BY <1>1, <1>3, <1>5, LiveWas, ForsakenStays DEF WatchedOf, LiveOf, Workers
  <2>2. CASE Doomed(i)
    BY <1>1, <1>2, <1>3, <1>5, <2>2, DoomedStays
  <2>3. CASE bastion.pc = "record" /\ i \in bastion.new
    <3>1. j = bastion.job
      BY <1>1, <2>1, <2>3 DEF BookInv, HeldSound
    <3>2. QED
      BY <1>1, <2>1, <2>3, <3>1, RecordKeeps
  <2>4. CASE Names(status_params[j], i)
    <3>1. DocMoves(j) /\ status_params[j] \in Document
      BY <1>1, DocsMove DEF BookInv, TypeOK
    <3>2. CASE status_params'[j] = status_params[j]
      BY <2>1, <2>4, <3>2
    <3>3. ~Submitting(j)
      BY <1>1, <2>1 DEF FinalInv, UntouchedInv, Untouched
    <3>4. CASE DeleteStatus /\ client.job = j
      <4>1. CASE status_params[j].status \in Terminal
        BY <1>2, <2>1, <2>2, <4>1 DEF DocsTell, Settled
      <4>2. CASE status_params'[j] # status_params[j] /\ status_params[j].status \notin Terminal
        <5>1. Named(status_params[j]) \subseteq forsaken'
          BY <3>4, <4>2 DEF DeleteStatus
        <5>2. i \in Named(status_params[j])
          BY <2>4, DetachedAssumption DEF Names, Named
        <5>3. QED
          BY <1>3, <5>1, <5>2
      <4>3. QED
        BY <3>2, <4>1, <4>2
    <3>5. bastion.puts[j] = << >> /\ j \notin bastion.pending
      BY <1>2, <2>1 DEF Followed, Launchable
    <3>6. CASE status_params'[j] = [status_params[j] EXCEPT !.status = "CANCELED"]
      <4>1. PICK d : d = [status_params[j] EXCEPT !.status = "CANCELED"]
        OBVIOUS
      <4>2. d.instance_id = status_params[j].instance_id /\ d.all_instance_ids = status_params[j].all_instance_ids
        BY <3>1, <4>1 DEF Document
      <4>3. QED
        BY <2>1, <2>4, <3>6, <4>1, <4>2 DEF Names
    <3>7. CASE (LaunchInstance \/ CreateTemplate \/ CreateFleet) /\ j = bastion.job
      BY <1>2, <2>1, <3>7 DEF Launchable, LaunchInstance, CreateTemplate, CreateFleet
    <3>8. CASE RecordLaunch /\ j = bastion.job
      <4>1. bastion.pc = "record"
        BY <3>8 DEF RecordLaunch
      <4>2. i \in bastion.new
        BY <1>2, <2>1, <3>8, <4>1 DEF Launchable
      <4>3. QED
        BY <2>3, <4>1, <4>2
    <3>9. QED
      BY <3>1, <3>2, <3>3, <3>4, <3>5, <3>6, <3>7, <3>8 DEF DocMoves
  <2>5. QED
    BY <1>2, <1>5, <2>1, <2>2, <2>3, <2>4 DEF InSight
<1>6. QED
  BY <1>4, <1>5

\* After collecting the bastion collects, or deletes the fleets.
LEMMA CollectLeads ==
  ASSUME BookInv, CollectJob, ~Happen({"call"})
  PROVE  bastion'.pc \in {"collect", "delete_fleets"} /\ bastion'.request = bastion.request
BY CollectJobTo DEF BookInv

\* A worker of the job being collected is doomed by it.
LEMMA CollectedNow ==
  ASSUME FinalInv, SightInv, [Next]_vars, Calm', bastion.pc = "collect",
         NEW k \in Jobs, UNCHANGED <<ec2, owner>>,
         bastion.kill \cup ({status_params[k].instance_id} \ {NoInstance}) \subseteq bastion'.kill,
         bastion.fleets \subseteq bastion'.fleets,
         status_params[k].fleet_request_id => k \in bastion'.fleets
  PROVE  Settled(k)'
<1>1. BookInv /\ Calm
  BY CalmStep DEF FinalInv
<1>2. SUFFICES ASSUME NEW i \in WatchedOf(k)
               PROVE  Doomed(i)'
  BY ForsakenStays DEF Settled, WatchedOf, LiveOf, Workers
<1>3. i \in Instances /\ owner[i] = k /\ owner'[i] = k /\ ec2[i] \in Live /\ i \notin forsaken
  BY <1>2 DEF WatchedOf, LiveOf, Workers
<1>4. InSight(i)
  BY <1>1, <1>3 DEF SightInv
<1>5. CASE Doomed(i)
  BY <1>3, <1>5 DEF Doomed
<1>6. CASE Names(status_params[k], i)
  <2>1. DocSound(k, status_params[k])
    BY <1>1 DEF BookInv, DocsSound
  <2>2. status_params[k].instance_id = i \/ status_params[k].fleet_request_id
    BY <1>6, <2>1 DEF Names, DocSound
  <2>3. QED
    BY <1>3, <2>2, DetachedAssumption DEF Doomed
<1>7. QED
  BY <1>3, <1>4, <1>5, <1>6 DEF InSight

\* The documents tell the truth after every step.
LEMMA DocsTellKept ==
  ASSUME FinalInv, SightInv, [Next]_vars, Calm', FinalInv'
  PROVE  DocsTell'
<1>1. /\ BookInv /\ Calm /\ OpenInv' /\ PutsInv
      /\ happened' \cap {"slow_submit", "slow_boot"} = {} /\ "slow_boot" \notin happened
  BY CalmStep, Lasts DEF FinalInv
<1>2. /\ DocsTell /\ Launchable /\ Followed /\ \A i \in Instances : ec2[i] # "gone"
  BY <1>1 DEF SightInv, Followed
<1>3. SUFFICES ASSUME NEW j \in Jobs
               PROVE  /\ status_params'[j].status \in Fresh => status_params'[j].instance_id = NoInstance
                      /\ status_params'[j].status \in Terminal => Settled(j)'
  BY DEF DocsTell
<1>4. DocMoves(j) /\ status_params[j] \in Document /\ bastion.docs[j] \in Document
  BY <1>1, DocsMove DEF BookInv, TypeOK, BastionState
<1>6. \A s \in Status : Has(bastion.puts[j], s) => s \in Terminal
  BY <1>1 DEF PutsInv
<1>7. ASSUME status_params'[j].status \in Fresh
      PROVE  status_params'[j].instance_id = NoInstance
  <2>1. \A s \in Terminal : s \notin Fresh
    BY DEF Terminal, Fresh, Absent
  <2>2. "CANCELED" \in Terminal /\ "CANCELED" \in Status /\ "FAILED" \in Terminal /\ "RUNNING" \notin Fresh
    BY DEF Terminal, Status, Fresh, Absent
  <2>3. ~\E s \in Status : /\ Has(bastion.puts[j], s)
                          /\ status_params'[j] = [bastion.docs[j] EXCEPT !.status = s]
    <3>1. SUFFICES ASSUME NEW s \in Status, Has(bastion.puts[j], s),
                          status_params'[j] = [bastion.docs[j] EXCEPT !.status = s]
                   PROVE  FALSE
      OBVIOUS
    <3>2. status_params'[j].status = s
      BY <1>4, <3>1 DEF Document
    <3>3. s \in Terminal
      BY <1>6, <3>1
    <3>4. QED
      BY <1>7, <2>1, <3>2, <3>3
  <2>4. status_params'[j] # [status_params[j] EXCEPT !.status = "CANCELED"]
    <3>1. SUFFICES ASSUME status_params'[j] = [status_params[j] EXCEPT !.status = "CANCELED"]
                   PROVE  FALSE
      OBVIOUS
    <3>2. status_params'[j].status = "CANCELED"
      BY <1>4, <3>1 DEF Document
    <3>3. QED
      BY <1>7, <2>1, <2>2, <3>2
  <2>5. CASE status_params'[j] = status_params[j]
    BY <1>2, <1>7, <2>5 DEF DocsTell
  <2>6. QED
    BY <1>4, <1>7, <2>1, <2>2, <2>3, <2>4, <2>5 DEF DocMoves, PlainDocument, NoDocument, FleetDocument
<1>8. ASSUME status_params'[j].status \in Terminal
      PROVE  Settled(j)'
  <2>1. bastion'.job # j
    BY <1>1, <1>8 DEF OpenInv
  <2>2. CASE WatchedOf(j) = {} /\ WatchedOf(j)' = {}
    BY <2>2 DEF Settled
  <2>3. WatchedOf(j)' \subseteq WatchedOf(j)
    <3>1. SUFFICES ASSUME NEW i \in WatchedOf(j)'
                   PROVE  i \in WatchedOf(j)
      OBVIOUS
    <3>2. i \in Instances /\ owner'[i] = j /\ ec2'[i] \in Live /\ i \notin forsaken
      BY <3>1, ForsakenStays DEF WatchedOf, LiveOf, Workers
    <3>3. ec2[i] \in Live /\ owner[i] = j
      BY <1>1, <2>1, <3>2, LiveWas
    <3>4. QED
      BY <3>2, <3>3 DEF WatchedOf, LiveOf, Workers
  <2>4. CASE Settled(j)
    <3>1. SUFFICES ASSUME NEW i \in WatchedOf(j)'
                   PROVE  Doomed(i)'
      BY DEF Settled
    <3>2. i \in WatchedOf(j) /\ i \in Instances /\ ec2'[i] \in Live /\ ec2[i] \in Live /\ Doomed(i)
      BY <2>3, <2>4, <3>1 DEF WatchedOf, LiveOf, Workers, Settled
    <3>3. QED
      BY <1>1, <1>2, <3>2, DoomedStays
  <2>5. CASE status_params'[j] = status_params[j]
    BY <1>2, <1>8, <2>4, <2>5 DEF DocsTell
  <2>6. CASE bastion.puts[j] # << >>
    BY <1>2, <2>2, <2>3, <2>6 DEF Followed
  <2>7. CASE CollectJob /\ status_params'[j] # status_params[j]
    <3>1. bastion.pc = "collect" /\ CancelMoves
      BY <1>1, <1>2, <2>7, CancelMove DEF CollectJob
    <3>2. bastion' # bastion
      <4>1. PICK k \in bastion.todo : bastion'.todo = bastion.todo \ {k}
        BY <1>1, <2>7, CollectJobTo, CalmStep DEF BookInv, OrphanEvents
      <4>2. QED
        BY <4>1
    <3>3. PICK k \in bastion.todo :
             /\ UNCHANGED <<ec2, owner>>
             /\ \A l \in Jobs \ {k} : status_params'[l] = status_params[l]
             /\ bastion.kill \cup ({status_params[k].instance_id} \ {NoInstance}) \subseteq bastion'.kill
             /\ bastion.fleets \subseteq bastion'.fleets
             /\ status_params[k].fleet_request_id => k \in bastion'.fleets
      <4>1. bastion'.pc \in {"collect", "delete_fleets"} /\ bastion'.request = bastion.request
        BY <1>1, <2>7, CollectLeads, CalmStep DEF OrphanEvents
      <4>2. bastion.todo \subseteq bastion.request /\ bastion.todo # {}
        BY <1>1, <2>7, <3>1 DEF CollectJob, BookInv, Placed, CancelPlaced
      <4>3. QED
        BY <3>1, <3>2, <4>1, <4>2 DEF CancelMoves, NoRequest, Cancelling
    <3>4. k = j
      BY <2>7, <3>3
    <3>5. QED
      BY <3>1, <3>3, <3>4, CollectedNow
  <2>8. CASE (LaunchInstance \/ CreateTemplate \/ CreateFleet) /\ j = bastion.job
    BY <1>2, <2>2, <2>3, <2>8 DEF Launchable, LaunchInstance, CreateTemplate, CreateFleet
  <2>9. QED
    BY <1>4, <1>8, <2>5, <2>6, <2>7, <2>8
       DEF DocMoves, PlainDocument, NoDocument, FleetDocument, Terminal, Absent
<1>9. QED
  BY <1>7, <1>8

\* While the bastion launches after the step, it has a job; and it launches jobs
\* only.
LEMMA NextStarts ==
  ASSUME BookInv, [Next]_vars
  PROVE  /\ bastion'.pc \in Starting => bastion'.job \in Jobs
         /\ bastion'.pending \subseteq Jobs /\ bastion'.todo \subseteq Jobs
BY NextBook DEF BookInv, TypeOK, BastionState, Placed, StartPlaced

\* No worker is new unless there is one to record.
LEMMA NoneNewNow ==
  ASSUME BookInv, [Next]_vars, NEW j \in Jobs, bastion'.pc # "record"
  PROVE  WatchedOf(j)' \subseteq WatchedOf(j)
<1>1. SUFFICES ASSUME NEW i \in Instances, owner'[i] = j, ec2'[i] \in Live
               PROVE  owner[i] = j /\ ec2[i] \in Live
  BY ForsakenStays DEF WatchedOf, LiveOf, Workers
<1>2. QED
  BY <1>1, LiveWas

\* The bastion finds a status to put for a job without a live worker only.
LEMMA NoneLive ==
  ASSUME BookInv, PutsInv, "slow_boot" \notin happened, Followed,
         NEW j \in Jobs, bastion.pc = "fleets", j \in bastion.todo, NewStatuses(j, {}) # << >>
  PROVE  WatchedOf(j) = {}
<1> DEFINE d == bastion.docs[j]
           fs == FleetStatus(j, {})
<1>1. TypeOK /\ {} \in SUBSET Jobs
  BY DEF BookInv
<1>2. \/ /\ ~d.fleet_request_id /\ d.instance_id # NoInstance
         /\ bastion.seen[d.instance_id] \notin {"RUNNING", Absent}
      \/ d.fleet_request_id /\ fs # "RUNNING"
  BY <1>1, NewOnes
<1>3. d \in Document /\ DocSound(j, d) /\ fleet[j] \in {"none", "active", "failed", "deleted"}
  BY DEF BookInv, TypeOK, BastionState, DocsSound
<1>4. \A i \in WatchedOf(j) : Names(d, i)
  BY DEF Followed, Following
<1>5. CASE /\ ~d.fleet_request_id /\ d.instance_id # NoInstance
           /\ bastion.seen[d.instance_id] \notin {"RUNNING", Absent}
  <2>1. d.instance_id \in Instances
    BY <1>3, <1>5 DEF Document
  <2>2. bastion.seen[d.instance_id] \in Terminal
    BY <1>5, <2>1 DEF PutsInv
  <2>3. ec2[d.instance_id] \notin Live
    BY <2>1, <2>2 DEF Followed, Ended, Live
  <2>4. \A i \in WatchedOf(j) : i = d.instance_id
    BY <1>3, <1>4, <1>5 DEF Names, DocSound
  <2>5. QED
    BY <2>3, <2>4 DEF WatchedOf, LiveOf
<1>6. CASE d.fleet_request_id /\ fs # "RUNNING"
  <2>1. use_spot_fleet
    BY <1>3, <1>6 DEF DocSound
  <2>2. CASE fleet[j] = "active"
    <3>1. FleetInstances(j, {}) = {}
      BY <1>6, <2>2 DEF FleetStatus
    <3>2. QED
      BY <3>1 DEF FleetInstances, WatchedOf, LiveOf
  <2>3. CASE fleet[j] # "active"
    BY <1>3, <2>1, <2>3 DEF BookInv, CloudSound, WatchedOf, LiveOf
  <2>4. QED
    BY <2>2, <2>3
<1>7. QED
  BY <1>2, <1>5, <1>6

\* The jobs to launch have no live worker after the step either.
LEMMA LaunchableKept ==
  ASSUME FinalInv, SightInv, [Next]_vars, Calm'
  PROVE  Launchable'
<1>1. BookInv /\ Calm
  BY CalmStep DEF FinalInv
<1>2. /\ DocsTell /\ Launchable /\ \A i \in Instances : InSight(i)
  BY <1>1 DEF SightInv
<1>3. ASSUME NEW j \in Jobs, j \in bastion'.pending
      PROVE  WatchedOf(j)' = {}
  <2>1. LoopMoves(j)
    BY <1>1, LoopMove
  <2>2. CASE j \in bastion.pending
    <3>1. WatchedOf(j) = {} /\ bastion.job # j
      BY <1>1, <1>2, <2>2 DEF Launchable, BookInv, Placed, StartPlaced
    <3>2. QED
      BY <1>1, <3>1, NoneNew
  <2>3. CASE bastion.pc = "check" /\ status_params[j].status \in Fresh
    <3>1. NoRequest(bastion) /\ bastion.job # j
      BY <1>1, <2>3, DetachedAssumption DEF BookInv, Placed, CancelPlaced, StartPlaced, Cancelling, Starting
    <3>2. status_params[j].instance_id = NoInstance
      BY <1>2, <2>3 DEF DocsTell
    <3>3. ASSUME NEW i \in WatchedOf(j)
          PROVE  FALSE
      <4>1. InSight(i)
        BY <1>2 DEF WatchedOf, LiveOf, Workers
      <4>2. QED
        BY <1>1, <2>3, <3>1, <3>2, <4>1, OnlyNamed
    <3>4. QED
      BY <1>1, <3>1, <3>3, NoneNew
  <2>4. QED
    BY <1>3, <2>1, <2>2, <2>3 DEF LoopMoves
<1>4. ASSUME bastion'.pc \in {"launch", "create_fleet"}
      PROVE  WatchedOf(bastion.job)' = {}
  <2>1. StartMoves
    BY <1>1, <1>4, StartMove DEF Starting
  <2>2. PICK j \in Jobs : j = bastion'.job
    BY <1>1, <1>4, NextStarts DEF Starting
  <2>3. bastion'.pc # "record"
    BY <1>4
  <2>4. WatchedOf(j)' \subseteq WatchedOf(j)
    BY <1>1, <2>3, NoneNewNow
  <2>5. WatchedOf(j) = {}
    BY <1>2, <1>4, <2>1, <2>2 DEF StartMoves, Launchable
  <2>6. QED
    BY <2>2, <2>4, <2>5 DEF WatchedOf, LiveOf, Workers
<1>5. ASSUME bastion'.pc = "record"
      PROVE  WatchedOf(bastion.job)' \subseteq bastion'.new
  <2>1. StartMoves
    BY <1>1, <1>5, StartMove DEF Starting
  <2>2. SUFFICES ASSUME NEW i \in Instances, owner'[i] = bastion'.job, ec2'[i] \in Live,
                        i \notin forsaken
                 PROVE  i \in bastion'.new
    BY ForsakenStays DEF WatchedOf, LiveOf, Workers
  <2>3. CASE ec2[i] \in Live /\ owner'[i] = owner[i]
    <3>1. bastion'.job = bastion.job
      BY <1>5, <2>1 DEF StartMoves
    <3>2. i \in WatchedOf(bastion.job)
      BY <2>2, <2>3, <3>1 DEF WatchedOf, LiveOf, Workers
    <3>3. QED
      BY <1>2, <1>5, <2>1, <3>2 DEF StartMoves, Launchable
  <2>4. QED
    BY <1>1, <2>2, <2>3, LiveWas
<1>6. QED
  BY <1>3, <1>4, <1>5, <1>1, NextStarts DEF Launchable

\* The ends the bastion has found are true.
LEMMA FollowedKept ==
  ASSUME FinalInv, SightInv, [Next]_vars, Calm'
  PROVE  Followed'
<1>1. /\ BookInv /\ Calm /\ PutsInv /\ "forget" \notin happened' /\ "list" \notin happened'
      /\ "slow_boot" \notin happened
  BY CalmStep, Lasts DEF FinalInv
<1>2. /\ DocsTell /\ Followed /\ \A i \in Instances : InSight(i) /\ ec2[i] # "gone"
  BY <1>1 DEF SightInv, Followed
<1>3. ASSUME bastion'.pc \in Following, NEW j \in Jobs, j \in bastion'.todo, NEW i \in WatchedOf(j)'
      PROVE  Names(bastion'.docs[j], i)
  <2>1. /\ i \in Instances /\ owner'[i] = j /\ ec2'[i] \in Live /\ bastion'.pc # "record"
        /\ i \notin forsaken
    BY <1>3, ForsakenStays DEF WatchedOf, LiveOf, Workers, Following
  <2>2. i \in WatchedOf(j)
    BY <1>1, <2>1, LiveWas DEF WatchedOf, LiveOf, Workers
  <2>3. CASE UpdateRead /\ ReadBy(bastion')
    <3>1. bastion'.docs[j] = status_params[j]
      BY <1>3, <2>3 DEF ReadBy
    <3>2. bastion.pc # "record" /\ NoRequest(bastion) /\ InSight(i)
      BY <1>1, <1>2, <2>1, <2>3 DEF UpdateRead, BookInv, Placed, CancelPlaced, Cancelling
    <3>3. QED
      BY <1>1, <2>2, <3>1, <3>2, OnlyNamed
  <2>4. CASE bastion.pc \in Following /\ j \in bastion.todo /\ bastion'.docs = bastion.docs
    BY <1>2, <2>2, <2>4 DEF Followed
  <2>5. CASE DescribeInstances /\ SeenBy(bastion')
    BY <1>3, <2>4, <2>5 DEF DescribeInstances, SeenBy, Following
  <2>6. CASE DescribeFleets
    <3>1. bastion.pc = "fleets" /\ ~\E l \in {"cancel"} : bastion' = AtLabel(l)
      BY <1>3, <2>6, Empty DEF DescribeFleets, Following
    <3>2. \E U \in SUBSET Jobs : ToPut(bastion', U)
      BY <1>1, <2>6, <3>1, DescribeFleetsTo DEF BookInv
    <3>3. bastion'.docs = bastion.docs /\ j \in bastion.todo
      BY <1>3, <3>2 DEF ToPut
    <3>4. QED
      BY <2>4, <3>1, <3>3 DEF Following
  <2>7. CASE PutChanged
    <3>1. bastion.pc = "put"
      BY <2>7 DEF PutChanged
    <3>2. bastion' = AtLabel("cancel") \/ (bastion'.docs = bastion.docs /\ bastion'.todo \subseteq bastion.todo)
      BY <1>1, <2>7, PutChangedTo DEF BookInv, Placed
    <3>3. QED
      BY <1>3, <2>4, <3>1, <3>2, Empty DEF Following
  <2>8. QED
    BY <1>1, <1>3, <2>3, <2>4, <2>5, <2>6, <2>7, FollowSteps
<1>4. ASSUME NEW i \in Instances
      PROVE  ec2'[i] # "gone" /\ (bastion'.seen[i] \in Terminal => ec2'[i] \in Ended)
  <2>1. InstanceMoves(i) /\ SeenMoves(i)
    BY <1>1, Moves, SeenMove
  <2>2. ec2'[i] # "gone" /\ (ec2[i] \in Ended => ec2'[i] \in Ended)
    BY <1>1, <1>2, <2>1 DEF InstanceMoves, Ended, Live
  <2>3. bastion'.seen[i] \in Terminal => ec2[i] \in Ended
    BY <1>2, <2>1 DEF SeenMoves, Followed, Terminal, Ended, Absent
  <2>4. QED
    BY <2>2, <2>3
<1>5. ASSUME NEW j \in Jobs, bastion'.puts[j] # << >>
      PROVE  WatchedOf(j)' = {}
  <2>1. PutsMoves(j)
    BY <1>1, PutsMove
  <2>2. CASE bastion.puts[j] # << >>
    <3>1. bastion.pc # "launch" /\ bastion.pc # "create_fleet" /\ WatchedOf(j) = {}
      BY <1>1, <1>2, <2>2 DEF BookInv, Placed, FollowPlaced, NoPuts, Followed
    <3>2. QED
      BY <1>1, <3>1, NoneNew
  <2>3. CASE /\ bastion.pc = "fleets" /\ j \in bastion.todo
             /\ UNCHANGED <<cloudVars, status_params, clientVars>>
             /\ NewStatuses(j, {}) # << >>
    <3>1. WatchedOf(j) = {}
      BY <1>1, <1>2, <2>3, NoneLive
    <3>2. QED
      BY <2>3, <3>1, ForsakenStays DEF cloudVars, WatchedOf, LiveOf, Workers
  <2>4. QED
    BY <1>1, <1>5, <2>1, <2>2, <2>3 DEF PutsMoves
<1>6. QED
  BY <1>1, <1>3, <1>4, <1>5, NextStarts DEF Followed, Names

\* The workers of a request are settled one job after the other.
LEMMA CollectedKept ==
  ASSUME FinalInv, SightInv, [Next]_vars, Calm'
  PROVE  Collected'
<1>1. BookInv /\ Calm
  BY CalmStep DEF FinalInv
<1>2. Collected /\ Followed /\ \A i \in Instances : ec2[i] # "gone"
  BY <1>1 DEF SightInv, Followed
<1>3. CancelMoves
  BY <1>1, <1>2, CancelMove
<1>4. bastion.request \subseteq Jobs /\ bastion'.request \subseteq Jobs
  BY <1>1, NextBook DEF BookInv, TypeOK, BastionState
<1>5. ASSUME bastion.pc \in Cancelling, NEW j \in Jobs
      PROVE  /\ Settled(j) => Settled(j)'
             /\ WatchedOf(j) = {} => WatchedOf(j)' = {}
  BY <1>1, <1>2, <1>5, SettledStays, NoneNew DEF Cancelling
<1>6. CASE bastion' = bastion
  BY <1>2, <1>4, <1>5, <1>6 DEF Collected, Cancelling
<1>7. CASE bastion'.pc \notin Cancelling
  BY <1>7 DEF Collected, Cancelling
<1>8. CASE bastion'.pc = "collect" /\ bastion'.todo = bastion'.request
  BY <1>8 DEF Collected
<1>9. CASE /\ bastion.pc = "collect" /\ bastion'.request = bastion.request
           /\ UNCHANGED <<ec2, owner>>
           /\ \E k \in bastion.todo :
                /\ bastion'.todo = bastion.todo \ {k}
                /\ bastion'.pc = (IF bastion'.todo = {} THEN "delete_fleets" ELSE "collect")
                /\ \A j \in Jobs \ {k} : status_params'[j] = status_params[j]
                /\ bastion.kill \cup ({status_params[k].instance_id} \ {NoInstance}) \subseteq bastion'.kill
                /\ bastion.fleets \subseteq bastion'.fleets
                /\ status_params[k].fleet_request_id => k \in bastion'.fleets
  <2>1. PICK k \in bastion.todo :
           /\ bastion'.todo = bastion.todo \ {k}
           /\ bastion'.pc = (IF bastion'.todo = {} THEN "delete_fleets" ELSE "collect")
           /\ bastion.kill \cup ({status_params[k].instance_id} \ {NoInstance}) \subseteq bastion'.kill
           /\ bastion.fleets \subseteq bastion'.fleets
           /\ status_params[k].fleet_request_id => k \in bastion'.fleets
    BY <1>9
  <2>2. k \in Jobs
    BY <1>1 DEF BookInv, TypeOK, BastionState
  <2>3. Settled(k)'
    BY <1>9, <2>1, <2>2, CollectedNow
  <2>4. ASSUME NEW j \in bastion.request, j \notin bastion'.todo
        PROVE  Settled(j)'
    <3>1. CASE j = k
      BY <2>3, <3>1
    <3>2. CASE j # k
      BY <1>2, <1>4, <1>5, <1>9, <2>1, <2>4, <3>2 DEF Collected, Cancelling
    <3>3. QED
      BY <3>1, <3>2
  <2>5. CASE bastion'.todo = {}
    BY <1>9, <2>1, <2>4, <2>5 DEF Collected
  <2>6. CASE bastion'.todo # {}
    BY <1>9, <2>1, <2>4, <2>6 DEF Collected
  <2>7. QED
    BY <2>5, <2>6
<1>10. CASE bastion.pc = "delete_fleets" /\ bastion'.pc = "terminate" /\ bastion'.request = bastion.request
  BY <1>2, <1>4, <1>5, <1>10 DEF Collected, Cancelling
<1>11. CASE /\ bastion.pc = "terminate" /\ bastion'.pc = "delete_cancel" /\ bastion'.request = bastion.request
            /\ bastion.fleets = {} /\ owner' = owner /\ \A i \in bastion.kill : ec2'[i] \notin Live
  <2>1. ASSUME NEW j \in bastion.request, NEW i \in WatchedOf(j)'
        PROVE  FALSE
    <3>1. j \in Jobs /\ Settled(j) /\ i \in WatchedOf(j)
      BY <1>1, <1>2, <1>4, <1>11, <2>1, NoneNew DEF Collected
    <3>2. i \in bastion.kill /\ ec2'[i] \in Live
      BY <1>11, <2>1, <3>1 DEF Settled, Doomed, WatchedOf, LiveOf, Workers
    <3>3. QED
      BY <1>11, <3>2
  <2>2. QED
    BY <1>11, <2>1 DEF Collected
<1>12. QED
  BY <1>3, <1>6, <1>7, <1>8, <1>9, <1>10, <1>11 DEF CancelMoves

\* Every behaviour keeps the workers in sight.
LEMMA SightCorrect == Spec => [](FinalInv /\ SightInv)
<1>1. ASSUME Init
      PROVE  SightInv
  <2>1. \A i \in Instances : InSight(i)
    BY <1>1 DEF Init, InSight, Live
  <2>2. DocsTell
    BY <1>1 DEF Init, DocsTell, Deleting, ClientIdle, NoDocument, PlainDocument, Terminal, Absent
  <2>3. Launchable
    BY <1>1, Empty DEF Init, Launchable
  <2>4. Followed
    BY <1>1, Empty DEF Init, Followed, Following, NoneSeen, NoPuts, Terminal, Absent
  <2>5. Collected
    BY <1>1, Empty DEF Init, Collected
  <2>6. QED
    BY <2>1, <2>2, <2>3, <2>4, <2>5 DEF SightInv
<1>2. ASSUME FinalInv, SightInv, [Next]_vars
      PROVE  (FinalInv /\ SightInv)'
  <2>1. FinalInv'
    BY <1>2, NextBook, UntouchedKept, OpenKept, PutsKept DEF FinalInv
  <2>2. ASSUME Calm'
        PROVE  (/\ \A i \in Instances : InSight(i)
                /\ DocsTell /\ Launchable /\ Followed /\ Collected)'
    <3>1. \A i \in Instances : InSight(i)'
      BY <1>2, <2>2, SightKept
    <3>2. DocsTell' /\ Launchable' /\ Followed' /\ Collected'
      BY <1>2, <2>1, <2>2, DocsTellKept, LaunchableKept, FollowedKept, CollectedKept
    <3>3. QED
      BY <3>1, <3>2
  <2>3. QED
    BY <2>1, <2>2 DEF SightInv
<1>3. QED
  BY <1>1, <1>2, InitFinal, PTL DEF Spec

\* The bastion never loses sight of a worker it launched: while the worker may
\* still run its command, the job's document names it, or the bastion is about to
\* write it down or to terminate it -- unless the client's cleanup_resources()
\* deleted that document before the job had ended.
THEOREM NoWorkerIsLost == Spec => []NoOrphan
<1>1. SightInv => NoOrphan
  BY DetachedAssumption DEF SightInv, Calm, InSight, Names, Named, Doomed, NoOrphan
<1>2. QED
  BY <1>1, SightCorrect, PTL

\* When the bastion is done with a cancel request, no worker of a canceled job
\* that had been launched by then is left running, whatever the clean-up that
\* follows every cancel() has deleted meanwhile -- except a worker whose document
\* that clean-up deleted before the job had ended (forsaken).
THEOREM CancellationStops == Spec => []CancelStopsWorkers
<1>1. SightInv => CancelStopsWorkers
  BY DEF SightInv, Calm, Collected, WatchedOf, LiveOf, Workers, CancelStopsWorkers
<1>2. QED
  BY <1>1, SightCorrect, PTL

-----------------------------------------------------------------------------
(* LaunchedOnce: what a plain job may yet cost.  Its workers, plus one if   *)
(* the bastion may launch it, plus one if submit_job() will make it look    *)
(* new once more, never exceed one plus the events that allow a relaunch.   *)

\* An event after which a job may be launched again happens in this step.
Relaunched == happened' \cap RelaunchEvents # {} /\ events + 1 <= events'

\* A step with such an event.
LEMMA Relaunches ==
  ASSUME BookInv, NEW K, Happen(K), K \cap RelaunchEvents # {}
  PROVE  Relaunched
<1>1. EventsOK
  BY TypeParts DEF BookInv
<1>2. QED
  BY <1>1, Happens DEF Relaunched

\* The bastion may yet launch the job: it is at it ...
Queued(j) == j \in bastion.pending \/ (bastion.pc = "launch" /\ bastion.job = j)

\* ... or is about to put PENDING for it ...
Reopened(j) ==
  \/ Has(bastion.puts[j], "PENDING")
  \/ /\ bastion.docs[j].instance_id # NoInstance
     /\ bastion.seen[bastion.docs[j].instance_id] = "PENDING"

\* ... or it is listed, and its document does not say that it was launched.
Listed(j) == j \in job_params \/ (bastion.pc = "check" /\ j \in bastion.todo)
Waiting(j) ==
  /\ Listed(j) /\ status_params[j].status \in Fresh
  /\ bastion.pc # "off" /\ ~(bastion.pc = "record" /\ bastion.job = j)

MayLaunch(j) == Queued(j) \/ Reopened(j) \/ Waiting(j)

\* The bastion is at the job, or was, while submit_job() has not put PENDING: that
\* will make the job look new once more.
MayRestart(j) ==
  /\ Submitting(j)
  /\ \/ Workers(j) # {} \/ status_params[j] # NoDocument
     \/ bastion.pc = "check" /\ j \in bastion.todo
     \/ j \in bastion.pending \/ bastion.job = j

\* How job_params changes.
LEMMA ParamsMove ==
  ASSUME BookInv, [Next]_vars
  PROVE  \/ job_params' = job_params
         \/ \E k \in Jobs : SubmitJob(k) /\ job_params' = job_params \cup {k}
         \/ DeleteJob /\ job_params' = job_params \ {client.job}
<1>1. CASE BastionStep \/ Crash \/ IdleShutdown \/ Ec2Step \/ UNCHANGED vars
  <2>1. CASE BastionStep
    BY <2>1 DEF BastionStep, BastionUnchanged, UpdateRead, DescribeInstances, DescribeFleets, PutChanged,
                CancelRead, CollectJob, DeleteFleets, TerminateInstances, DeleteCancel, ListJobs, CheckJob,
                MarkSubmitting, LaunchInstance, CreateTemplate, CreateFleet, RecordLaunch
  <2>2. CASE Ec2Step
    BY <2>2, Ec2Steps DEF paramVars
  <2>3. QED
    BY <1>1, <2>1, <2>2 DEF Crash, IdleShutdown, vars, paramVars
<1>2. CASE ClientStep
  BY <1>2 DEF ClientStep, ClientContinues, SubmitJob, GetJobStatus, CleanupResources, CancelJobs,
              SubmitStatus, DeleteJob, DeleteStatus, paramVars
<1>3. QED
  BY <1>1, <1>2, Steps

\* Where the client is after a step.
LEMMA ClientMoves ==
  ASSUME BookInv, [Next]_vars
  PROVE  /\ client'.op = "delete_status" => client' = client \/ (DeleteJob /\ client'.job = client.job)
         /\ client'.op = "submit" => client' = client \/ SubmitJob(client'.job)
<1>1. CASE BastionStep \/ Crash \/ IdleShutdown \/ Ec2Step \/ UNCHANGED vars
  BY <1>1, NotClient DEF clientVars
<1>2. client \in [op : {"idle", "submit", "delete_jobs", "delete_status"}, job : Jobs \cup {NoJob}]
  BY DEF BookInv, TypeOK
<1>3. CASE ClientStep
  <2>1. CASE \E k \in Jobs : SubmitJob(k)
    BY <2>1 DEF SubmitJob
  <2>2. CASE \E k \in Jobs : GetJobStatus(k)
    BY <2>2 DEF GetJobStatus
  <2>3. CASE \E k \in Jobs : CleanupResources(k)
    BY <2>3 DEF CleanupResources
  <2>4. CASE \E S \in SUBSET Jobs : CancelJobs(S)
    BY <2>4 DEF CancelJobs
  <2>5. CASE SubmitStatus \/ DeleteStatus
    BY <2>5 DEF SubmitStatus, DeleteStatus, DropRecord, ClientIdle
  <2>6. CASE DeleteJob
    <3>1. \/ client'.op = "delete_status" /\ client'.job = client.job
          \/ client'.op = "idle"
      BY <1>2, <2>6 DEF DeleteJob, DropRecord, ClientIdle
    <3>2. QED
      BY <2>6, <3>1
  <2>7. QED
    BY <1>3, <2>1, <2>2, <2>3, <2>4, <2>5, <2>6 DEF ClientStep, ClientContinues
<1>4. QED
  BY <1>1, <1>3, Steps

\* What is being submitted was read by nobody, or has a document; what is being
\* deleted is listed no more.
Unread(j) ==
  Submitting(j) /\ status_params[j] = NoDocument => bastion.docs[j] = NoDocument /\ bastion.puts[j] = << >>
ListInv ==
  /\ \A j \in Jobs : Unread(j)
  /\ client.op = "delete_status" => client.job \notin job_params

\* The list stays so after every step.
LEMMA ListKept ==
  ASSUME FinalInv, ListInv, [Next]_vars
  PROVE  ListInv'
<1>1. BookInv
  BY DEF FinalInv
<1>2. ASSUME NEW j \in Jobs, Submitting(j)', status_params'[j] = NoDocument
      PROVE  bastion'.docs[j] = NoDocument /\ bastion'.puts[j] = << >>
  <2>1. /\ j \notin submitted \/ Submitting(j)
        /\ ~(SubmitStatus /\ Submitting(j))
    BY <1>1, <1>2, SubmittingWas
  <2>2. ~DeleteStatus
    BY <1>2 DEF DeleteStatus, DropRecord, ClientIdle, Submitting
  <2>3. NoDocument.status = Absent /\ Absent \notin Status /\ NoDocument.instance_id = NoInstance
        /\ ~NoDocument.fleet_request_id
    BY Documents DEF NoDocument, PlainDocument
  <2>4. DocMoves(j) /\ HeldMoves(j) /\ PutsMoves(j)
    BY <1>1, DocsMove, HeldMove, PutsMove
  <2>5. status_params[j] = NoDocument
    <3>1. status_params \in [Jobs -> Document] /\ bastion.docs[j] \in Document
      BY <1>1 DEF BookInv, TypeOK, BastionState
    <3>2. \A d \in Document, s \in Status : [d EXCEPT !.status = s].status = s
      BY DEF Document
    <3>3. status_params'[j].status \notin Status
      BY <1>2, <2>3
    <3>4. /\ \A s : PlainDocument(s, NoInstance).status = s
          /\ PlainDocument("RUNNING", Primary).status = "RUNNING"
          /\ FleetDocument("RUNNING", Primary, bastion.new).status = "RUNNING"
      BY DEF PlainDocument, FleetDocument
    <3>5. {"PENDING", "CANCELED", "SUBMITTING", "FAILED", "RUNNING"} \subseteq Status
      BY DEF Status
    <3>8. /\ \A s \in Status : status_params'[j] # [bastion.docs[j] EXCEPT !.status = s]
          /\ status_params'[j] # [status_params[j] EXCEPT !.status = "CANCELED"]
      BY <3>1, <3>2, <3>3, <3>5
    <3>9. /\ \A s \in {"PENDING", "SUBMITTING"} : status_params'[j] # PlainDocument(s, NoInstance)
          /\ status_params'[j].status # "FAILED"
          /\ status_params'[j] # PlainDocument("RUNNING", Primary)
          /\ status_params'[j] # FleetDocument("RUNNING", Primary, bastion.new)
      BY <3>3, <3>4, <3>5
    <3>6. QED
      BY <1>2, <2>2, <2>4, <3>8, <3>9 DEF DocMoves
  <2>6. bastion.docs[j] = NoDocument /\ bastion.puts[j] = << >>
    <3>1. CASE Submitting(j)
      BY <2>5, <3>1 DEF ListInv, Unread
    <3>2. CASE j \notin submitted
      BY <1>1, <3>2 DEF FinalInv, UntouchedInv, Untouched, BookInv, Placed, FollowPlaced, NoPuts
    <3>3. QED
      BY <2>1, <3>1, <3>2
  <2>7. bastion'.docs[j] = NoDocument
    BY <2>3, <2>4, <2>5, <2>6 DEF HeldMoves, Status
  <2>8. bastion'.puts[j] = << >>
    <3>1. ASSUME NEW U \in SUBSET Jobs
          PROVE  NewStatuses(j, U) = << >>
      BY <1>1, <2>3, <2>6, NewOnes DEF BookInv
    <3>2. QED
      BY <2>4, <2>6, <3>1 DEF PutsMoves
  <2>9. QED
    BY <2>7, <2>8
<1>3. ASSUME client'.op = "delete_status"
      PROVE  client'.job \notin job_params'
  <2>1. client' = client \/ (DeleteJob /\ client'.job = client.job)
    BY <1>1, <1>3, ClientMoves
  <2>2. CASE DeleteJob
    BY <1>3, <2>1, <2>2 DEF DeleteJob, DropRecord, ClientIdle
  <2>3. CASE client' = client /\ ~DeleteJob
    <3>1. ~(\E k \in Jobs : SubmitJob(k))
      BY <1>3, <2>3 DEF SubmitJob
    <3>2. job_params' = job_params
      BY <1>1, <2>3, <3>1, ParamsMove
    <3>3. QED
      BY <1>3, <2>3, <3>2 DEF ListInv
  <2>4. QED
    BY <2>1, <2>2, <2>3
<1>4. QED
  BY <1>2, <1>3 DEF ListInv, Unread

\* Jobs to check come from the list; a halted bastion stays so.
LEMMA CheckMove ==
  ASSUME BookInv, [Next]_vars
  PROVE  /\ bastion'.pc = "check" => \/ bastion' = bastion
                                     \/ ListJobs /\ bastion.pc = "list" /\ bastion'.todo = job_params
                                     \/ bastion.pc = "check" /\ bastion'.todo \subseteq bastion.todo
         /\ bastion.pc = "off" => bastion' = bastion
         /\ bastion.pc = "record" => \/ bastion' = bastion
                                     \/ RecordLaunch
                                     \/ "crash" \in happened' /\ Relaunched
                                     \/ bastion'.pc = "off"
<1>1. bastion' = bastion \/ BastionStep \/ Crash \/ IdleShutdown
  BY Others
<1>2. CASE bastion' = bastion
  BY <1>2
<1>3. CASE Crash
  <2>1. bastion.pc # "off" /\ bastion'.pc = "update" /\ Happen({"crash"})
    BY <1>3, Empty DEF Crash, Labels
  <2>2. Relaunched /\ "crash" \in happened'
    BY <2>1, Relaunches DEF RelaunchEvents, Happen
  <2>3. QED
    BY <2>1, <2>2
<1>4. CASE IdleShutdown
  BY <1>4, Empty DEF IdleShutdown, Labels
<1>5. CASE BastionStep
  <2>1. bastion.pc # "off"
    BY <1>5 DEF BastionStep, UpdateRead, DescribeInstances, DescribeFleets, PutChanged, CancelRead,
                CollectJob, DeleteFleets, TerminateInstances, DeleteCancel, ListJobs, CheckJob,
                MarkSubmitting, LaunchInstance, CreateTemplate, CreateFleet, RecordLaunch
  <2>2. bastion.pc = "record" => RecordLaunch
    BY <1>5 DEF BastionStep, UpdateRead, DescribeInstances, DescribeFleets, PutChanged, CancelRead,
                CollectJob, DeleteFleets, TerminateInstances, DeleteCancel, ListJobs, CheckJob,
                MarkSubmitting, LaunchInstance, CreateTemplate, CreateFleet
  <2>3. bastion'.pc = "check" => ListJobs \/ CheckJob
    BY <1>5, Goes DEF BastionStep, Following, Cancelling
  <2>4. CASE ListJobs
    <3>1. bastion.pc = "list"
      BY <2>4 DEF ListJobs
    <3>2. bastion' = AtLabel("update") \/ bastion'.todo = job_params
      BY <2>4, ListJobsTo DEF BookInv
    <3>3. QED
      BY <2>4, <3>1, <3>2, Empty DEF Labels
  <2>5. CASE CheckJob
    <3>1. bastion.pc = "check"
      BY <2>5 DEF CheckJob
    <3>2. bastion'.pc = "check" => bastion'.todo \subseteq bastion.todo
      BY <2>5, CheckJobTo, Empty DEF BookInv, Labels
    <3>3. QED
      BY <3>1, <3>2
  <2>6. QED
    BY <2>1, <2>2, <2>3, <2>4, <2>5
<1>6. QED
  BY <1>1, <1>2, <1>3, <1>4, <1>5

\* A job that is being submitted was, or was just taken by submit_job(), untouched.
LEMMA RestartOff ==
  ASSUME FinalInv, [Next]_vars, NEW j \in Jobs, SubmitJob(j)
  PROVE  Workers(j)' = {} /\ ~MayRestart(j)'
<1>1. Untouched(j) /\ bastion' = bastion /\ owner' = owner /\ status_params' = status_params
  BY DEF SubmitJob, ClientUnchanged, FinalInv, UntouchedInv
<1>2. Workers(j)' = {}
  BY <1>1 DEF Untouched, Workers
<1>3. QED
  BY <1>1, <1>2 DEF MayRestart, Untouched

\* A job gets another worker when its launch was queued, and that is over then.
LEMMA Grows ==
  ASSUME FinalInv, [Next]_vars, ~use_spot_fleet, NEW j \in Jobs
  PROVE  \/ Workers(j)' = Workers(j)
         \/ /\ \E i \in Instances : Workers(j)' = Workers(j) \cup {i}
            /\ MayLaunch(j) /\ ~MayLaunch(j)' /\ (MayRestart(j)' => MayRestart(j))
<1>1. BookInv
  BY DEF FinalInv
<1>2. SUFFICES ASSUME ~(Workers(j)' = Workers(j))
               PROVE  /\ \E i \in Instances : Workers(j)' = Workers(j) \cup {i}
                      /\ MayLaunch(j) /\ ~MayLaunch(j)' /\ (MayRestart(j)' => MayRestart(j))
  OBVIOUS
<1>3. /\ j = bastion.job /\ bastion.pc = "launch" /\ bastion'.pc = "record"
      /\ bastion'.job = j /\ client' = client
      /\ bastion'.pending = bastion.pending
      /\ bastion'.docs = bastion.docs /\ bastion'.puts = bastion.puts
      /\ \E i \in Instances : Workers(j)' = Workers(j) \cup {i}
  BY <1>1, <1>2, WorkersMoves DEF WorkersMove, clientVars
<1>4. MayLaunch(j)
  BY <1>3 DEF MayLaunch, Queued
<1>5. /\ j \notin bastion.pending /\ bastion.docs = [k \in Jobs |-> NoDocument]
      /\ bastion.puts = [k \in Jobs |-> << >>]
  BY <1>1, <1>3 DEF BookInv, Placed, FollowPlaced, StartPlaced, NoDocs, NoPuts, Following
<1>6. NoDocument.instance_id = NoInstance /\ ~Has(<< >>, "PENDING")
  BY Sequences_ DEF NoDocument, PlainDocument
<1>7. ~MayLaunch(j)'
  <2>1. j \notin bastion'.pending /\ bastion'.pc = "record" /\ bastion'.job = j
        /\ bastion'.docs[j] = NoDocument /\ bastion'.puts[j] = << >>
    BY <1>3, <1>5
  <2>2. ~Queued(j)'
    BY <2>1 DEF Queued
  <2>3. ~Reopened(j)'
    BY <1>6, <2>1 DEF Reopened
  <2>4. ~Waiting(j)'
    BY <2>1 DEF Waiting
  <2>5. QED
    BY <2>2, <2>3, <2>4 DEF MayLaunch
<1>8. MayRestart(j)' => MayRestart(j)
  BY <1>3 DEF MayRestart, Submitting
<1>9. QED
  BY <1>3, <1>4, <1>7, <1>8

\* A job is queued only if it was listed, or queued.
LEMMA QueuedWas ==
  ASSUME FinalInv, [Next]_vars, NEW j \in Jobs, Queued(j)'
  PROVE  MayLaunch(j)
<1>1. BookInv
  BY DEF FinalInv
<1>2. CASE j \in bastion'.pending
  <2>1. \/ j \in bastion.pending
        \/ bastion.pc = "check" /\ j \in bastion.todo /\ status_params[j].status \in Fresh
    BY <1>1, <1>2, LoopMove DEF LoopMoves
  <2>2. QED
    BY <2>1 DEF MayLaunch, Queued, Waiting, Listed
<1>3. CASE bastion'.pc = "launch" /\ bastion'.job = j
  <2>1. StartMoves
    BY <1>1, <1>3, StartMove DEF Starting
  <2>2. QED
    BY <1>3, <2>1 DEF StartMoves, MayLaunch, Queued
<1>4. QED
  BY <1>2, <1>3 DEF Queued

\* PENDING is put only for a job whose instance was still booting.
LEMMA ReopenedWas ==
  ASSUME FinalInv, [Next]_vars, ~use_spot_fleet, NEW j \in Jobs, Reopened(j)'
  PROVE  MayLaunch(j) \/ Relaunched
<1>1. BookInv
  BY DEF FinalInv
<1>2. CASE Has(bastion'.puts[j], "PENDING")
  <2>1. ~bastion.docs[j].fleet_request_id
    BY <1>1 DEF BookInv, DocsSound, DocSound
  <2>2. bastion.puts[j] \in Seq(Status)
    BY <1>1 DEF BookInv, TypeOK, BastionState
  <2>3. ASSUME NEW U \in SUBSET Jobs, Has(NewStatuses(j, U), "PENDING")
        PROVE  Reopened(j)
    BY <1>1, <2>1, <2>3, NewOnes DEF BookInv, Reopened
  <2>4. Has(bastion.puts[j], "PENDING") => Reopened(j)
    BY DEF Reopened
  <2>5. ~Has(<< >>, "PENDING")
    BY Sequences_
  <2>6. Reopened(j)
    BY <1>1, <1>2, <2>2, <2>3, <2>4, <2>5, PutsMove, HeadTail DEF PutsMoves
  <2>7. QED
    BY <2>6 DEF MayLaunch
<1>3. CASE /\ bastion'.docs[j].instance_id # NoInstance
           /\ bastion'.seen[bastion'.docs[j].instance_id] = "PENDING"
  <2>1. PICK i : i = bastion'.docs[j].instance_id
    OBVIOUS
  <2>2. bastion' \in BastionState
    BY <1>1, NextBook DEF BookInv, TypeOK
  <2>3. i \in Instances
    BY <1>3, <2>1, <2>2 DEF BastionState, Document
  <2>4. CASE bastion'.seen[i] \in {Absent, bastion.seen[i]}
    <3>1. bastion.seen[i] = "PENDING" /\ i # NoInstance
      BY <1>3, <2>1, <2>4 DEF Absent
    <3>2. ~NoneSeen(bastion)
      BY <2>3, <3>1 DEF NoneSeen, Absent
    <3>3. bastion.pc = "fleets"
      BY <1>1, <3>2 DEF BookInv, Placed, FollowPlaced
    <3>4. bastion'.docs[j] # NoDocument
      BY <1>3 DEF NoDocument, PlainDocument
    <3>5. bastion'.docs[j] = bastion.docs[j]
      BY <1>1, <3>3, <3>4, HeldMove DEF HeldMoves, UpdateRead
    <3>6. QED
      BY <2>1, <3>1, <3>5 DEF MayLaunch, Reopened
  <2>5. CASE "slow_boot" \in happened' /\ events + 1 <= events'
    BY <2>5 DEF Relaunched, RelaunchEvents
  <2>6. QED
    BY <1>1, <1>3, <2>1, <2>3, <2>4, <2>5, SeenMove DEF SeenMoves
<1>4. QED
  BY <1>2, <1>3 DEF Reopened

\* A job is listed when it is submitted, and only then.
LEMMA ListedWas ==
  ASSUME BookInv, [Next]_vars, NEW j \in Jobs, Listed(j)'
  PROVE  Listed(j) \/ SubmitJob(j)
<1>1. CASE j \in job_params'
  BY <1>1, ParamsMove DEF Listed
<1>2. CASE bastion'.pc = "check" /\ j \in bastion'.todo
  BY <1>2, CheckMove DEF Listed
<1>3. QED
  BY <1>1, <1>2 DEF Listed

\* The document of a listed job looks new once more only if the job was not
\* launched, or was being submitted, or after an event.
LEMMA FreshWas ==
  ASSUME FinalInv, ListInv, [Next]_vars, NEW j \in Jobs, Listed(j), bastion.pc # "off",
         status_params[j].status \notin Fresh, status_params'[j].status \in Fresh
  PROVE  MayLaunch(j) \/ Relaunched \/ (MayRestart(j) /\ ~MayRestart(j)')
<1>1. BookInv
  BY DEF FinalInv
<1>2. CASE SubmitStatus /\ Submitting(j)
  <2>1. ~Submitting(j)'
    BY <1>2 DEF SubmitStatus, ClientIdle, Submitting
  <2>2. status_params[j] # NoDocument
    BY DEF NoDocument, PlainDocument, Fresh
  <2>3. QED
    BY <1>2, <2>1, <2>2 DEF MayRestart
<1>3. CASE DeleteStatus /\ client.job = j
  <2>1. bastion.pc = "check" /\ j \in bastion.todo
    BY <1>3 DEF Listed, ListInv, DeleteStatus
  <2>2. Happen({"stale_list"})
    BY <1>3, <2>1 DEF DeleteStatus, IfSo
  <2>3. QED
    BY <1>1, <2>2, Relaunches DEF RelaunchEvents
<1>4. CASE \E s \in Status : /\ Has(bastion.puts[j], s)
                             /\ status_params'[j] = [bastion.docs[j] EXCEPT !.status = s]
  <2>1. PICK s \in Status : /\ Has(bastion.puts[j], s)
                            /\ status_params'[j] = [bastion.docs[j] EXCEPT !.status = s]
    BY <1>4
  <2>2. bastion.docs[j] \in Document
    BY <1>1 DEF BookInv, TypeOK, BastionState
  <2>3. status_params'[j].status = s
    BY <2>1, <2>2 DEF Document
  <2>4. s = "PENDING"
    BY <2>1, <2>3 DEF FinalInv, PutsInv, Fresh, Terminal, Absent
  <2>5. QED
    BY <2>1, <2>4 DEF MayLaunch, Reopened
<1>5. CASE status_params'[j] = [status_params[j] EXCEPT !.status = "CANCELED"]
  <2>1. status_params[j] \in Document
    BY <1>1 DEF BookInv, TypeOK
  <2>2. status_params'[j].status = "CANCELED"
    BY <1>5, <2>1 DEF Document
  <2>3. QED
    BY <2>2 DEF Fresh, Absent
<1>6. CASE j \in bastion.pending
  BY <1>6 DEF MayLaunch, Queued
<1>7. CASE status_params'[j].status \in {"FAILED", "RUNNING"}
  BY <1>7 DEF Fresh, Absent
<1>8. /\ FleetDocument("RUNNING", Primary, bastion.new).status = "RUNNING"
      /\ PlainDocument("RUNNING", Primary).status = "RUNNING"
  BY DEF FleetDocument, PlainDocument
<1>9. QED
  BY <1>1, <1>2, <1>3, <1>4, <1>5, <1>6, <1>7, <1>8, DocsMove DEF DocMoves

\* The bastion leaves the launch of a job with a document that says so, or there
\* was an event.
LEMMA RecordedNow ==
  ASSUME FinalInv, [Next]_vars, bastion.pc = "record", status_params'[bastion.job].status \in Fresh
  PROVE  bastion' = bastion \/ Relaunched \/ bastion'.pc = "off"
<1>1. BookInv
  BY DEF FinalInv
<1>2. CASE RecordLaunch
  <2>1. bastion.job \in Jobs
    BY <1>1, LaunchedJob DEF Starting
  <2>2. PICK d : d = IF use_spot_fleet THEN FleetDocument("RUNNING", Primary, bastion.new)
                                       ELSE PlainDocument("RUNNING", Primary)
    OBVIOUS
  <2>7. PutStatus(bastion.job, d, {})
    BY <1>1, <1>2, <2>2, RecordLaunchTo DEF BookInv, Placed
  <2>3. d.status = "RUNNING"
    BY <2>2 DEF FleetDocument, PlainDocument
  <2>4. status_params' # [status_params EXCEPT ![bastion.job] = d]
    BY <1>1, <2>1, <2>3 DEF BookInv, TypeOK, Fresh, Absent
  <2>5. Happen({"put"})
    BY <2>4, <2>7 DEF PutStatus
  <2>6. QED
    BY <1>1, <2>5, Relaunches DEF RelaunchEvents
<1>3. QED
  BY <1>1, <1>2, CheckMove

\* A job waits for its launch only if it may have been launched before, or was
\* just submitted, or is being submitted, or after an event.
LEMMA WaitingWas ==
  ASSUME FinalInv, ListInv, [Next]_vars, NEW j \in Jobs, Waiting(j)'
  PROVE  \/ MayLaunch(j) \/ Relaunched
         \/ MayRestart(j) /\ ~MayRestart(j)'
         \/ Workers(j)' = {} /\ ~MayRestart(j)'
<1>1. BookInv
  BY DEF FinalInv
<1>2. Listed(j) \/ SubmitJob(j)
  BY <1>1, ListedWas DEF Waiting
<1>3. CASE SubmitJob(j)
  BY <1>3, RestartOff
<1>4. CASE Listed(j)
  <2>1. /\ bastion'.pc # "off" /\ ~(bastion'.pc = "record" /\ bastion'.job = j)
        /\ status_params'[j].status \in Fresh
    BY DEF Waiting
  <2>2. bastion.pc # "off"
    BY <1>1, <2>1, CheckMove
  <2>3. CASE bastion.pc = "record" /\ bastion.job = j
    BY <2>1, <2>3, RecordedNow
  <2>4. CASE ~(bastion.pc = "record" /\ bastion.job = j)
    <3>1. CASE status_params[j].status \in Fresh
      BY <1>4, <2>2, <2>4, <3>1 DEF MayLaunch, Waiting
    <3>2. CASE status_params[j].status \notin Fresh
      BY <1>4, <2>1, <2>2, <3>2, FreshWas
    <3>3. QED
      BY <3>1, <3>2
  <2>5. QED
    BY <2>3, <2>4
<1>5. QED
  BY <1>2, <1>3, <1>4

\* Taken together.
LEMMA LaunchOn ==
  ASSUME FinalInv, ListInv, [Next]_vars, ~use_spot_fleet, NEW j \in Jobs, MayLaunch(j)'
  PROVE  \/ MayLaunch(j) \/ Relaunched
         \/ MayRestart(j) /\ ~MayRestart(j)'
         \/ Workers(j)' = {} /\ ~MayRestart(j)'
<1>1. Queued(j)' \/ Reopened(j)' \/ Waiting(j)'
  BY DEF MayLaunch
<1>2. QED
  BY <1>1, QueuedWas, ReopenedWas, WaitingWas

\* The bastion gets at a job that is being submitted by listing it too early.
LEMMA RestartOn ==
  ASSUME FinalInv, ListInv, [Next]_vars, ~use_spot_fleet, NEW j \in Jobs, MayRestart(j)'
  PROVE  MayRestart(j) \/ (Relaunched /\ MayLaunch(j))
<1>1. BookInv
  BY DEF FinalInv
<1>2. SUFFICES ASSUME ~MayRestart(j)
               PROVE  Relaunched /\ MayLaunch(j)
  OBVIOUS
<1>3. Submitting(j)' /\ client'.op = "submit" /\ client'.job = j
  BY DEF MayRestart, Submitting
<1>4. client' = client
  <2>1. ~SubmitJob(j)
    BY RestartOff
  <2>2. QED
    BY <1>1, <1>3, <2>1, ClientMoves
<1>5. Submitting(j) /\ ~SubmitStatus /\ ~DeleteStatus
  BY <1>3, <1>4 DEF Submitting, SubmitStatus, DeleteStatus, ClientIdle
<1>6. /\ Workers(j) = {} /\ status_params[j] = NoDocument
      /\ ~(bastion.pc = "check" /\ j \in bastion.todo) /\ j \notin bastion.pending /\ bastion.job # j
  BY <1>2, <1>5 DEF MayRestart
<1>7. bastion.puts[j] = << >> /\ j \in job_params /\ j \notin bastion.request
  BY <1>1, <1>5, <1>6 DEF ListInv, Unread, BookInv, ClientSound
<1>8. Workers(j)' = {}
  BY <1>1, <1>6, WorkersMoves DEF WorkersMove
<1>9. status_params'[j] = NoDocument
  BY <1>1, <1>5, <1>6, <1>7, DocsMove DEF DocMoves
<1>10. j \notin bastion'.pending /\ bastion'.job # j
  BY <1>1, <1>6, LoopMove DEF LoopMoves
<1>11. bastion'.pc = "check" /\ j \in bastion'.todo
  BY <1>8, <1>9, <1>10 DEF MayRestart
<1>12. ListJobs /\ bastion.pc = "list"
  BY <1>1, <1>6, <1>11, CheckMove
<1>13. Happen({"slow_submit"})
  BY <1>5, <1>6, <1>7, <1>12 DEF ListJobs, IfSo, Submitting
<1>14. Relaunched
  BY <1>1, <1>13, Relaunches DEF RelaunchEvents
<1>15. MayLaunch(j)
  BY <1>6, <1>7, <1>12 DEF MayLaunch, Waiting, Listed, Fresh, NoDocument, PlainDocument
<1>16. QED
  BY <1>14, <1>15

\* How many launches a plain job may have had, and may yet have.
One(b) == IF b THEN 1 ELSE 0
Spent(j) == Cardinality(Workers(j)) + One(MayLaunch(j)) + One(MayRestart(j))
Budget == IF happened \cap RelaunchEvents = {} THEN 1 ELSE 1 + events

OnceInv == IF use_spot_fleet THEN \A j \in Jobs : Cardinality(Workers(j)) <= NodesPerBlock
                             ELSE \A j \in Jobs : Spent(j) <= Budget

\* The number of workers of a job.
LEMMA WorkersCount ==
  ASSUME NEW j \in Jobs
  PROVE  /\ Cardinality(Workers(j)) \in Nat /\ Cardinality(Workers(j)') \in Nat
         /\ \A i \in Instances : Cardinality(Workers(j) \cup {i}) <= Cardinality(Workers(j)) + 1
         /\ Cardinality({}) = 0
<1>1. IsFiniteSet(Workers(j)) /\ IsFiniteSet(Workers(j)')
  BY FS_Subset, DetachedAssumption DEF Workers
<1>2. Cardinality(Workers(j)) \in Nat /\ Cardinality(Workers(j)') \in Nat
  BY <1>1, FS_CardinalityType
<1>3. ASSUME NEW i \in Instances
      PROVE  Cardinality(Workers(j) \cup {i}) <= Cardinality(Workers(j)) + 1
  <2>1. PICK S : S = Workers(j)
    OBVIOUS
  <2>2. Cardinality(S \cup {i}) = IF i \in S THEN Cardinality(S) ELSE Cardinality(S) + 1
    BY <1>1, <2>1, FS_AddElement
  <2>3. QED
    BY <1>2, <2>1, <2>2
<1>4. Cardinality({}) = 0
  BY FS_EmptySet
<1>5. QED
  BY <1>2, <1>3, <1>4

\* The budget grows with every event after which a job may be launched again.
LEMMA BudgetGrows ==
  ASSUME BookInv, [Next]_vars
  PROVE  /\ Budget \in Nat /\ Budget' \in Nat /\ 1 <= Budget'
         /\ Budget <= Budget'
         /\ Relaunched => Budget + 1 <= Budget'
<1>1. events \in Nat /\ events' \in Nat /\ events <= events' /\ happened \subseteq happened'
  BY Lasts, NextBook DEF BookInv, TypeOK
<1>2. Budget' = IF happened' \cap RelaunchEvents = {} THEN 1 ELSE 1 + events'
  BY DEF Budget, RelaunchEvents
<1>3. happened' \cap RelaunchEvents = {} => happened \cap RelaunchEvents = {}
  BY <1>1
<1>4. PICK B, C : B = Budget /\ C = Budget'
  OBVIOUS
<1>5. /\ \/ happened \cap RelaunchEvents = {} /\ B = 1
         \/ happened \cap RelaunchEvents # {} /\ B = 1 + events
      /\ \/ happened' \cap RelaunchEvents = {} /\ C = 1
         \/ happened' \cap RelaunchEvents # {} /\ C = 1 + events'
  BY <1>2, <1>4 DEF Budget
<1>6. B \in Nat /\ C \in Nat /\ 1 <= C /\ B <= C
  BY <1>1, <1>3, <1>5
<1>7. Relaunched => B + 1 <= C
  BY <1>1, <1>5 DEF Relaunched
<1>8. QED
  BY <1>4, <1>6, <1>7

\* The launches of a plain job stay within the budget.
LEMMA SpentKept ==
  ASSUME FinalInv, ListInv, [Next]_vars, ~use_spot_fleet, NEW j \in Jobs, Spent(j) <= Budget
  PROVE  Spent(j)' <= Budget'
<1>1. BookInv
  BY DEF FinalInv
<1>2. PICK c, d, m, n, r, s :
        /\ c = Cardinality(Workers(j)) /\ d = Cardinality(Workers(j)')
        /\ m = One(MayLaunch(j)) /\ n = One(MayLaunch(j)') /\ r = One(MayRestart(j)) /\ s = One(MayRestart(j)')
  OBVIOUS
<1>3. c \in Nat /\ d \in Nat /\ {m, n, r, s} \subseteq {0, 1}
  BY <1>2, WorkersCount DEF One
<1>4. Spent(j) = c + m + r /\ Spent(j)' = d + n + s
  BY <1>2 DEF Spent, One
<1>5. Budget \in Nat /\ Budget' \in Nat /\ 1 <= Budget' /\ Budget <= Budget'
      /\ (Relaunched => Budget + 1 <= Budget')
  BY <1>1, BudgetGrows
<1>6. (MayLaunch(j) <=> m = 1) /\ (MayLaunch(j)' <=> n = 1) /\ (MayRestart(j) <=> r = 1) /\ (MayRestart(j)' <=> s = 1)
  BY <1>2 DEF One
<1>7. CASE Workers(j)' = Workers(j)
  <2>1. c = d
    BY <1>2, <1>7
  <2>2. s = 1 => r = 1 \/ (Relaunched /\ m = 1)
    BY <1>6, RestartOn
  <2>3. n = 1 => \/ m = 1 \/ Relaunched
                 \/ r = 1 /\ s # 1
                 \/ d = 0 /\ s # 1
    BY <1>2, <1>6, LaunchOn, WorkersCount
  <2>4. QED
    BY <1>3, <1>4, <1>5, <2>1, <2>2, <2>3
<1>8. CASE /\ \E i \in Instances : Workers(j)' = Workers(j) \cup {i}
           /\ MayLaunch(j) /\ ~MayLaunch(j)' /\ (MayRestart(j)' => MayRestart(j))
  <2>1. d <= c + 1
    BY <1>2, <1>8, WorkersCount
  <2>2. m = 1 /\ n = 0 /\ (s = 1 => r = 1)
    BY <1>3, <1>6, <1>8
  <2>3. QED
    BY <1>3, <1>4, <1>5, <2>1, <2>2
<1>9. QED
  BY <1>7, <1>8, Grows

\* So do a fleet's.
LEMMA OnceKept ==
  ASSUME FinalInv, ListInv, OnceInv, [Next]_vars
  PROVE  OnceInv'
<1>1. BookInv /\ use_spot_fleet' = use_spot_fleet
  BY Config DEF FinalInv
<1>2. ASSUME use_spot_fleet, NEW j \in Jobs
      PROVE  Cardinality(Workers(j)') <= NodesPerBlock
  <2>1. CASE Workers(j)' = Workers(j)
    BY <1>2, <2>1 DEF OnceInv
  <2>2. CASE fleet[j] = "none"
    <3>1. Workers(j) = {}
      BY <1>1, <1>2, <2>2 DEF BookInv, CloudSound
    <3>2. QED
      BY <1>1, <1>2, <2>1, <3>1, WorkersMoves DEF WorkersMove
  <2>3. QED
    BY <1>1, <1>2, <2>1, <2>2, WorkersMoves DEF WorkersMove
<1>3. ASSUME ~use_spot_fleet, NEW j \in Jobs
      PROVE  Spent(j)' <= Budget'
  BY <1>3, SpentKept DEF OnceInv
<1>4. QED
  BY <1>1, <1>2, <1>3 DEF OnceInv

\* Nothing is spent at first.
LEMMA InitOnce ==
  ASSUME Init
  PROVE  ListInv /\ OnceInv
<1>1. ListInv
  BY DEF Init, ListInv, Unread, Submitting, ClientIdle
<1>2. \A j \in Jobs : Workers(j) = {}
  BY DetachedAssumption DEF Init, Workers
<1>3. ASSUME NEW j \in Jobs
      PROVE  ~MayLaunch(j) /\ ~MayRestart(j)
  <2>1. NoDocument.instance_id = NoInstance /\ ~Has(<< >>, "PENDING")
    BY Sequences_ DEF NoDocument, PlainDocument
  <2>2. bastion.pending = {} /\ bastion.pc = "update" /\ bastion.puts[j] = << >> /\ bastion.docs[j] = NoDocument
    BY Empty DEF Init, Labels, NoPuts, NoDocs
  <2>3. QED
    BY <2>1, <2>2 DEF Init, MayLaunch, MayRestart, Queued, Reopened, Waiting, Listed, Submitting, ClientIdle
<1>4. Budget = 1
  BY DEF Init, Budget
<1>5. \A j \in Jobs : Spent(j) = 0 /\ Cardinality(Workers(j)) = 0
  BY <1>2, <1>3, WorkersCount DEF Spent, One
<1>6. QED
  BY <1>1, <1>4, <1>5, DetachedAssumption DEF OnceInv

\* In every behaviour.
LEMMA OnceCorrect == Spec => [](FinalInv /\ ListInv /\ OnceInv)
<1>1. FinalInv /\ ListInv /\ OnceInv /\ [Next]_vars => (ListInv /\ OnceInv)'
  BY ListKept, OnceKept
<1>2. Init => ListInv /\ OnceInv
  BY InitOnce
<1>3. QED
  BY <1>1, <1>2, FinalCorrect, PTL DEF Spec

\* A job is launched once (get_pending_jobs(), launch_instance(),
\* launch_spot_fleet()): it has the workers of one fleet whatever happens, or one
\* worker and at most one more for each event that hides from the documents that
\* it was launched.
THEOREM LaunchesOnce == Spec => []LaunchedOnce
<1>1. ASSUME OnceInv, FinalInv
      PROVE  LaunchedOnce
  <2>1. events \in Nat
    BY <1>1 DEF FinalInv, BookInv, TypeOK
  <2>2. ASSUME ~use_spot_fleet, NEW j \in Jobs
        PROVE  Cardinality(Workers(j)) <= Budget
    <3>1. Spent(j) <= Budget
      BY <1>1, <2>2 DEF OnceInv
    <3>2. Cardinality(Workers(j)) \in Nat /\ One(MayLaunch(j)) \in Nat /\ One(MayRestart(j)) \in Nat
      BY WorkersCount DEF One
    <3>3. Budget \in Nat
      BY <2>1 DEF Budget
    <3>4. QED
      BY <3>1, <3>2, <3>3 DEF Spent
  <2>3. QED
    BY <1>1, <2>2 DEF LaunchedOnce, OnceInv, Budget
<1>2. QED
  BY <1>1, OnceCorrect, PTL
=============================================================================
