-------------------------- MODULE BastionLifecycle --------------------------
(***************************************************************************)
(* The bastion host of detached mode over several sessions of its provider *)
(* (modes/detached.py: initialize() and what it creates, cleanup_infra-    *)
(* structure(), save_state() and load_state(); utils/aws.py: the instance  *)
(* profile): an EC2 instance or a CloudFormation stack, the instance       *)
(* profile of the former, and the S3 bucket with the staged init script.   *)
(*                                                                         *)
(* The caller passes provider_id and workflow_id, so the bucket, the       *)
(* profile and the stack have the same names in every session.  A session  *)
(* ends by shutdown() or by a crash, and another may follow.  One action   *)
(* makes at most one AWS call.                                             *)
(***************************************************************************)
EXTENDS Naturals, FiniteSets

CONSTANTS
  Hosts,       \* identifiers of bastion instances or stacks, numbers
  NoHost,      \* "no bastion"
  NoDocument,  \* nothing is stored under STATE_KEY_MODE
  Events,      \* the kinds of event the environment may produce
  MaxEvents,   \* how many of them one behaviour contains
  MaxLeft      \* how many standing bastions a new session may find

EventKinds ==
  {"refused",    \* a call that creates or stages something raises
   "lost",       \* such a call raises, but takes effect
   "slow",       \* a waiter gives up before the bastion runs
   "delete",     \* a call that deletes something is refused
   "verify",     \* a call that looks at the bastion raises
   "idle",       \* the bastion shuts itself down
   "crash"}      \* the process dies

\* What the order of the program's own steps brings about is noted as well.
ScheduleKinds ==
  {"unsaved",    \* the process dies while it knows more than it saved
   "torn",       \* the process dies in the middle of a cleanup
   "forgotten"}  \* shutdown() deletes the document that names a live bastion

\* What a DetachedMode keeps of its resources, and its document.
Attributes == [initialized : BOOLEAN, bastion : Hosts \cup {NoHost},
               script_bucket : BOOLEAN, script_key : BOOLEAN, owns_bucket : BOOLEAN,
               profile_arn : BOOLEAN, owns_profile : BOOLEAN]

ASSUME BastionAssumption ==
  /\ Hosts \subseteq Nat /\ NoHost \notin Hosts /\ NoDocument \notin Attributes
  /\ Events \subseteq EventKinds
  /\ MaxEvents \in Nat /\ MaxLeft \in Nat

VARIABLES
  direct,         \* bastion_host_type is "direct"
  preserve,       \* preserve_bastion
  profile_given,  \* the caller supplied bastion_instance_profile_arn
  mode,           \* the attributes of DetachedMode
  mode_store,     \* the document under STATE_KEY_MODE
  pc,             \* where the process is
  launched,       \* the bastion under creation
  keep,           \* cleanup_infrastructure() leaves the bastion alone
  closing,        \* shutdown() called it
  host,           \* the bastions
  profile,        \* whether the role and the instance profile exist
  bucket,         \* whether the script bucket exists
  script,         \* whether it holds the init script
  constructing,   \* the provider's constructor has not returned
  happened,       \* the events that occurred
  events          \* how many

config == <<direct, preserve, profile_given>>
process == <<pc, launched, keep, closing, constructing>>
aws == <<host, profile, bucket, script>>
vars == <<config, mode, mode_store, process, aws, happened, events>>

-----------------------------------------------------------------------------
Labels == {"down", "idle", "profile", "bucket", "stage", "launch", "wait", "record",
           "undo", "terminate", "unstage", "unprofile", "close", "delete_state"}

\* A stack outlives the instance that shut itself down.
HostStates == {"none", "starting", "running", "empty", "gone"}
Live == {"starting", "running"}
LiveHosts == {h \in Hosts : host[h] \in Live}
Stacks == {h \in Hosts : ~direct /\ host[h] \in Live \cup {"empty"}}

TypeOK ==
  /\ direct \in BOOLEAN /\ preserve \in BOOLEAN /\ profile_given \in BOOLEAN
  /\ mode \in Attributes
  /\ mode_store \in Attributes \cup {NoDocument}
  /\ pc \in Labels
  /\ launched \in Hosts \cup {NoHost}
  /\ keep \in BOOLEAN /\ closing \in BOOLEAN
  /\ host \in [Hosts -> HostStates]
  /\ profile \in BOOLEAN /\ bucket \in BOOLEAN /\ script \in BOOLEAN
  /\ constructing \in BOOLEAN /\ events \in Nat
  /\ happened \in SUBSET (Events \cup ScheduleKinds)

\* The attributes that __init__() sets.
Constructed ==
  [initialized |-> FALSE, bastion |-> NoHost, script_bucket |-> FALSE, script_key |-> FALSE,
   owns_bucket |-> FALSE, profile_arn |-> profile_given, owns_profile |-> FALSE]

\* A bastion in a stack gets its instance profile from the stack.
Init ==
  /\ direct \in BOOLEAN /\ preserve \in BOOLEAN
  /\ profile_given \in {FALSE, direct}
  /\ mode = Constructed
  /\ mode_store = NoDocument
  /\ pc = "down" /\ launched = NoHost /\ keep = FALSE /\ closing = FALSE
  /\ host = [h \in Hosts |-> "none"]
  /\ profile = profile_given
  /\ bucket = FALSE /\ script = FALSE
  /\ constructing = FALSE
  /\ happened = {} /\ events = 0

\* The kinds in K happen in this step; an ordinary step is Happen({}).  Those of
\* the environment are bounded.
Happen(K) ==
  LET external == K \ ScheduleKinds IN
  /\ external \subseteq Events
  /\ events + Cardinality(external) <= MaxEvents
  /\ events' = events + Cardinality(external)
  /\ happened' = happened \cup K

IfSo(condition, event) == IF condition THEN {event} ELSE {}

Goto(l) == pc' = l /\ UNCHANGED <<launched, keep, closing, constructing>>

\* save_state()
Save == mode_store' = mode'

-----------------------------------------------------------------------------
(* initialize(), called by the provider's constructor and, as long as the   *)
(* mode is not initialized, by each submit().                              *)

Standing == {h \in Hosts : host[h] \in Live \cup {"empty"}}

Open ==
  /\ pc = "down" /\ Cardinality(Standing) <= MaxLeft
  /\ mode' = Constructed
  /\ pc' = "idle" /\ launched' = NoHost /\ keep' = FALSE /\ closing' = FALSE
  /\ constructing' = TRUE
  /\ Happen({})
  /\ UNCHANGED <<config, mode_store, aws>>

Loaded_NotOwner ==
  IF mode_store = NoDocument THEN mode ELSE [mode_store EXCEPT !.owns_bucket = FALSE]

\* load_state()
Loaded == IF mode_store = NoDocument THEN mode ELSE mode_store

Verified_Always(m) == [m EXCEPT !.bastion = NoHost]

\* _verify_resources(): a bastion that is gone is not known any longer; of a
\* bastion in a stack, only the state of the stack is looked at.
Verified(m) ==
  IF m.bastion # NoHost /\ host[m.bastion] = "gone" THEN [m EXCEPT !.bastion = NoHost] ELSE m

\* The bastion of an earlier session is resumed; ensure_initialized() then notes
\* that the mode is initialized, the constructor does not.
Resume ==
  LET m == Verified(Loaded) IN
  /\ mode_store # NoDocument /\ m.bastion # NoHost
  /\ mode' = [m EXCEPT !.initialized = @ \/ ~constructing]
  /\ constructing' = FALSE
  /\ Happen({})
  /\ UNCHANGED <<pc, launched, keep, closing>>

\* Otherwise one is created.
Begin ==
  /\ Verified(Loaded).bastion = NoHost
  /\ mode' = Verified(Loaded)
  /\ Goto(IF direct THEN "profile" ELSE "bucket") /\ Happen({})

\* The constructor raises, and there is no provider.
Unverified ==
  /\ Loaded.bastion # NoHost
  /\ mode' = Loaded
  /\ pc' = (IF constructing THEN "down" ELSE "idle")
  /\ Happen({"verify"})
  /\ UNCHANGED <<launched, keep, closing, constructing>>

Initialize ==
  /\ pc = "idle" /\ (constructing \/ ~mode.initialized)
  /\ Resume \/ Begin \/ Unverified
  /\ UNCHANGED <<config, mode_store, aws>>

\* An exception in one of the steps below, or in none of them.
Fails(K) == Goto("undo") /\ Happen(K) /\ UNCHANGED <<mode, mode_store>>

\* create_bastion_instance_profile() adopts what has the names, and leaves what it
\* made when a later one of its calls raises.
CreateInstanceProfile(trouble) ==
  /\ trouble \in {"none", "refused", "lost"}
  /\ profile' = IF trouble = "refused" THEN profile ELSE TRUE

\* _resolve_bastion_instance_profile(), which saves at once.
ResolveProfile ==
  /\ pc = "profile"
  /\ \/ /\ mode.profile_arn
        /\ Goto("bucket") /\ Happen({})
        /\ UNCHANGED <<mode, mode_store, profile>>
     \/ /\ ~mode.profile_arn
        /\ CreateInstanceProfile("none")
        /\ mode' = [mode EXCEPT !.profile_arn = TRUE, !.owns_profile = TRUE]
        /\ Save
        /\ Goto("bucket") /\ Happen({})
     \/ /\ ~mode.profile_arn
        /\ \E trouble \in {"refused", "lost"} :
             CreateInstanceProfile(trouble) /\ Fails({trouble})
  /\ UNCHANGED <<config, host, bucket, script>>

\* _ensure_script_bucket(): a bucket that exists already is used, and not owned.
EnsureBucket ==
  /\ pc = "bucket"
  /\ \/ /\ mode.script_bucket
        /\ Goto("stage") /\ Happen({})
        /\ UNCHANGED <<mode, mode_store, bucket>>
     \/ /\ ~mode.script_bucket
        /\ bucket' = TRUE
        /\ mode' = [mode EXCEPT !.script_bucket = TRUE, !.owns_bucket = @ \/ ~bucket]
        /\ Goto("stage") /\ Happen({})
        /\ UNCHANGED mode_store
     \/ /\ ~mode.script_bucket
        /\ \/ bucket' = bucket /\ Fails({"refused"})
           \/ bucket' = TRUE /\ Fails({"lost"})
  /\ UNCHANGED <<config, host, profile, script>>

\* _stage_bastion_init_script(): impossible when the bucket is gone.
Stage ==
  /\ pc = "stage"
  /\ \/ /\ bucket
        /\ script' = TRUE
        /\ mode' = [mode EXCEPT !.script_key = TRUE]
        /\ Goto("launch") /\ Happen({})
        /\ UNCHANGED mode_store
     \/ script' = script /\ Fails(IfSo(bucket, "refused"))
     \/ bucket /\ script' = TRUE /\ Fails({"lost"})
  /\ UNCHANGED <<config, host, profile, bucket>>

\* Identifiers that nothing names any longer stand for new ones.
Unused == {h \in Hosts : /\ host[h] \in {"none", "gone"}
                         /\ h # mode.bastion
                         /\ mode_store = NoDocument \/ h # mode_store.bastion}
IsNext(h) == h \in Unused /\ \A g \in Unused : h <= g

\* A call that starts a bastion: the process waits for it, or got no answer.
StartIf(possible) ==
  \/ /\ possible
     /\ \E h \in Hosts :
          /\ IsNext(h)
          /\ host' = [host EXCEPT ![h] = "starting"]
          /\ \/ /\ pc' = "wait" /\ launched' = h /\ Happen({})
                /\ UNCHANGED <<mode, mode_store, keep, closing, constructing>>
             \/ Fails({"lost"})
  \/ host' = host /\ Fails(IfSo(possible, "refused"))

\* EC2 refuses a profile that does not exist.
RunInstances == direct /\ StartIf(profile)

\* CloudFormation refuses a name in use, that of a bastion nobody remembers included.
CreateStack == ~direct /\ StartIf(Stacks = {})

Launch ==
  /\ pc = "launch"
  /\ RunInstances \/ CreateStack
  /\ UNCHANGED <<config, profile, bucket, script>>

\* The waiter, and the save that follows it, of a document without bastion_id.
WaitRunning ==
  /\ pc = "wait"
  /\ \/ /\ host[launched] = "running"
        /\ mode' = mode
        /\ Save
        /\ Goto("record") /\ Happen({})
     \/ Fails(IfSo(host[launched] \in Live, "slow"))
  /\ UNCHANGED <<config, aws>>

\* The document is written before initialize() sets the flag, with the flag that was
\* loaded.  (A job's save, which writes the flag again, is not in this module.)
Record ==
  /\ pc = "record"
  /\ mode' = [mode EXCEPT !.bastion = launched, !.initialized = TRUE]
  /\ mode_store' = [mode' EXCEPT !.initialized = mode.initialized]
  /\ pc' = "idle" /\ launched' = NoHost /\ constructing' = FALSE
  /\ Happen({})
  /\ UNCHANGED <<config, keep, closing, aws>>

\* The creation of a stack that failed ends with its deletion, by name.
\* initialize() then calls cleanup_infrastructure().
Undo ==
  /\ pc = "undo"
  /\ \/ host' = [h \in Hosts |-> IF h \in Stacks THEN "gone" ELSE host[h]] /\ Happen({})
     \/ Stacks # {} /\ host' = host /\ Happen({"delete"})
  /\ pc' = "terminate" /\ launched' = NoHost /\ keep' = preserve /\ closing' = FALSE
  /\ UNCHANGED <<config, mode, mode_store, constructing, profile, bucket, script>>

-----------------------------------------------------------------------------
(* cleanup_infrastructure(), called by the above, by shutdown() and -- with *)
(* preserve_bastion set aside -- by cleanup_all().                          *)

CleanupInfrastructure(k, c) ==
  /\ pc = "idle" /\ ~constructing
  /\ pc' = "terminate" /\ keep' = k /\ closing' = c
  /\ Happen({})
  /\ UNCHANGED <<config, mode, mode_store, launched, constructing, aws>>

Shutdown == CleanupInfrastructure(preserve, TRUE)
CleanupAll == CleanupInfrastructure(FALSE, FALSE)

\* Whether or not the bastion could be terminated, the mode does not know it
\* afterwards.
Terminate ==
  /\ pc = "terminate"
  /\ IF keep \/ mode.bastion = NoHost
       THEN /\ Happen({})
            /\ UNCHANGED <<mode, host>>
       ELSE /\ mode' = [mode EXCEPT !.bastion = NoHost]
            /\ \/ host' = [host EXCEPT ![mode.bastion] = "gone"] /\ Happen({})
               \/ host' = host /\ Happen({"delete"})
  /\ Goto("unstage")
  /\ UNCHANGED <<config, mode_store, profile, bucket, script>>

\* Of the two, the bucket is forgotten only with an attempt to delete it.
Unstaged_KeepsName == [mode EXCEPT !.script_key = FALSE, !.owns_bucket = FALSE]
Unstaged ==
  IF mode.owns_bucket
    THEN [mode EXCEPT !.script_key = FALSE, !.script_bucket = FALSE, !.owns_bucket = FALSE]
    ELSE [mode EXCEPT !.script_key = FALSE]

\* _delete_staged_bastion_script(): the script, then the bucket of the mode's own
\* with all it holds.
Unstage ==
  /\ pc = "unstage"
  /\ IF keep \/ ~mode.script_bucket
       THEN /\ Happen({})
            /\ UNCHANGED <<mode, bucket, script>>
       ELSE /\ mode' = Unstaged
            /\ \/ /\ script' = (script /\ ~mode.script_key /\ ~mode.owns_bucket)
                  /\ bucket' = (bucket /\ ~mode.owns_bucket)
                  /\ Happen({})
               \/ /\ script' = (script /\ ~mode.script_key)
                  /\ mode.owns_bucket /\ bucket' = bucket
                  /\ Happen({"delete"})
               \/ /\ mode.script_key /\ script' = (script /\ ~mode.owns_bucket)
                  /\ bucket' = (bucket /\ ~mode.owns_bucket)
                  /\ Happen({"delete"})
  /\ Goto("unprofile")
  /\ UNCHANGED <<config, mode_store, host, profile>>

\* _delete_bastion_instance_profile(): delete_instance_profile_pair() reports a
\* failure by its result, which is not looked at.
Unprofile ==
  /\ pc = "unprofile"
  /\ IF keep \/ ~mode.owns_profile
       THEN /\ Happen({})
            /\ UNCHANGED <<mode, profile>>
       ELSE /\ mode' = [mode EXCEPT !.owns_profile = FALSE, !.profile_arn = FALSE]
            /\ \/ profile' = FALSE /\ Happen({})
               \/ profile' = profile /\ Happen({"delete"})
  /\ Goto("close")
  /\ UNCHANGED <<config, mode_store, host, bucket, script>>

Close ==
  /\ pc = "close"
  /\ mode' = [mode EXCEPT !.initialized = @ /\ keep]
  /\ Save
  /\ pc' = CASE closing      -> "delete_state"
             [] constructing -> "down"
             [] OTHER        -> "idle"
  /\ keep' = FALSE /\ closing' = FALSE
  /\ Happen({})
  /\ UNCHANGED <<config, launched, constructing, aws>>

\* The provider's _delete_state().
DeleteState ==
  /\ pc = "delete_state"
  /\ mode_store' = NoDocument
  /\ Goto("down")
  /\ Happen(IfSo(LiveHosts # {}, "forgotten"))
  /\ UNCHANGED <<config, mode, aws>>

-----------------------------------------------------------------------------
(* AWS, and crashes.                                                       *)

Boot(h) ==
  /\ host[h] = "starting"
  /\ host' = [host EXCEPT ![h] = "running"]
  /\ Happen({})
  /\ UNCHANGED <<config, mode, mode_store, process, profile, bucket, script>>

\* The idle timer, or someone, terminates the instance.
GoIdle(h) ==
  /\ host[h] = "running"
  /\ host' = [host EXCEPT ![h] = IF direct THEN "gone" ELSE "empty"]
  /\ Happen({"idle"})
  /\ UNCHANGED <<config, mode, mode_store, process, profile, bucket, script>>

Possessions(m) ==
  <<m.bastion, m.script_bucket, m.script_key, m.owns_bucket, m.profile_arn, m.owns_profile>>

Cleaning == {"terminate", "unstage", "unprofile", "close", "delete_state"}

\* What a process learns when it starts.
Document == IF mode_store = NoDocument THEN Constructed ELSE mode_store

KnowsMore ==
  \/ pc \in {"wait", "record", "undo"}
  \/ pc # "idle" /\ Possessions(mode) # Possessions(Document)

Crash ==
  /\ pc # "down"
  /\ Goto("down")
  /\ Happen({"crash"} \cup (IF pc \in Cleaning THEN {"torn"} ELSE IfSo(KnowsMore, "unsaved")))
  /\ UNCHANGED <<config, mode, mode_store, aws>>

Create == ResolveProfile \/ EnsureBucket \/ Stage \/ Launch \/ WaitRunning \/ Record \/ Undo
Cleanup == Terminate \/ Unstage \/ Unprofile \/ Close \/ DeleteState

Next ==
  \/ Open \/ Initialize \/ Create
  \/ Shutdown \/ CleanupAll \/ Cleanup
  \/ \E h \in Hosts : Boot(h) \/ GoIdle(h)
  \/ Crash

Spec == Init /\ [][Next]_vars

\* The process runs, instances boot, and the caller tries again: it constructs a
\* provider when it has none, and submits to one that is not initialized, whatever
\* else it does in between.
Fairness ==
  /\ WF_vars(Create) /\ WF_vars(Cleanup) /\ WF_vars(Open) /\ SF_vars(Initialize)
  /\ \A h \in Hosts : WF_vars(Boot(h))

FairSpec == Spec /\ Fairness

-----------------------------------------------------------------------------
(* Properties.                                                             *)

Unless(K, P) == happened \cap K = {} => P

\* Two bastions of one workflow poll the same parameters, and each launches every
\* job.  There are never two, across sessions, resumption and failed
\* initializations -- unless one was launched that no document names.
OneBastion ==
  Unless({"slow", "lost", "delete", "unsaved", "forgotten"}, Cardinality(LiveHosts) <= 1)

\* Once a shutdown without preserve_bastion is over, nothing stands that the mode
\* created: neither bastion, nor role and instance profile, nor bucket and script.
\* The caller's own profile is never deleted.
TeardownLeavesNothing ==
  /\ profile_given => profile
  /\ Unless({"slow", "lost", "delete", "unsaved", "torn"},
       pc = "down" /\ ~preserve /\ mode_store = NoDocument
         => /\ LiveHosts = {} /\ Stacks = {}
            /\ ~profile \/ profile_given
            /\ ~bucket /\ ~script)

\* A caller that keeps trying gets a provider with a bastion, whatever failed before
\* and whatever an earlier session left behind -- unless preserve_bastion is set and
\* a process died in the middle of cleanup_all(): the document then names a bucket
\* that is gone, and a failed initialization with preserve_bastion cleans nothing up.
InitializeRecovers ==
  []<>(\/ pc = "idle" /\ ~constructing /\ mode.bastion # NoHost
       \/ preserve /\ "torn" \in happened
       \/ Cardinality(Standing) > MaxLeft)

\* "The bastion keeps running -- and keeps billing -- after shutdown().  That is what
\* makes adoption possible": while no process is up, the document names a live bastion.
PreservedBastionIsAdopted ==
  preserve => Unless(EventKinds, pc = "down" /\ LiveHosts # {}
                                   => mode_store # NoDocument /\ mode_store.bastion \in LiveHosts)

=============================================================================
