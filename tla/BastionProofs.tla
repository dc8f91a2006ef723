--------------------------- MODULE BastionProofs ---------------------------
(***************************************************************************)
(* The bastion is unique, and a teardown leaves nothing: OneBastion and    *)
(* TeardownLeavesNothing of BastionLifecycle, for any number of hosts,     *)
(* sessions and failures.                                                  *)
(*                                                                         *)
(* Both follow from what the mode and its document know of what stands in  *)
(* AWS: HostInv for the bastion, TeardownInv for all the resources.        *)
(***************************************************************************)
EXTENDS BastionLifecycle, FiniteSetTheorems, TLAPS

\* initialize() between the decision to create a bastion and the launch.
Creating == {"profile", "bucket", "stage", "launch"}

\* What holds whatever goes wrong.
Known ==
  /\ pc \in Creating \cup {"wait", "record", "undo"} => mode.bastion = NoHost
  /\ pc \in {"wait", "record"} => launched \in Hosts
  /\ pc = "idle" /\ constructing => mode = Constructed
  /\ keep => preserve
  /\ profile_given => profile
  /\ \A m \in {mode, Document} : /\ profile_given => m.profile_arn /\ ~m.owns_profile
                                 /\ m.owns_bucket => m.script_bucket

\* A live bastion is the one that is being created, or the one that both the mode
\* and its document name.
OneKnown ==
  /\ pc \notin {"wait", "record"} => LiveHosts \subseteq {Document.bastion}
  /\ pc \in {"wait", "record"} => LiveHosts \subseteq {launched}
  /\ pc \in Cleaning \/ (pc = "idle" /\ ~constructing) => LiveHosts \subseteq {mode.bastion}
  /\ pc \in Creating \cup {"undo"} => LiveHosts = {}

HostInv == Unless({"slow", "lost", "delete", "unsaved", "forgotten"}, OneKnown)

\* All that stands, the bastion apart, is what m owns.
Owned(m) ==
  /\ profile => profile_given \/ m.owns_profile
  /\ bucket => m.owns_bucket /\ m.script_bucket
  /\ script => bucket

Accounted(m) == LiveHosts \cup Stacks \subseteq {m.bastion} /\ Owned(m)

AllAccounted ==
  /\ pc \in {"down", "idle"} => Accounted(Document)
  /\ pc \in Cleaning \cup Creating \/ (pc = "idle" /\ ~constructing) => Accounted(mode)
  /\ pc \in {"wait", "record", "undo"} => Owned(mode)
  /\ pc \in {"wait", "record"} => LiveHosts \cup Stacks \subseteq {launched}
  /\ pc = "undo" => LiveHosts = {}
  /\ pc \in {"unstage", "unprofile", "close", "delete_state"} => mode.bastion = NoHost
  /\ pc \in {"unprofile", "close", "delete_state"} => ~mode.owns_bucket
  /\ pc \in {"close", "delete_state"} => ~mode.owns_profile

TeardownInv ==
  ~preserve => Unless({"slow", "lost", "delete", "unsaved", "torn"}, AllAccounted)

USE DEF Labels, HostStates

-----------------------------------------------------------------------------
(* Type correctness.                                                       *)

\* The events of a step are counted, and noted among the known kinds.
LEMMA HappenType ==
  ASSUME TypeOK, NEW K, Happen(K)
  PROVE  events' \in Nat /\ happened' \in SUBSET (Events \cup ScheduleKinds)
<1>1. IsFiniteSet(EventKinds)
  <2>1. EventKinds = {} \cup {"refused"} \cup {"lost"} \cup {"slow"} \cup {"delete"}
                       \cup {"verify"} \cup {"idle"} \cup {"crash"}
    BY DEF EventKinds
  <2>2. \A S : \A x : IsFiniteSet(S) => IsFiniteSet(S \cup {x})
    BY FS_AddElement
  <2>3. QED
    BY <2>1, <2>2, FS_EmptySet, Zenon
<1>2. IsFiniteSet(K \ ScheduleKinds)
  BY <1>1, FS_Subset, BastionAssumption DEF Happen
<1>3. Cardinality(K \ ScheduleKinds) \in Nat
  BY <1>2, FS_CardinalityType
<1>4. QED
  BY <1>3 DEF Happen, TypeOK

\* A fresh mode, and one that read its document, have attributes of the right types.
LEMMA ConstructedType ==
  ASSUME TypeOK
  PROVE  Constructed \in Attributes
BY DEF TypeOK, Constructed, Attributes

\* So has one that verified what it read.
LEMMA LoadedType ==
  ASSUME TypeOK
  PROVE  Loaded \in Attributes /\ Verified(Loaded) \in Attributes
BY DEF TypeOK, Loaded, Verified, Attributes

\* Every attribute of the mode and of its document, and every resource, is of its type,
\* and what is counted as happened was counted within the model's kinds.
THEOREM TypeCorrect == Spec => []TypeOK
<1>1. Init => TypeOK
  <2> SUFFICES ASSUME Init PROVE TypeOK
    OBVIOUS
  <2>1. mode \in Attributes
    BY DEF Init, Constructed, Attributes
  <2>2. direct \in BOOLEAN /\ preserve \in BOOLEAN /\ profile_given \in BOOLEAN /\ profile \in BOOLEAN
    BY DEF Init
  <2>3. QED
    BY <2>1, <2>2 DEF Init, TypeOK
<1>2. TypeOK /\ [Next]_vars => TypeOK'
  <2> SUFFICES ASSUME TypeOK, [Next]_vars PROVE TypeOK'
    OBVIOUS
  <2>1. CASE Open
    BY ZenonT(60), <2>1, HappenType, ConstructedType DEF TypeOK, Open, config, aws
  <2>2. CASE Initialize
    <3>1. mode' \in Attributes
      BY <2>2, LoadedType DEF TypeOK, Initialize, Resume, Begin, Unverified, Attributes
    <3>2. events' \in Nat /\ happened' \in SUBSET (Events \cup ScheduleKinds)
      BY <2>2, HappenType DEF Initialize, Resume, Begin, Unverified
    <3>3. pc' \in Labels /\ constructing' \in BOOLEAN /\ UNCHANGED <<launched, keep, closing>>
      BY <2>2 DEF TypeOK, Initialize, Resume, Begin, Unverified, Goto
    <3>4. QED
      BY SMTT(30), <2>2, <3>1, <3>2, <3>3 DEF TypeOK, Initialize, config, aws
  <2>3. CASE ResolveProfile
    <3>1. mode' \in Attributes
      BY <2>3 DEF TypeOK, ResolveProfile, CreateInstanceProfile, Fails, Attributes
    <3>2. events' \in Nat /\ happened' \in SUBSET (Events \cup ScheduleKinds)
      BY <2>3, HappenType DEF ResolveProfile, CreateInstanceProfile, Fails
    <3>3. /\ pc' \in Labels /\ UNCHANGED <<config, launched, keep, closing, constructing, host, bucket, script>>
          /\ profile' \in {profile, TRUE}
      BY <2>3 DEF ResolveProfile, CreateInstanceProfile, Fails, Goto
    <3>4. mode_store' \in {mode_store, mode'}
      BY <2>3 DEF ResolveProfile, CreateInstanceProfile, Fails, Save
    <3>5. QED
      BY ZenonT(60), <3>1, <3>2, <3>3, <3>4 DEF TypeOK, config
  <2>4. CASE EnsureBucket
    <3>1. mode' \in Attributes
      BY <2>4 DEF TypeOK, EnsureBucket, Fails, Attributes
    <3>2. events' \in Nat /\ happened' \in SUBSET (Events \cup ScheduleKinds)
      BY <2>4, HappenType DEF EnsureBucket, Fails
    <3>3. /\ pc' \in Labels /\ UNCHANGED <<config, launched, keep, closing, constructing, host, profile, script>>
          /\ bucket' \in {bucket, TRUE}
      BY <2>4 DEF EnsureBucket, Fails, Goto
    <3>4. mode_store' \in {mode_store, mode'}
      BY <2>4 DEF EnsureBucket, Fails
    <3>5. QED
      BY ZenonT(60), <3>1, <3>2, <3>3, <3>4 DEF TypeOK, config
  <2>5. CASE Stage
    <3>1. mode' \in Attributes
      BY <2>5 DEF TypeOK, Stage, Fails, Attributes
    <3>2. events' \in Nat /\ happened' \in SUBSET (Events \cup ScheduleKinds)
      BY <2>5, HappenType DEF Stage, Fails
    <3>3. /\ pc' \in Labels /\ UNCHANGED <<config, launched, keep, closing, constructing, host, profile, bucket>>
          /\ script' \in {script, TRUE}
      BY <2>5 DEF Stage, Fails, Goto
    <3>4. mode_store' \in {mode_store, mode'}
      BY <2>5 DEF Stage, Fails
    <3>5. QED
      BY ZenonT(60), <3>1, <3>2, <3>3, <3>4 DEF TypeOK, config
  <2>6. CASE Launch
    BY SMTT(30), <2>6, HappenType
    DEF TypeOK, Launch, RunInstances, CreateStack, StartIf, Fails, Goto, config
  <2>7. CASE WaitRunning
    <3>1. events' \in Nat /\ happened' \in SUBSET (Events \cup ScheduleKinds)
      BY <2>7, HappenType DEF WaitRunning, Fails
    <3>2. mode' = mode /\ mode_store' \in {mode_store, mode}
      BY <2>7 DEF WaitRunning, Fails, Save
    <3>3. pc' \in Labels /\ UNCHANGED <<config, aws, launched, keep, closing, constructing>>
      BY <2>7 DEF WaitRunning, Fails, Goto
    <3>4. QED
      BY SMTT(30), <3>1, <3>2, <3>3 DEF TypeOK, config, aws
  <2>8. CASE Record
    BY ZenonT(60), <2>8, HappenType DEF TypeOK, Record, config, aws, Attributes
  <2>9. CASE Undo
    BY ZenonT(60), <2>9, HappenType DEF TypeOK, Undo, config
  <2>10. CASE Shutdown \/ CleanupAll
    BY ZenonT(60), <2>10, HappenType DEF TypeOK, Shutdown, CleanupAll, CleanupInfrastructure, config, aws
  <2>11. CASE Terminate
    <3>1. mode' \in Attributes
      BY <2>11 DEF TypeOK, Terminate, Attributes
    <3>2. events' \in Nat /\ happened' \in SUBSET (Events \cup ScheduleKinds)
      BY <2>11, HappenType DEF Terminate
    <3>3. QED
      BY SMTT(30), <2>11, <3>1, <3>2 DEF TypeOK, Terminate, Goto, config
  <2>12. CASE Unstage
    <3>1. mode' \in Attributes
      <4>1. Unstaged \in Attributes
        BY DEF TypeOK, Unstaged, Attributes
      <4>2. QED
        BY <2>12, <4>1 DEF TypeOK, Unstage
    <3>2. events' \in Nat /\ happened' \in SUBSET (Events \cup ScheduleKinds)
      BY <2>12, HappenType DEF Unstage
    <3>3. QED
      BY SMTT(30), <2>12, <3>1, <3>2 DEF TypeOK, Unstage, Goto, config
  <2>13. CASE Unprofile
    <3>1. mode' \in Attributes
      <4>1. mode' = mode \/ mode' = [mode EXCEPT !.owns_profile = FALSE, !.profile_arn = FALSE]
        BY <2>13 DEF Unprofile
      <4>2. QED
        BY <4>1 DEF TypeOK, Attributes
    <3>2. events' \in Nat /\ happened' \in SUBSET (Events \cup ScheduleKinds)
      BY <2>13, HappenType DEF Unprofile
    <3>3. QED
      BY ZenonT(60), <2>13, <3>1, <3>2 DEF TypeOK, Unprofile, Goto, config
  <2>14. CASE Close
    <3>1. mode' \in Attributes
      BY <2>14 DEF TypeOK, Close, Attributes
    <3>2. events' \in Nat /\ happened' \in SUBSET (Events \cup ScheduleKinds)
      BY <2>14, HappenType DEF Close
    <3>3. pc' \in Labels
      BY <2>14 DEF Close
    <3>4. QED
      BY ZenonT(60), <2>14, <3>1, <3>2, <3>3 DEF TypeOK, Close, Save, config, aws
  <2>15. CASE DeleteState
    BY SMTT(30), <2>15, HappenType DEF TypeOK, DeleteState, Goto, config, aws
  <2>16. ASSUME NEW h \in Hosts, Boot(h) \/ GoIdle(h) PROVE TypeOK'
    BY SMTT(30), <2>16, HappenType DEF TypeOK, Boot, GoIdle, config, process
  <2>17. CASE Crash
    BY SMTT(30), <2>17, HappenType DEF TypeOK, Crash, Goto, config, aws
  <2>18. CASE UNCHANGED vars
    BY SMTT(30), <2>18 DEF TypeOK, vars, config, process, aws
  <2>19. QED
    BY <2>1, <2>2, <2>3, <2>4, <2>5, <2>6, <2>7, <2>8, <2>9, <2>10, <2>11, <2>12, <2>13,
       <2>14, <2>15, <2>16, <2>17, <2>18 DEF Next, Create, Cleanup
<1>3. QED
  BY <1>1, <1>2, PTL DEF Spec

-----------------------------------------------------------------------------
(* What the mode and its document know, whatever goes wrong.               *)

USE DEF Cleaning, Creating

\* What happened is never forgotten, and the configuration does not change.
LEMMA HistoryGrows == [Next]_vars => happened \subseteq happened' /\ preserve' = preserve
BY DEF Next, vars, config, Create, Cleanup, Open, Initialize, Resume, Begin, Unverified,
   ResolveProfile, CreateInstanceProfile, EnsureBucket, Stage, Launch, RunInstances,
   CreateStack, StartIf, WaitRunning, Record, Undo, Fails, Shutdown,
   CleanupAll, CleanupInfrastructure, Terminate, Unstage, Unprofile, Close, DeleteState, Boot,
   GoIdle, Crash, Happen

\* A mode that is given a profile of its own is still a mode.
LEMMA GivenProfileType ==
  ASSUME NEW m \in Attributes
  PROVE  [m EXCEPT !.profile_arn = TRUE, !.owns_profile = TRUE] \in Attributes
BY DEF Attributes

\* The caller's profile is never one that the mode owns.
LEMMA KnownInit == Init => Known
BY DEF Init, Known, Constructed, Document

\* Every step keeps what the mode knows.
LEMMA KnownStep == TypeOK /\ Known /\ [Next]_vars => Known'
<1> SUFFICES ASSUME TypeOK, Known, [Next]_vars PROVE Known'
  OBVIOUS
<1>1. CASE Open
  BY <1>1 DEF TypeOK, Known, Open, config, aws, Constructed, Document
<1>2. CASE Initialize
  <2>1. /\ Verified(Loaded).profile_arn = Loaded.profile_arn
        /\ Verified(Loaded).owns_profile = Loaded.owns_profile
        /\ Verified(Loaded).owns_bucket = Loaded.owns_bucket
        /\ Verified(Loaded).script_bucket = Loaded.script_bucket
    BY LoadedType DEF Verified, Attributes
  <2>2. Loaded \in {mode, Document}
    BY DEF Loaded, Document
  <2>3. CASE Resume
    BY <1>2, <2>1, <2>2, <2>3, LoadedType
    DEF TypeOK, Known, Initialize, Resume, config, aws, Document, Constructed, Attributes
  <2>4. CASE Begin
    BY <1>2, <2>1, <2>2, <2>4, LoadedType
    DEF TypeOK, Known, Initialize, Begin, Goto, config, aws, Document, Constructed, Attributes
  <2>5. CASE Unverified
    BY <1>2, <2>1, <2>2, <2>5, LoadedType
    DEF TypeOK, Known, Initialize, Unverified, config, aws, Document, Constructed, Attributes
  <2>6. QED
    BY <1>2, <2>3, <2>4, <2>5 DEF Initialize
<1>3. CASE ResolveProfile
  <2>1. profile_given => UNCHANGED <<mode, mode_store, profile>>
    BY <1>3 DEF Known, ResolveProfile, CreateInstanceProfile, Fails
  <2>2. /\ mode'.bastion = NoHost /\ mode'.owns_bucket = mode.owns_bucket
        /\ mode'.script_bucket = mode.script_bucket
    BY <1>3 DEF TypeOK, Known, ResolveProfile, CreateInstanceProfile, Fails, Attributes
  <2>3. pc' \in {"bucket", "undo"} /\ UNCHANGED <<config, launched, keep, closing, constructing>>
    BY <1>3 DEF ResolveProfile, CreateInstanceProfile, Fails, Goto
  <2>4. mode_store' = mode_store \/ (mode_store' = mode' /\ mode' \in Attributes)
    <3>1. \/ mode_store' = mode_store
          \/ mode_store' = mode' /\ mode' = [mode EXCEPT !.profile_arn = TRUE, !.owns_profile = TRUE]
      BY <1>3 DEF ResolveProfile, CreateInstanceProfile, Fails, Save
    <3>2. mode \in Attributes
      BY DEF TypeOK
    <3>3. QED
      BY <3>1, <3>2, GivenProfileType
  <2>5. QED
    BY <2>1, <2>2, <2>3, <2>4, BastionAssumption DEF Known, config, Document, Constructed
<1>4. CASE EnsureBucket
  <2>1. /\ mode'.bastion = NoHost
        /\ mode'.profile_arn = mode.profile_arn
        /\ mode'.owns_profile = mode.owns_profile
        /\ mode'.owns_bucket => mode'.script_bucket
    BY <1>4 DEF TypeOK, Known, EnsureBucket, Fails, Attributes
  <2>2. /\ pc' \in {"stage", "undo"}
        /\ UNCHANGED <<config, mode_store, launched, keep, closing, constructing, profile>>
    BY <1>4 DEF EnsureBucket, Fails, Goto
  <2>3. QED
    BY <2>1, <2>2 DEF Known, config, Document, Constructed
<1>5. CASE Stage
  BY <1>5 DEF TypeOK, Known, Stage, Fails, Goto, config, Document, Constructed, Attributes
<1>6. CASE Launch
  BY <1>6
  DEF TypeOK, Known, Launch, RunInstances, CreateStack, StartIf, Fails, Goto, config, Document,
      Constructed
<1>7. CASE WaitRunning
  BY <1>7, BastionAssumption
  DEF TypeOK, Known, WaitRunning, Fails, Goto, Save, config, aws, Document, Constructed
<1>8. CASE Record
  BY <1>8, BastionAssumption
  DEF TypeOK, Known, Record, config, aws, Document, Constructed, Attributes
<1>9. CASE Undo
  BY <1>9 DEF TypeOK, Known, Undo, config, Document, Constructed
<1>10. CASE Shutdown \/ CleanupAll
  BY <1>10 DEF TypeOK, Known, Shutdown, CleanupAll, CleanupInfrastructure, config, aws,
     Document, Constructed
<1>11. CASE Terminate
  BY <1>11 DEF TypeOK, Known, Terminate, Goto, config, Document, Constructed, Attributes
<1>12. CASE Unstage
  <2>1. /\ Unstaged.bastion = mode.bastion /\ Unstaged.profile_arn = mode.profile_arn
        /\ Unstaged.owns_profile = mode.owns_profile /\ ~Unstaged.owns_bucket
    BY DEF Unstaged, TypeOK, Attributes
  <2>2. mode' = mode \/ mode' = Unstaged
    BY <1>12 DEF Unstage
  <2>3. /\ pc' = "unprofile"
        /\ UNCHANGED <<config, mode_store, launched, keep, constructing, profile>>
    BY <1>12 DEF Unstage, Goto
  <2>4. QED
    BY <2>1, <2>2, <2>3 DEF Known, config, Document, Constructed
<1>13. CASE Unprofile
  BY <1>13 DEF TypeOK, Known, Unprofile, Goto, config, Document, Constructed, Attributes
<1>14. CASE Close
  BY <1>14, BastionAssumption
  DEF TypeOK, Known, Close, Save, config, aws, Document, Constructed, Attributes
<1>15. CASE DeleteState
  BY <1>15 DEF TypeOK, Known, DeleteState, Goto, config, aws, Document, Constructed
<1>16. ASSUME NEW h \in Hosts, Boot(h) \/ GoIdle(h) PROVE Known'
  BY <1>16 DEF TypeOK, Known, Boot, GoIdle, config, process, Document, Constructed
<1>17. CASE Crash
  BY <1>17 DEF TypeOK, Known, Crash, Goto, config, aws, Document, Constructed
<1>18. CASE UNCHANGED vars
  BY <1>18 DEF Known, vars, config, process, aws, Document, Constructed
<1>19. QED
  BY <1>1, <1>2, <1>3, <1>4, <1>5, <1>6, <1>7, <1>8, <1>9, <1>10, <1>11, <1>12, <1>13,
     <1>14, <1>15, <1>16, <1>17, <1>18 DEF Next, Create, Cleanup

-----------------------------------------------------------------------------
(* There is one bastion at most.                                           *)

USE DEF Live, LiveHosts

\* Nothing lives before the first session.
LEMMA HostInit == Init => HostInv
BY DEF Init, HostInv, Unless, OneKnown

\* Every step leaves the live bastion where the next one will look for it.
LEMMA HostStep == TypeOK /\ Known /\ HostInv /\ [Next]_vars => HostInv'
<1> DEFINE Excused == {"slow", "lost", "delete", "unsaved", "forgotten"}
<1> SUFFICES ASSUME TypeOK, Known, HostInv, [Next]_vars, happened' \cap Excused = {}
             PROVE  OneKnown'
  BY DEF HostInv, Unless
<1>0. happened \subseteq happened' /\ preserve' = preserve
  BY HistoryGrows
<1> OneKnown
  BY <1>0 DEF HostInv, Unless
<1> HIDE DEF HostInv
<1>1. CASE Open
  BY <1>1 DEF OneKnown, Open, config, aws, Document, Constructed
<1>2. CASE Initialize
  <2>1. CASE Resume
    BY <1>2, <2>1, BastionAssumption
    DEF OneKnown, Initialize, Resume, Verified, Loaded, config, aws, Document, Constructed,
        TypeOK, Attributes
  <2>2. CASE Begin
    BY <1>2, <2>2, BastionAssumption
    DEF OneKnown, Initialize, Begin, Verified, Loaded, Goto, config, aws, Document, Constructed,
        TypeOK, Attributes, Known
  <2>3. CASE Unverified
    BY <1>2, <2>3, BastionAssumption
    DEF OneKnown, Initialize, Unverified, Loaded, config, aws, Document, Constructed, TypeOK,
        Attributes, Known
  <2>4. QED
    BY <1>2, <2>1, <2>2, <2>3 DEF Initialize
<1>3. CASE ResolveProfile
  BY <1>3
  DEF OneKnown, ResolveProfile, CreateInstanceProfile, Fails, Goto, Save, config, Document,
      Constructed
<1>4. CASE EnsureBucket
  BY <1>4 DEF OneKnown, EnsureBucket, Fails, Goto, config, Document, Constructed
<1>5. CASE Stage
  BY <1>5 DEF OneKnown, Stage, Fails, Goto, config, Document, Constructed
<1>6. CASE Launch
  BY <1>6
  DEF OneKnown, Launch, RunInstances, CreateStack, StartIf, Fails, Goto, Happen, config, Document,
      Constructed, TypeOK
<1>7. CASE WaitRunning
  BY <1>7 DEF OneKnown, WaitRunning, Fails, Goto, Save, Happen, IfSo, config, aws, Document,
     Constructed, Known
<1>8. CASE Record
  <2>1. mode'.bastion = launched /\ mode_store'.bastion = launched
    BY <1>8 DEF Record, TypeOK, Attributes
  <2>2. LiveHosts' \subseteq {launched} /\ pc' = "idle"
    BY <1>8 DEF OneKnown, Record, aws
  <2>3. mode_store' # NoDocument
    <3>1. mode_store' \in Attributes
      BY <1>8 DEF Record, TypeOK, Attributes
    <3>2. QED
      BY <3>1, BastionAssumption
  <2>4. QED
    BY <2>1, <2>2, <2>3 DEF OneKnown, Document
<1>9. CASE Undo
  BY <1>9 DEF OneKnown, Undo, config, Document, Constructed, TypeOK
<1>10. CASE Shutdown \/ CleanupAll
  BY <1>10 DEF OneKnown, Shutdown, CleanupAll, CleanupInfrastructure, config, aws, Document,
     Constructed
<1>11. CASE Terminate
  BY <1>11, BastionAssumption
  DEF OneKnown, Terminate, Goto, Happen, config, Document, Constructed, TypeOK, Attributes
<1>12. CASE Unstage
  <2>1. mode'.bastion = mode.bastion
    BY <1>12 DEF Unstage, Unstaged, TypeOK, Attributes
  <2>2. pc = "unstage" /\ pc' = "unprofile" /\ UNCHANGED <<config, mode_store, host>>
    BY <1>12 DEF Unstage, Goto
  <2>3. QED
    BY <2>1, <2>2 DEF OneKnown, config, Document, Constructed
<1>13. CASE Unprofile
  <2>1. mode'.bastion = mode.bastion
    BY <1>13 DEF Unprofile, TypeOK, Attributes
  <2>2. pc = "unprofile" /\ pc' = "close" /\ UNCHANGED <<config, mode_store, host>>
    BY <1>13 DEF Unprofile, Goto
  <2>3. QED
    BY <2>1, <2>2 DEF OneKnown, config, Document, Constructed
<1>14. CASE Close
  BY <1>14, BastionAssumption
  DEF OneKnown, Close, Save, config, aws, Document, Constructed, TypeOK, Attributes
<1>15. CASE DeleteState
  BY <1>15 DEF OneKnown, DeleteState, Goto, Happen, IfSo, config, aws, Document, Constructed
<1>16. ASSUME NEW h \in Hosts, Boot(h) \/ GoIdle(h) PROVE OneKnown'
  BY <1>16 DEF OneKnown, Boot, GoIdle, config, process, Document, Constructed, TypeOK
<1>17. CASE Crash
  BY <1>17 DEF OneKnown, Crash, KnowsMore, Goto, Happen, IfSo, config, aws, Document,
     Constructed
<1>18. CASE UNCHANGED vars
  BY <1>18 DEF OneKnown, vars, config, process, aws, Document, Constructed
<1>19. QED
  BY <1>1, <1>2, <1>3, <1>4, <1>5, <1>6, <1>7, <1>8, <1>9, <1>10, <1>11, <1>12, <1>13,
     <1>14, <1>15, <1>16, <1>17, <1>18 DEF Next, Create, Cleanup

\* At most one host is live, unless one was launched that no document names.
THEOREM AtMostOneBastion == Spec => []OneBastion
<1>1. ASSUME TypeOK, Known, HostInv PROVE OneBastion
  <2> DEFINE Excused == {"slow", "lost", "delete", "unsaved", "forgotten"}
  <2> SUFFICES ASSUME happened \cap Excused = {} PROVE Cardinality(LiveHosts) <= 1
    BY DEF OneBastion, Unless
  <2>1. PICK x : LiveHosts \subseteq {x}
    BY <1>1 DEF HostInv, Unless, OneKnown
  <2>2. Cardinality({x}) = 1 /\ IsFiniteSet({x})
    BY FS_Singleton
  <2>3. Cardinality(LiveHosts) <= Cardinality({x})
    BY <2>1, <2>2, FS_Subset
  <2>4. QED
    BY <2>2, <2>3
<1>2. QED
  BY <1>1, TypeCorrect, KnownInit, KnownStep, HostInit, HostStep, PTL DEF Spec

-----------------------------------------------------------------------------
(* A teardown leaves nothing.                                              *)

USE DEF Stacks

\* Nothing stands before the first session.
LEMMA TeardownInit == Init => TeardownInv
BY DEF Init, TeardownInv, Unless, AllAccounted, Accounted, Owned, Document, Constructed

\* Every step keeps account of what stands.
LEMMA TeardownStep == TypeOK /\ Known /\ TeardownInv /\ [Next]_vars => TeardownInv'
<1> DEFINE Excused == {"slow", "lost", "delete", "unsaved", "torn"}
<1> SUFFICES ASSUME TypeOK, Known, TeardownInv, [Next]_vars, ~preserve', happened' \cap Excused = {}
             PROVE  AllAccounted'
  BY DEF TeardownInv, Unless
<1>0. happened \subseteq happened' /\ preserve' = preserve
  BY HistoryGrows
<1> AllAccounted /\ ~keep
  BY <1>0 DEF TeardownInv, Unless, Known
<1> HIDE DEF TeardownInv
<1> USE DEF AllAccounted, Accounted, Owned
<1>a. \A K : Happen(K) => K \cap Excused = {}
  BY DEF Happen
<1>b. pc \in Creating => LiveHosts = {} /\ Stacks = {}
  BY BastionAssumption DEF Known
<1> HIDE DEF Excused
<1>1. CASE Open
  BY <1>1 DEF Open, config, aws, Document, Constructed
<1>2. CASE Initialize
  <2>1. CASE Resume
    BY <1>2, <2>1, BastionAssumption
    DEF Initialize, Resume, Verified, Loaded, config, aws, Document, Constructed, TypeOK,
        Attributes
  <2>2. CASE Begin
    BY <1>2, <2>2, BastionAssumption
    DEF Initialize, Begin, Verified, Loaded, Goto, config, aws, Document, Constructed, TypeOK,
        Attributes, Known
  <2>3. CASE Unverified
    BY <1>2, <2>3, BastionAssumption
    DEF Initialize, Unverified, Loaded, config, aws, Document, Constructed, TypeOK, Attributes,
        Known
  <2>4. QED
    BY <1>2, <2>1, <2>2, <2>3 DEF Initialize
<1>3. CASE ResolveProfile
  <2>1. /\ mode'.bastion = mode.bastion /\ mode'.owns_bucket = mode.owns_bucket
        /\ mode'.script_bucket = mode.script_bucket
    BY <1>3 DEF ResolveProfile, CreateInstanceProfile, Fails, TypeOK, Attributes
  <2>2. profile' => profile_given \/ mode'.owns_profile
    BY <1>3, <1>a DEF ResolveProfile, CreateInstanceProfile, Fails, TypeOK, Attributes, Excused
  <2>3. pc \in Creating /\ pc' \in {"bucket", "undo"} /\ UNCHANGED <<config, host, bucket, script>>
    BY <1>3 DEF ResolveProfile, CreateInstanceProfile, Fails, Goto
  <2>4. QED
    BY <1>b, <2>1, <2>2, <2>3 DEF config
<1>4. CASE EnsureBucket
  <2>1. mode'.bastion = mode.bastion /\ mode'.owns_profile = mode.owns_profile
    BY <1>4 DEF EnsureBucket, Fails, TypeOK, Attributes
  <2>2. bucket' => mode'.owns_bucket /\ mode'.script_bucket
    BY <1>4, <1>a DEF EnsureBucket, Fails, TypeOK, Attributes, Excused
  <2>3. script' => bucket'
    BY <1>4 DEF EnsureBucket, Fails
  <2>4. pc \in Creating /\ pc' \in {"stage", "undo"} /\ UNCHANGED <<config, host, profile>>
    BY <1>4 DEF EnsureBucket, Fails, Goto
  <2>5. QED
    BY <1>b, <2>1, <2>2, <2>3, <2>4 DEF config
<1>5. CASE Stage
  <2>1. /\ mode'.bastion = mode.bastion /\ mode'.owns_profile = mode.owns_profile
        /\ mode'.owns_bucket = mode.owns_bucket /\ mode'.script_bucket = mode.script_bucket
    BY <1>5 DEF Stage, Fails, TypeOK, Attributes
  <2>2. script' => bucket
    BY <1>5 DEF Stage, Fails
  <2>3. pc \in Creating /\ pc' \in {"launch", "undo"} /\ UNCHANGED <<config, host, profile, bucket>>
    BY <1>5 DEF Stage, Fails, Goto
  <2>4. QED
    BY <1>b, <2>1, <2>2, <2>3 DEF config
<1>6. CASE Launch
  <2>1. pc \in Creating /\ UNCHANGED <<config, mode, profile, bucket, script>>
    BY <1>6 DEF Launch, RunInstances, CreateStack, StartIf, Fails
  <2>2. CASE pc' = "undo" /\ host' = host
    BY <1>b, <2>1, <2>2 DEF config
  <2>3. CASE pc' = "wait" /\ host' = [host EXCEPT ![launched'] = "starting"]
    BY <1>b, <2>1, <2>3 DEF config, TypeOK
  <2>4. QED
    BY <1>6, <1>a, <2>2, <2>3 DEF Launch, RunInstances, CreateStack, StartIf, Fails, Goto, Excused
<1>7. CASE WaitRunning
  BY <1>7, <1>a DEF WaitRunning, Fails, Goto, Save, IfSo, config, aws, Known, TypeOK, Excused
<1>8. CASE Record
  <2>1. /\ mode'.bastion = launched /\ mode'.owns_profile = mode.owns_profile
        /\ mode'.owns_bucket = mode.owns_bucket /\ mode'.script_bucket = mode.script_bucket
    BY <1>8 DEF Record, TypeOK, Attributes
  <2>2. mode' \in Attributes /\ mode.initialized \in BOOLEAN /\ mode_store' = [mode' EXCEPT !.initialized = mode.initialized]
    BY <1>8 DEF Record, TypeOK, Attributes
  <2>3. /\ mode_store' \in Attributes
        /\ mode_store'.bastion = mode'.bastion /\ mode_store'.owns_profile = mode'.owns_profile
        /\ mode_store'.owns_bucket = mode'.owns_bucket /\ mode_store'.script_bucket = mode'.script_bucket
    BY <2>2 DEF Attributes
  <2>4. Document' = mode_store'
    BY <2>3, BastionAssumption DEF Document
  <2>5. pc = "record" /\ pc' = "idle" /\ UNCHANGED <<config, host, profile, bucket, script>>
    BY <1>8 DEF Record, aws
  <2>6. QED
    BY <2>1, <2>3, <2>4, <2>5 DEF config
<1>9. CASE Undo
  BY <1>9, <1>a DEF Undo, config, TypeOK, Excused
<1>10. CASE Shutdown \/ CleanupAll
  BY <1>10 DEF Shutdown, CleanupAll, CleanupInfrastructure, config, aws
<1>11. CASE Terminate
  BY <1>11, <1>a, BastionAssumption DEF Terminate, Goto, config, TypeOK, Attributes, Excused
<1>12. CASE Unstage
  <2>1. mode'.bastion = mode.bastion /\ mode'.owns_profile = mode.owns_profile /\ ~mode'.owns_bucket
    <3>1. /\ Unstaged.bastion = mode.bastion /\ Unstaged.owns_profile = mode.owns_profile
          /\ ~Unstaged.owns_bucket
      BY DEF Unstaged, TypeOK, Attributes
    <3>2. mode' = Unstaged \/ (mode' = mode /\ ~mode.script_bucket)
      BY <1>12 DEF Unstage
    <3>3. mode.owns_bucket => mode.script_bucket
      BY <1>12 DEF Unstage, Known
    <3>4. QED
      BY <3>1, <3>2, <3>3
  <2>2. ~bucket' /\ ~script'
    BY <1>12, <1>a DEF Unstage, Excused
  <2>3. pc = "unstage" /\ pc' = "unprofile" /\ UNCHANGED <<config, host, profile>>
    BY <1>12 DEF Unstage, Goto
  <2>4. QED
    BY <2>1, <2>2, <2>3 DEF config
<1>13. CASE Unprofile
  <2>1. /\ mode'.bastion = mode.bastion /\ mode'.owns_bucket = mode.owns_bucket
        /\ mode'.script_bucket = mode.script_bucket /\ ~mode'.owns_profile
    <3>1. \/ mode' = [mode EXCEPT !.owns_profile = FALSE, !.profile_arn = FALSE]
          \/ mode' = mode /\ ~mode.owns_profile
      BY <1>13 DEF Unprofile
    <3>2. QED
      BY <3>1 DEF TypeOK, Attributes
  <2>2. profile' => profile_given
    BY <1>13, <1>a DEF Unprofile, Excused
  <2>3. pc = "unprofile" /\ pc' = "close" /\ UNCHANGED <<config, host, bucket, script>>
    BY <1>13 DEF Unprofile, Goto
  <2>4. QED
    BY <2>1, <2>2, <2>3 DEF config
<1>14. CASE Close
  BY <1>14, BastionAssumption
  DEF Close, Save, config, aws, Document, Constructed, TypeOK, Attributes
<1>15. CASE DeleteState
  BY <1>15 DEF DeleteState, Goto, config, aws, Document, Constructed
<1>16. ASSUME NEW h \in Hosts, Boot(h) \/ GoIdle(h) PROVE AllAccounted'
  BY <1>16 DEF Boot, GoIdle, config, process, Document, Constructed, TypeOK
<1>17. CASE Crash
  <2>1. pc \notin Cleaning /\ ~KnowsMore
    BY <1>17, <1>a DEF Crash, IfSo, Excused
  <2>2. Accounted(Document)
    <3>1. CASE pc \in {"down", "idle"}
      BY <3>1
    <3>2. CASE pc \in Creating
      <4>1. Possessions(mode) = Possessions(Document)
        BY <2>1, <3>2 DEF KnowsMore
      <4>2. /\ mode.bastion = Document.bastion /\ mode.owns_profile = Document.owns_profile
            /\ mode.owns_bucket = Document.owns_bucket /\ mode.script_bucket = Document.script_bucket
        BY <4>1 DEF Possessions
      <4>3. QED
        BY <3>2, <4>2
    <3>3. QED
      BY <2>1, <3>1, <3>2 DEF KnowsMore, TypeOK
  <2>3. pc' = "down" /\ UNCHANGED <<config, mode, mode_store, aws>>
    BY <1>17 DEF Crash, Goto
  <2>4. QED
    BY <2>2, <2>3 DEF config, aws, Document, Constructed
<1>18. CASE UNCHANGED vars
  BY <1>18 DEF vars, config, process, aws, Document, Constructed
<1>19. QED
  BY <1>1, <1>2, <1>3, <1>4, <1>5, <1>6, <1>7, <1>8, <1>9, <1>10, <1>11, <1>12, <1>13,
     <1>14, <1>15, <1>16, <1>17, <1>18 DEF Next, Create, Cleanup

\* A shutdown that nothing interferes with leaves no bastion, stack, role, bucket or
\* script, and none ever deletes the caller's profile.
THEOREM TeardownComplete == Spec => []TeardownLeavesNothing
<1>1. TypeOK /\ Known /\ TeardownInv => TeardownLeavesNothing
  BY BastionAssumption
  DEF TeardownLeavesNothing, Known, TeardownInv, Unless, AllAccounted, Accounted, Owned,
     Document, Constructed
<1>2. QED
  BY <1>1, TypeCorrect, KnownInit, KnownStep, TeardownInit, TeardownStep, PTL DEF Spec

=============================================================================
