--------------------------- MODULE FileStateStore ---------------------------
(***************************************************************************)
(* FileStateStore (state/file.py): all documents in one JSON file, saved   *)
(* by reading it, changing one key and writing it back.                    *)
(*                                                                         *)
(* The file lock is not in the model because it excludes nothing that      *)
(* matters: open(path, "w") empties the file before the lock is asked for, *)
(* and the read before it has given its own lock back.  What is left of a  *)
(* write are two steps, the one that empties the file and the one that     *)
(* fills it.                                                               *)
(***************************************************************************)
CONSTANTS
  Keys,       \* STATE_KEY_PROVIDER, STATE_KEY_MODE
  Documents,  \* what may be saved under a key
  Nothing,    \* no document
  Clients,    \* the threads that share the file
  CrashPoints \* the steps at which the process may die

Steps == {"idle", "open", "fill", "remove"}

ASSUME StoreAssumption == Nothing \notin Documents /\ CrashPoints \subseteq Steps

VARIABLES
  file,      \* what is at file_path
  pc,        \* where each client's call stands
  pending,   \* the documents it is about to write
  saved,     \* whether the process has saved anything yet
  unlinked   \* clients that write to a file removed under them

vars == <<file, pc, pending, saved, unlinked>>

NoDocuments == [k \in Keys |-> Nothing]

\* "flat": one document from before the keyed layout, which every key reads.
\* "empty", "garbled": not JSON, in the second case because two writes overlap.
File == [layout : {"absent", "flat", "keyed", "empty", "garbled"},
         documents : [Keys -> Documents \cup {Nothing}]]

Keyed(d) == [layout |-> "keyed", documents |-> d]
NoFile(layout) == [layout |-> layout, documents |-> NoDocuments]

TypeOK ==
  /\ file \in File
  /\ pc \in [Clients -> Steps]
  /\ pending \in [Clients -> [Keys -> Documents \cup {Nothing}]]
  /\ saved \in BOOLEAN
  /\ unlinked \in SUBSET Clients

Init ==
  /\ \/ file = NoFile("absent")
     \/ \E d \in Documents : file = [layout |-> "flat", documents |-> [k \in Keys |-> d]]
  /\ pc = [c \in Clients |-> "idle"]
  /\ pending = [c \in Clients |-> NoDocuments]
  /\ saved = FALSE
  /\ unlinked = {}

-----------------------------------------------------------------------------
(* save_state() and delete_state().                                        *)

\* Mutant: the upgrade of a flat file forgets what it held.
Existing_Keyed == IF file.layout = "keyed" THEN file.documents ELSE NoDocuments

\* What a writer starts from.  A file that is not JSON counts as empty; a flat
\* one seeds every key.
Existing == file.documents

Call(c, step, d) ==
  /\ pc[c] = "idle"
  /\ pc' = [pc EXCEPT ![c] = step]
  /\ pending' = [pending EXCEPT ![c] = d]
  /\ UNCHANGED <<file, saved, unlinked>>

Save(c, k, d) == Call(c, "open", [Existing EXCEPT ![k] = d])

\* shutdown() deletes, after the mode has saved.  The file goes with its last
\* document, and also when it holds none under keys of their own.
Delete(c, k) ==
  LET rest == [file.documents EXCEPT ![k] = Nothing] IN
  /\ saved /\ file.layout # "absent"
  /\ IF file.layout = "keyed" /\ rest # NoDocuments
       THEN Call(c, "open", rest)
       ELSE Call(c, "remove", NoDocuments)

\* open(path, "w")
Open(c) ==
  /\ pc[c] = "open"
  /\ pc' = [pc EXCEPT ![c] = "fill"]
  /\ file' = NoFile("empty")
  /\ UNCHANGED <<pending, saved, unlinked>>

\* The payload reaches the file.  If another client has filled it meanwhile, the
\* longer payload sticks out behind the shorter one.
Fill(c) ==
  /\ pc[c] = "fill"
  /\ pc' = [pc EXCEPT ![c] = "idle"]
  /\ file' \in IF c \in unlinked THEN {file}
               ELSE IF file.layout = "empty" THEN {Keyed(pending[c])}
               ELSE {Keyed(pending[c]), NoFile("garbled")}
  /\ saved' = TRUE
  /\ unlinked' = unlinked \ {c}
  /\ UNCHANGED pending

\* os.remove(); FileNotFoundError is swallowed.
Remove(c) ==
  /\ pc[c] = "remove"
  /\ pc' = [pc EXCEPT ![c] = "idle"]
  /\ file' = NoFile("absent")
  /\ unlinked' = {d \in Clients : pc[d] = "fill"}
  /\ UNCHANGED <<pending, saved>>

\* The process dies, in whatever step, and its successor reads the file.
Crash ==
  /\ \A c \in Clients : pc[c] \in CrashPoints
  /\ pc' = [c \in Clients |-> "idle"]
  /\ saved' = FALSE
  /\ unlinked' = {}
  /\ UNCHANGED <<file, pending>>

Next ==
  \/ \E c \in Clients :
       \/ \E k \in Keys : Delete(c, k) \/ \E d \in Documents : Save(c, k, d)
       \/ Open(c) \/ Fill(c) \/ Remove(c)
  \/ Crash

Spec == Init /\ [][Next]_vars

-----------------------------------------------------------------------------
(* Refinement.  A write takes effect when the file is emptied: from then   *)
(* on nothing but its payload can be read from it.                         *)

Stored ==
  IF \E c \in Clients : pc[c] = "fill"
    THEN pending[CHOOSE c \in Clients : pc[c] = "fill"]
    ELSE file.documents

Abstract == INSTANCE KeyedStore WITH documents <- Stored

\* One client that does not die between emptying the file and filling it has
\* the store of state/base.py: "Writing one key must leave the other keys in
\* the store untouched", the upgrade of a flat file included.
ImplementsKeyedStore == Abstract!Spec
=============================================================================
