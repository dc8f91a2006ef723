------------------------ MODULE FileStateStoreProofs ------------------------
(***************************************************************************)
(* FileStateStore implements KeyedStore for one client that does not die   *)
(* while the file is empty, whatever the keys and the documents.           *)
(*                                                                         *)
(* Writer says what the client knows between the steps of a call: that the *)
(* file is still the one it has read, so that emptying the file takes the  *)
(* abstract store to what the client is about to write; and that the file  *)
(* is unreadable only while the client is filling it.                      *)
(***************************************************************************)
EXTENDS FileStateStore, TLAPS

OneClient == \A c, d \in Clients : c = d
DiesWhole == "fill" \notin CrashPoints

\* An outcome of a save or a delete, by the promise of KeyedStore.
OneKeyChanged(old, new) ==
  \E k \in Keys : \E d \in Documents \cup {Nothing} : new = [old EXCEPT ![k] = d]

Writer ==
  \A c \in Clients :
    /\ pc[c] = "open" => OneKeyChanged(file.documents, pending[c])
    /\ pc[c] = "remove" => OneKeyChanged(file.documents, NoDocuments)
    /\ pc[c] = "fill" => file = NoFile("empty")

Readable ==
  \/ file.layout \in {"absent", "keyed"}
  \/ file.layout = "flat" /\ ~saved
  \/ \E c \in Clients : pc[c] = "fill"

Inv == TypeOK /\ Writer /\ Readable /\ unlinked = {}

\* The empty map of documents is one.
LEMMA NoDocumentsType == NoDocuments \in [Keys -> Documents \cup {Nothing}]
BY DEF NoDocuments

\* Nobody is in a call on a fresh start.
LEMMA InitInv == Init => Inv
<1> SUFFICES ASSUME Init PROVE Inv
  OBVIOUS
<1>1. file \in File /\ file.layout \in {"absent", "flat"}
  BY NoDocumentsType DEF Init, File, NoFile
<1>2. TypeOK
  BY <1>1, NoDocumentsType DEF Init, TypeOK, Steps
<1>3. Writer
  BY DEF Init, Writer
<1> QED
  BY <1>1, <1>2, <1>3 DEF Init, Inv, Readable

\* A save leaves the other documents in what it is about to write.
LEMMA SaveInv ==
  ASSUME OneClient, Inv, NEW c \in Clients, NEW k \in Keys, NEW d \in Documents,
         Save(c, k, d)
  PROVE  Inv'
<1>1. /\ pc' = [pc EXCEPT ![c] = "open"]
      /\ pending' = [pending EXCEPT ![c] = [file.documents EXCEPT ![k] = d]]
      /\ UNCHANGED <<file, saved, unlinked>> /\ pc[c] = "idle"
  BY DEF Save, Call, Existing
<1>2. file.documents \in [Keys -> Documents \cup {Nothing}]
  BY DEF Inv, TypeOK, File
<1>3. TypeOK'
  BY <1>1, <1>2 DEF Inv, TypeOK, Steps
<1>4. Writer'
  <2>1. OneKeyChanged(file.documents, [file.documents EXCEPT ![k] = d])
    BY DEF OneKeyChanged
  <2>2. pending'[c] = [file.documents EXCEPT ![k] = d] /\ pc'[c] = "open"
    BY <1>1 DEF Inv, TypeOK
  <2> QED
    BY <1>1, <2>1, <2>2 DEF OneClient, Inv, Writer, OneKeyChanged
<1> QED
  BY <1>1, <1>3, <1>4 DEF OneClient, Inv, TypeOK, Readable

\* A delete removes the file only with its last document.
LEMMA DeleteInv ==
  ASSUME OneClient, Inv, NEW c \in Clients, NEW k \in Keys, Delete(c, k)
  PROVE  Inv'
<1> DEFINE rest == [file.documents EXCEPT ![k] = Nothing]
<1>1. file.documents \in [Keys -> Documents \cup {Nothing}]
  BY DEF Inv, TypeOK, File
<1>2. pc[c] = "idle" /\ UNCHANGED <<file, saved, unlinked>>
  BY DEF Delete, Call
<1>3. OneKeyChanged(file.documents, rest)
  BY DEF OneKeyChanged
<1>4. rest \in [Keys -> Documents \cup {Nothing}]
  BY <1>1
<1>5. CASE /\ pc' = [pc EXCEPT ![c] = "open"]
           /\ pending' = [pending EXCEPT ![c] = rest]
  <2>1. TypeOK'
    BY <1>2, <1>4, <1>5 DEF Inv, TypeOK, Steps
  <2>2. pending'[c] = rest /\ pc'[c] = "open"
    BY <1>5 DEF Inv, TypeOK
  <2>3. Writer'
    BY <1>2, <1>3, <2>2, <1>5 DEF OneClient, Inv, Writer, OneKeyChanged
  <2> QED
    BY <1>2, <1>5, <2>1, <2>3 DEF OneClient, Inv, TypeOK, Readable
<1>6. CASE /\ pc' = [pc EXCEPT ![c] = "remove"]
           /\ pending' = [pending EXCEPT ![c] = NoDocuments]
           /\ ~(file.layout = "keyed" /\ rest # NoDocuments)
  <2>1. TypeOK'
    BY <1>2, <1>6, NoDocumentsType DEF Inv, TypeOK, Steps
  <2>2. pc'[c] = "remove"
    BY <1>6 DEF Inv, TypeOK
  <2>3. file.layout = "keyed"
    <3>1. saved /\ file.layout # "absent"
      BY DEF Delete
    <3>2. ~ \E b \in Clients : pc[b] = "fill"
      BY <1>2 DEF OneClient
    <3> QED
      BY <3>1, <3>2 DEF Inv, Readable
  <2>4. OneKeyChanged(file.documents, NoDocuments)
    BY <1>3, <1>6, <2>3
  <2>5. Writer'
    BY <1>2, <2>2, <2>4, <1>6 DEF OneClient, Inv, Writer, OneKeyChanged
  <2> QED
    BY <1>2, <1>6, <2>1, <2>5 DEF OneClient, Inv, TypeOK, Readable
<1> QED
  BY <1>5, <1>6 DEF Delete, Call

\* Emptying the file.
LEMMA OpenInv ==
  ASSUME OneClient, Inv, NEW c \in Clients, Open(c)
  PROVE  Inv'
<1>1. TypeOK'
  BY NoDocumentsType DEF Open, Inv, TypeOK, File, NoFile, Steps
<1>2. pc'[c] = "fill" /\ file' = NoFile("empty")
  BY DEF Open, Inv, TypeOK
<1> QED
  BY <1>1, <1>2 DEF Open, OneClient, Inv, Writer, Readable

\* Filling it.
LEMMA FillInv ==
  ASSUME OneClient, Inv, NEW c \in Clients, Fill(c)
  PROVE  Inv'
<1>1. file' = Keyed(pending[c])
  BY DEF Fill, Inv, Writer, NoFile
<1>2. TypeOK'
  BY <1>1 DEF Fill, Inv, TypeOK, File, Keyed, Steps
<1>3. pc'[c] = "idle" /\ unlinked' = {}
  BY DEF Fill, Inv, TypeOK
<1> QED
  BY <1>1, <1>2, <1>3 DEF OneClient, Inv, Writer, Readable, Keyed

\* Removing it.
LEMMA RemoveInv ==
  ASSUME OneClient, Inv, NEW c \in Clients, Remove(c)
  PROVE  Inv'
<1>1. TypeOK'
  BY NoDocumentsType DEF Remove, Inv, TypeOK, File, NoFile, Steps
<1>2. pc'[c] = "idle" /\ file' = NoFile("absent") /\ unlinked' = {}
  BY DEF Remove, Inv, TypeOK, OneClient
<1> QED
  BY <1>1, <1>2 DEF OneClient, Inv, Writer, Readable, NoFile

\* A crash between two calls, or before the file is touched.
LEMMA CrashInv ==
  ASSUME DiesWhole, Inv, Crash
  PROVE  Inv'
<1>1. ~ \E c \in Clients : pc[c] = "fill"
  BY DEF Crash, DiesWhole
<1> QED
  BY <1>1 DEF Crash, Inv, TypeOK, Steps, Writer, Readable

\* Every step keeps the invariant.
LEMMA StoreStep ==
  ASSUME OneClient, DiesWhole, Inv, [Next]_vars
  PROVE  Inv'
<1>1. CASE UNCHANGED vars
  BY <1>1 DEF vars, Inv, TypeOK, Writer, Readable, OneKeyChanged
<1>2. CASE Next
  BY <1>2, SaveInv, DeleteInv, OpenInv, FillInv, RemoveInv, CrashInv DEF Next
<1> QED
  BY <1>1, <1>2

-----------------------------------------------------------------------------
(* The abstract store.                                                     *)

\* What the store holds, without the CHOOSE.
LEMMA StoredIs ==
  ASSUME OneClient, NEW c \in Clients
  PROVE  Stored = IF pc[c] = "fill" THEN pending[c] ELSE file.documents
BY DEF Stored, OneClient

\* One document changed is a step of the abstract store.
LEMMA AbstractStep ==
  ASSUME OneKeyChanged(Stored, Stored')
  PROVE  Abstract!Next
BY DEF OneKeyChanged, Abstract!Next, Abstract!Save, Abstract!Delete

\* The store takes an abstract step when the file is emptied or removed, and
\* none when it is filled.
LEMMA StoreRefines ==
  ASSUME OneClient, DiesWhole, Inv, Inv', [Next]_vars
  PROVE  [Abstract!Next]_Stored
<1>1. CASE \E c \in Clients : Open(c)
  <2> PICK c \in Clients : Open(c)
    BY <1>1
  <2>1. Stored = file.documents
    BY StoredIs DEF Open
  <2>2. Stored' = pending[c]
    <3>1. pc'[c] = "fill" /\ pending' = pending
      BY DEF Open, Inv, TypeOK
    <3> QED
      BY <3>1 DEF Stored, OneClient
  <2> QED
    BY <2>1, <2>2, AbstractStep DEF Open, Inv, Writer
<1>2. CASE \E c \in Clients : Remove(c)
  <2> PICK c \in Clients : Remove(c)
    BY <1>2
  <2>1. Stored = file.documents
    BY StoredIs DEF Remove
  <2>2. Stored' = NoDocuments
    BY DEF Remove, Stored, OneClient, NoFile, Inv, TypeOK
  <2> QED
    BY <2>1, <2>2, AbstractStep DEF Remove, Inv, Writer
<1>3. CASE \E c \in Clients : Fill(c)
  <2> PICK c \in Clients : Fill(c)
    BY <1>3
  <2>1. Stored = pending[c]
    BY StoredIs DEF Fill
  <2>2. file' = Keyed(pending[c])
    BY DEF Fill, Inv, Writer, NoFile
  <2>3. Stored' = pending[c]
    BY <2>2 DEF Fill, Stored, OneClient, Keyed, Inv, TypeOK
  <2> QED
    BY <2>1, <2>3
<1>4. CASE \E c \in Clients, k \in Keys :
             Delete(c, k) \/ \E d \in Documents : Save(c, k, d)
  <2> PICK c \in Clients, k \in Keys : Delete(c, k) \/ \E d \in Documents : Save(c, k, d)
    BY <1>4
  <2>1. pc[c] = "idle" /\ file' = file /\ pc'[c] \in {"open", "remove"}
    BY DEF Save, Delete, Call, Inv, TypeOK
  <2> QED
    BY <2>1 DEF Stored, OneClient
<1>5. CASE Crash
  BY <1>5 DEF Crash, DiesWhole, Stored
<1>6. CASE UNCHANGED vars
  BY <1>6 DEF vars, Stored
<1> QED
  BY <1>1, <1>2, <1>3, <1>4, <1>5, <1>6 DEF Next

\* A lone client of the file that does not die between emptying and filling it
\* has a store in which saving or deleting one key leaves the others untouched.
THEOREM OneClientKeyedStore ==
  ASSUME OneClient, DiesWhole
  PROVE  Spec => ImplementsKeyedStore
<1>1. Init => Abstract!Init
  <2> SUFFICES ASSUME Init PROVE Stored \in [Keys -> Documents \cup {Nothing}]
    BY DEF Abstract!Init
  <2>1. Stored = file.documents
    BY DEF Init, Stored
  <2> QED
    BY <2>1, NoDocumentsType DEF Init, NoFile
<1>2. Inv /\ [Next]_vars => Inv'
  BY StoreStep
<1>3. Inv /\ Inv' /\ [Next]_vars => [Abstract!Next]_Stored
  BY StoreRefines
<1> QED
  BY <1>1, <1>2, <1>3, InitInv, PTL DEF Spec, Abstract!Spec, ImplementsKeyedStore
=============================================================================
