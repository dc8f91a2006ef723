----------------------------- MODULE KeyedStore -----------------------------
(***************************************************************************)
(* What StateStore (state/base.py) promises: one document per state key;   *)
(* saving or deleting one leaves the others untouched.                     *)
(***************************************************************************)
CONSTANTS Keys,       \* state keys
          Documents,  \* what may be saved under one
          Nothing     \* no document

VARIABLE documents

Init == documents \in [Keys -> Documents \cup {Nothing}]

Save(k, d) == documents' = [documents EXCEPT ![k] = d]
Delete(k) == documents' = [documents EXCEPT ![k] = Nothing]

Next == \E k \in Keys : Delete(k) \/ \E d \in Documents : Save(k, d)

Spec == Init /\ [][Next]_documents
=============================================================================
