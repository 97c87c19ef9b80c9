------------------------- MODULE DocumentLifecycle -------------------------
(***************************************************************************)
(* What the database promises about a document, without replicas, caches,  *)
(* links or codes: the document is drafted, its content is replaced until  *)
(* it is sent, then it is signed by the contractor (PEP) and by the        *)
(* customer (UKEP).  The status only moves forward, the content is frozen  *)
(* by sending, and a signature is over the frozen content.                 *)
(*                                                                         *)
(* A signature and the status that reports it are separate steps, and a    *)
(* status may be skipped when the write that should have recorded it       *)
(* failed.                                                                 *)
(***************************************************************************)
EXTENDS Integers

CONSTANTS Docs, Contents, None

VARIABLES
    status,     \* the status of each document
    hash,       \* its content
    evidence    \* the signatures given

vars == <<status, hash, evidence>>

Order == [absent |-> 0, draft |-> 1, sent |-> 2, pep_signed |-> 3,
          awaiting_ukep |-> 4, completed |-> 5]

Evidence == [doc : Docs, type : {"PEP", "UKEP"}, hash : Contents]

Signed(d, type) == [doc |-> d, type |-> type, hash |-> hash[d]] \in evidence

Init ==
    /\ status = [d \in Docs |-> "absent"]
    /\ hash = [d \in Docs |-> None]
    /\ evidence = {}

Create(d, c) ==
    /\ status[d] = "absent"
    /\ status' = [status EXCEPT ![d] = "draft"]
    /\ hash' = [hash EXCEPT ![d] = c]
    /\ UNCHANGED evidence

Replace(d, c) ==
    /\ status[d] = "draft"
    /\ hash' = [hash EXCEPT ![d] = c]
    /\ UNCHANGED <<status, evidence>>

\* The version sent may be one whose own recording failed.
Send(d, c) ==
    /\ status[d] = "draft"
    /\ status' = [status EXCEPT ![d] = "sent"]
    /\ hash' = [hash EXCEPT ![d] = c]
    /\ UNCHANGED evidence

SignPEP(d) ==
    /\ status[d] = "sent"
    /\ evidence' = evidence \cup {[doc |-> d, type |-> "PEP", hash |-> hash[d]]}
    /\ UNCHANGED <<status, hash>>

SignUKEP(d) ==
    /\ Order[status[d]] >= Order["sent"]
    /\ Signed(d, "PEP")
    /\ evidence' = evidence \cup {[doc |-> d, type |-> "UKEP", hash |-> hash[d]]}
    /\ UNCHANGED <<status, hash>>

\* The status catches up with the signatures.
Advance(d, s) ==
    /\ Order["sent"] <= Order[status[d]]
    /\ Order[status[d]] < Order[s]
    /\ Signed(d, "PEP")
    /\ s = "completed" => Signed(d, "UKEP")
    /\ status' = [status EXCEPT ![d] = s]
    /\ UNCHANGED <<hash, evidence>>

Next ==
    \E d \in Docs :
       \/ \E c \in Contents : Create(d, c) \/ Replace(d, c) \/ Send(d, c)
       \/ SignPEP(d) \/ SignUKEP(d)
       \/ \E s \in DOMAIN Order : Advance(d, s)

Spec == Init /\ [][Next]_vars

----------------------------------------------------------------------------
\* Every stored document has a content.
TypeOK ==
    /\ status \in [Docs -> DOMAIN Order]
    /\ hash \in [Docs -> Contents \cup {None}]
    /\ \A d \in Docs : status[d] # "absent" => hash[d] \in Contents
    /\ evidence \subseteq Evidence

\* Every signature is over the document's present content, and the customer
\* signs only what the contractor has signed.
EvidenceIsCurrent ==
    \A e \in evidence : /\ e.hash = hash[e.doc]
                        /\ Order[status[e.doc]] >= Order["sent"]
                        /\ e.type = "UKEP" => Signed(e.doc, "PEP")

\* A status past sent has the signatures it reports.
StatusIsBacked ==
    \A d \in Docs : /\ Order[status[d]] > Order["sent"] => Signed(d, "PEP")
                    /\ status[d] = "completed" => Signed(d, "UKEP")
============================================================================
