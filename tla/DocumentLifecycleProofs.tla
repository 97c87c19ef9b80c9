---------------------- MODULE DocumentLifecycleProofs ----------------------
(***************************************************************************)
(* The promise of DocumentLifecycle, proved for every set of documents and *)
(* contents.                                                               *)
(***************************************************************************)
EXTENDS DocumentLifecycle, TLAPS

Inv == TypeOK /\ EvidenceIsCurrent /\ StatusIsBacked

\* The statuses are ordered as the code passes through them.
LEMMA OrderValues ==
    /\ DOMAIN Order = {"absent", "draft", "sent", "pep_signed", "awaiting_ukep", "completed"}
    /\ Order["absent"] = 0 /\ Order["draft"] = 1 /\ Order["sent"] = 2
    /\ Order["pep_signed"] = 3 /\ Order["awaiting_ukep"] = 4 /\ Order["completed"] = 5
    /\ \A s \in DOMAIN Order : Order[s] \in 0 .. 5
BY DEF Order

\* Every step keeps the invariant.
LEMMA LifecycleStep == Inv /\ [Next]_vars => Inv'
<1> SUFFICES ASSUME Inv, [Next]_vars PROVE Inv'
  OBVIOUS
<1> USE DEF Inv, TypeOK, EvidenceIsCurrent, StatusIsBacked, Signed, Evidence
<1>1. ASSUME NEW d \in Docs, NEW c \in Contents, Create(d, c) \/ Replace(d, c) \/ Send(d, c)
      PROVE  Inv'
  <2>1. \A e \in evidence : e.doc # d
    <3>1. Order[status[d]] < 2
      BY <1>1, OrderValues DEF Create, Replace, Send
    <3>2. ASSUME NEW e \in evidence, e.doc = d PROVE FALSE
      <4>1. Order[status[e.doc]] >= Order["sent"]
        OBVIOUS
      <4> QED BY <4>1, <3>1, <3>2, OrderValues
    <3> QED BY <3>2
  <2>2. TypeOK'
    BY <1>1, OrderValues DEF Create, Replace, Send
  <2>3. EvidenceIsCurrent'
    BY <1>1, <2>1, OrderValues DEF Create, Replace, Send
  <2>4. StatusIsBacked'
    BY <1>1, <2>1, OrderValues DEF Create, Replace, Send
  <2> QED BY <2>2, <2>3, <2>4
<1>2. ASSUME NEW d \in Docs, SignPEP(d) \/ SignUKEP(d) PROVE Inv'
  <2>1. hash[d] \in Contents
    BY <1>2, OrderValues DEF SignPEP, SignUKEP
  <2>2. TypeOK'
    BY <1>2, <2>1 DEF SignPEP, SignUKEP
  <2>3. EvidenceIsCurrent'
    BY <1>2, OrderValues DEF SignPEP, SignUKEP
  <2>4. StatusIsBacked'
    BY <1>2 DEF SignPEP, SignUKEP
  <2> QED BY <2>2, <2>3, <2>4
<1>3. ASSUME NEW d \in Docs, NEW s \in DOMAIN Order, Advance(d, s) PROVE Inv'
  <2>1. TypeOK'
    BY <1>3 DEF Advance
  <2>2. EvidenceIsCurrent'
    BY <1>3, OrderValues DEF Advance
  <2>3. StatusIsBacked'
    BY <1>3, OrderValues DEF Advance
  <2> QED BY <2>1, <2>2, <2>3
<1>4. CASE UNCHANGED vars
  BY <1>4 DEF vars
<1> QED BY <1>1, <1>2, <1>3, <1>4 DEF Next

----------------------------------------------------------------------------
\* The three parts of the invariant hold in every behaviour: signatures are
\* over the frozen content and the status claims none that is missing (what
\* the order of SaveSignature and SaveStatus in ConfirmPEP and CompleteUKEP,
\* and the draft check of Upload, are for).
THEOREM LifecycleIsSound == Spec => [](TypeOK /\ EvidenceIsCurrent /\ StatusIsBacked)
<1>1. Init => Inv
  BY OrderValues DEF Init, Inv, TypeOK, EvidenceIsCurrent, StatusIsBacked
<1>2. Inv /\ [Next]_vars => Inv'
  BY LifecycleStep
<1>3. Inv => TypeOK /\ EvidenceIsCurrent /\ StatusIsBacked
  BY DEF Inv
<1> QED BY <1>1, <1>2, <1>3, PTL DEF Spec
============================================================================
