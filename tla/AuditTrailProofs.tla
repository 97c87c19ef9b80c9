-------------------------- MODULE AuditTrailProofs --------------------------
(***************************************************************************)
(* The audit trail for any processes, documents, events and faults.        *)
(*                                                                         *)
(* VerifiesPrefixesOfChains is about one state, but not about the state    *)
(* that TypeOK describes: it needs that every chain is linked from its     *)
(* first event in the order of the times (Linked), and that no two events  *)
(* have the same time (OnePerTime), so that a hash names one event.  Both  *)
(* hold of the chains of stopped processes too, whose rows are still read. *)
(***************************************************************************)
EXTENDS AuditTrail, WellFoundedInduction, TLAPS

\* The times of a chain increase and each event names the one before it.
Linked(c) ==
    /\ \A i \in 1 .. Len(c) : c[i].previous = IF i = 1 THEN 0 ELSE c[i - 1].at
    /\ \A i, j \in 1 .. Len(c) : i < j => c[i].at < c[j].at

OnePerTime == \A e, f \in Recorded : e.at = f.at => e = f

Inv ==
    /\ TypeOK
    /\ \A c \in Chains : Linked(c)
    /\ OnePerTime

----------------------------------------------------------------------------
(* Numbers.                                                                *)

\* A set of numbers has a least element.
LEMMA Least ==
    ASSUME NEW S \in SUBSET Nat, S # {}
    PROVE  \E m \in S : \A s \in S : m <= s
<1>1. IsWellFoundedOn(OpToRel(<, Nat), Nat)
  BY NatLessThanWellFounded
<1>2. PICK m \in S : \A y \in S : ~ (<<y, m>> \in OpToRel(<, Nat))
  BY <1>1, WFMin
<1>3. \A s \in S : ~ (s < m)
  BY <1>2 DEF OpToRel
<1> QED BY <1>3

\* A bounded set of numbers has a greatest element.
LEMMA Greatest ==
    ASSUME NEW S \in SUBSET Nat, S # {}, NEW b \in Nat, \A s \in S : s <= b
    PROVE  \E m \in S : \A s \in S : s <= m
<1> DEFINE T == {b - s : s \in S}
<1>1. \A s \in S : b - s \in Nat
  OBVIOUS
<1>2. T \in SUBSET Nat /\ T # {}
  BY <1>1, Zenon
<1>3. PICK t \in T : \A u \in T : t <= u
  BY <1>2, Least
<1>4. PICK m \in S : t = b - m
  OBVIOUS
<1>5. ASSUME NEW s \in S PROVE s <= m
  <2>1. b - s \in T
    OBVIOUS
  <2>2. b - m <= b - s
    BY <1>3, <1>4, <2>1
  <2> QED BY <2>2
<1> QED BY <1>5

----------------------------------------------------------------------------
(* Chains.                                                                 *)

\* The events of a chain are at times.
LEMMA EventAt ==
    /\ \A e \in Event : e.at \in Nat /\ e.at >= 1
    /\ \A c \in Seq(Event), i \in Nat : i \in 1 .. Len(c) => c[i] \in Event
<1>1. \A e \in Event : e.at \in Nat /\ e.at >= 1
  BY AuditBoundAssumption DEF Event, Times
<1>2. \A c \in Seq(Event), i \in Nat : i \in 1 .. Len(c) => c[i] \in Event
  OBVIOUS
<1> QED BY <1>1, <1>2

\* What auditLocked does to a chain.
LEMMA ExtendedChain ==
    ASSUME NEW c \in Seq(Event), NEW d \in Docs, NEW t \in Times, NEW f \in BOOLEAN
    PROVE  LET x == Extended(c, d, t, f)
           IN  /\ x \in Seq(Event) /\ Len(x) = Len(c) + 1 /\ x # <<>>
               /\ \A i \in 1 .. Len(c) : x[i] = c[i]
               /\ x[Len(x)].at = t /\ x[Len(x)].previous = LastHash(c)
               /\ Last(x) = x[Len(x)] /\ Last(x).at = t
               /\ ToSet(x) = ToSet(c) \cup {Last(x)}
<1> DEFINE e == [at |-> t, doc |-> d, previous |-> LastHash(c), fine |-> f]
           x == Extended(c, d, t, f)
<1>1. x = Append(c, e)
  BY DEF Extended
<1>2. LastHash(c) \in {0} \cup Times
  <2>1. CASE c = <<>>
    BY <2>1 DEF LastHash
  <2>2. CASE c # <<>>
    <3>1. c[Len(c)] \in Event
      BY <2>2
    <3> QED BY <2>2, <3>1 DEF LastHash, Last, Event
  <2> QED BY <2>1, <2>2
<1>3. e \in Event
  BY <1>2 DEF Event
<1>4. x \in Seq(Event) /\ Len(x) = Len(c) + 1 /\ x # <<>>
  BY <1>1, <1>3
<1>5. \A i \in 1 .. Len(c) : x[i] = c[i]
  BY <1>1, <1>3
<1>6. x[Len(x)] = e
  BY <1>1, <1>3
<1>7. Last(x) = e
  BY <1>6 DEF Last
<1>8. ToSet(x) = ToSet(c) \cup {Last(x)}
  <2>1. DOMAIN x = 1 .. (Len(c) + 1) /\ DOMAIN c = 1 .. Len(c)
    BY <1>4
  <2>2. ToSet(x) \subseteq ToSet(c) \cup {e}
    BY <1>4, <1>5, <1>6, <2>1 DEF ToSet
  <2>3. ToSet(c) \subseteq ToSet(x)
    BY <1>4, <1>5, <2>1 DEF ToSet
  <2>4. e \in ToSet(x)
    BY <1>4, <1>6, <2>1 DEF ToSet
  <2> QED BY <1>7, <2>2, <2>3, <2>4
<1> QED BY <1>4, <1>5, <1>6, <1>7, <1>8

\* A chain stays linked when the new event is later than its last one.
LEMMA ExtendedLinked ==
    ASSUME NEW c \in Seq(Event), NEW d \in Docs, NEW t \in Times, NEW f \in BOOLEAN,
           Linked(c), t > LastHash(c)
    PROVE  Linked(Extended(c, d, t, f))
<1> DEFINE x == Extended(c, d, t, f)
<1> HIDE DEF x
<1>1. /\ x \in Seq(Event) /\ Len(x) = Len(c) + 1
      /\ \A i \in 1 .. Len(c) : x[i] = c[i]
      /\ x[Len(x)].at = t /\ x[Len(x)].previous = LastHash(c)
  BY ExtendedChain DEF x
<1>2. LastHash(c) = IF Len(c) = 0 THEN 0 ELSE c[Len(c)].at
  BY DEF LastHash, Last
<1>3. t \in Nat /\ \A i \in 1 .. Len(c) : c[i].at \in Nat
  BY EventAt DEF Times
<1>4. ASSUME NEW i \in 1 .. Len(x) PROVE x[i].previous = IF i = 1 THEN 0 ELSE x[i - 1].at
  <2>1. CASE i = Len(x)
    <3>1. i # 1 => i - 1 = Len(c) /\ i - 1 \in 1 .. Len(c)
      BY <1>1, <2>1
    <3> QED BY <1>1, <1>2, <2>1, <3>1
  <2>2. CASE i # Len(x)
    <3>1. i \in 1 .. Len(c) /\ i # 1 => i - 1 \in 1 .. Len(c)
      BY <1>1, <2>2
    <3>2. i \in 1 .. Len(c)
      BY <1>1, <2>2
    <3> QED BY <1>1, <3>1, <3>2 DEF Linked
  <2> QED BY <2>1, <2>2
<1>5. ASSUME NEW i \in 1 .. Len(c) PROVE c[i].at < t
  <2>1. Len(c) \in 1 .. Len(c) /\ c[Len(c)].at < t
    BY <1>2
  <2>2. i = Len(c) \/ c[i].at < c[Len(c)].at
    BY <2>1 DEF Linked
  <2> QED BY <1>3, <2>1, <2>2
<1>6. ASSUME NEW i \in 1 .. Len(x), NEW j \in 1 .. Len(x), i < j PROVE x[i].at < x[j].at
  <2>1. i \in 1 .. Len(c) /\ x[i] = c[i]
    BY <1>1, <1>6
  <2>2. CASE j = Len(x)
    BY <1>1, <1>5, <2>1, <2>2
  <2>3. CASE j # Len(x)
    <3>1. j \in 1 .. Len(c) /\ x[j] = c[j]
      BY <1>1, <2>3
    <3> QED BY <1>6, <2>1, <3>1 DEF Linked
  <2> QED BY <2>2, <2>3
<1> QED BY <1>4, <1>6 DEF Linked, x

\* A process that extends its chain with events of unused times keeps what it and
\* the others have recorded, and the chains linked.
LEMMA ChainsGrow ==
    ASSUME Inv, NEW r \in Replicas, NEW n \in Seq(Event), Linked(n),
           ToSet(audit[r]) \subseteq ToSet(n),
           \A e \in ToSet(n) :
              e \in ToSet(audit[r]) \/ \A f \in Recorded : f.at # e.at,
           audit' = [audit EXCEPT ![r] = n], ended' = ended
    PROVE  /\ Recorded \subseteq Recorded'
           /\ \A c \in Chains' : Linked(c)
           /\ OnePerTime'
<1>1. audit \in [Replicas -> Seq(Event)]
  BY DEF Inv, TypeOK
<1>2. audit'[r] = n /\ \A q \in Replicas \ {r} : audit'[q] = audit[q]
  BY <1>1
<1>3. \A c \in Chains' : c \in Chains \/ c = n
  BY <1>2 DEF Chains
<1>4. \A c \in Chains : c \in Chains' \/ c = audit[r]
  BY <1>2 DEF Chains
<1>5. n \in Chains' /\ audit[r] \in Chains
  BY <1>2 DEF Chains
<1>6. Recorded \subseteq Recorded'
  BY <1>4, <1>5 DEF Recorded
<1>7. \A e \in Recorded' : e \in Recorded \/ e \in ToSet(n)
  BY <1>3 DEF Recorded
<1>8. ToSet(audit[r]) \subseteq Recorded
  BY <1>5 DEF Recorded
<1>9. \A e, f \in ToSet(n) : e.at = f.at => e = f
  <2>1. \A i \in 1 .. Len(n) : n[i].at \in Nat
    BY EventAt
  <2>2. \A i, j \in 1 .. Len(n) : n[i].at = n[j].at => i = j
    BY <2>1 DEF Linked
  <2>3. DOMAIN n = 1 .. Len(n)
    OBVIOUS
  <2> QED BY <2>2, <2>3 DEF ToSet
<1>10. OnePerTime'
  BY <1>7, <1>8, <1>9 DEF OnePerTime, Inv
<1> QED BY <1>3, <1>6, <1>10 DEF Inv

----------------------------------------------------------------------------
(* The steps.                                                              *)

\* The operations that record events keep the invariant.
LEMMA RecordKeepsInv ==
    ASSUME Inv, NEW r \in Replicas, Free(r),
           NEW n \in Seq(Event), n # <<>>, Linked(n),
           ToSet(audit[r]) \subseteq ToSet(n),
           \A e \in ToSet(n) :
              e \in ToSet(audit[r]) \/ \A f \in Recorded : f.at # e.at,
           audit' = [audit EXCEPT ![r] = n],
           docs' \in [Replicas -> SUBSET Docs],
           saving' = saving \/ saving' = [saving EXCEPT ![r] = {Last(audit'[r])}],
           UNCHANGED <<rows, ended, faults>>
    PROVE  Inv'
<1>1. audit \in [Replicas -> Seq(Event)] /\ audit'[r] = n
  BY DEF Inv, TypeOK
<1>2. /\ Recorded \subseteq Recorded'
      /\ \A c \in Chains' : Linked(c)
      /\ OnePerTime'
  BY ChainsGrow
<1>3. Last(n) \in Event
  BY DEF Last
<1>4. /\ saving' \in [Replicas -> SUBSET Event]
      /\ \A q \in Replicas : saving'[q] # {} =>
            audit'[q] # <<>> /\ saving'[q] = {Last(audit'[q])}
  <2>1. saving \in [Replicas -> SUBSET Event] /\ saving[r] = {}
    BY DEF Inv, TypeOK, Free
  <2>2. \A q \in Replicas : saving[q] # {} =>
           audit[q] # <<>> /\ saving[q] = {Last(audit[q])}
    BY DEF Inv, TypeOK
  <2>3. \A q \in Replicas : q # r => saving'[q] = saving[q] /\ audit'[q] = audit[q]
    BY <1>1, <2>1
  <2>4. saving'[r] = {} \/ saving'[r] = {Last(n)}
    BY <1>1, <2>1
  <2>5. {Last(n)} \in SUBSET Event
    BY <1>3
  <2>6. saving' \in [Replicas -> SUBSET Event]
    BY <1>1, <2>1, <2>5
  <2> QED BY <1>1, <2>2, <2>3, <2>4, <2>6
<1>5. TypeOK'
  BY <1>1, <1>2, <1>4 DEF Inv, TypeOK
<1> QED BY <1>2, <1>5 DEF Inv

\* An operation that records one event, of a time that nobody has used.
LEMMA RecordOneKeepsInv ==
    ASSUME Inv, NEW r \in Replicas, NEW d \in Docs, NEW t \in Times, NEW f \in BOOLEAN,
           Free(r), Later(r, t),
           audit' = [audit EXCEPT ![r] = Extended(@, d, t, f)],
           docs' \in [Replicas -> SUBSET Docs],
           saving' = saving \/ saving' = [saving EXCEPT ![r] = {Last(audit'[r])}],
           UNCHANGED <<rows, ended, faults>>
    PROVE  Inv'
<1> DEFINE n == Extended(audit[r], d, t, f)
<1> HIDE DEF n
<1>1. audit[r] \in Seq(Event) /\ Linked(audit[r])
  BY DEF Inv, TypeOK, Chains
<1>2. n \in Seq(Event) /\ n # <<>> /\ ToSet(n) = ToSet(audit[r]) \cup {Last(n)} /\ Last(n).at = t
  BY <1>1, ExtendedChain DEF n
<1>3. Linked(n)
  BY <1>1, ExtendedLinked DEF n, Later
<1>4. audit' = [audit EXCEPT ![r] = n]
  BY DEF n
<1>5. \A e \in ToSet(n) : e \in ToSet(audit[r]) \/ \A g \in Recorded : g.at # e.at
  BY <1>2 DEF Later
<1> QED BY <1>2, <1>3, <1>4, <1>5, RecordKeepsInv

\* ConfirmPEP records two.
LEMMA ConfirmKeepsInv ==
    ASSUME Inv, NEW r \in Replicas, NEW d \in Docs, NEW t \in Times, NEW u \in Times,
           NEW f \in BOOLEAN, ConfirmPEP(r, d, t, u, f)
    PROVE  Inv'
<1> DEFINE a == Extended(audit[r], d, t, FALSE)
           n == Extended(a, d, u, f)
<1>1. audit' = [audit EXCEPT ![r] = n]
  BY DEF ConfirmPEP
<1> HIDE DEF a
<1>2. audit[r] \in Seq(Event) /\ Linked(audit[r])
  BY DEF Inv, TypeOK, Chains
<1>3. /\ a \in Seq(Event) /\ a # <<>>
      /\ ToSet(a) = ToSet(audit[r]) \cup {Last(a)} /\ Last(a).at = t
  <2>1. FALSE \in BOOLEAN
    OBVIOUS
  <2> QED BY <1>2, <2>1, ExtendedChain, ZenonT(30) DEF a
<1>4. Linked(a)
  BY <1>2, ExtendedLinked DEF a, ConfirmPEP, Later
<1>5. u > LastHash(a)
  BY <1>3 DEF LastHash, ConfirmPEP, Times
<1> HIDE DEF n
<1>6. n \in Seq(Event) /\ n # <<>> /\ ToSet(n) = ToSet(a) \cup {Last(n)} /\ Last(n).at = u
  BY <1>3, ExtendedChain DEF n
<1>7. Linked(n)
  BY <1>3, <1>4, <1>5, ExtendedLinked DEF n
<1>8. \A e \in ToSet(n) : e \in ToSet(audit[r]) \/ \A g \in Recorded : g.at # e.at
  BY <1>3, <1>6 DEF ConfirmPEP, Later
<1>9. /\ Free(r) /\ docs' \in [Replicas -> SUBSET Docs]
      /\ saving' = [saving EXCEPT ![r] = {Last(audit'[r])}]
      /\ UNCHANGED <<rows, ended, faults>>
  BY DEF ConfirmPEP, Inv, TypeOK
<1> QED BY <1>1, <1>3, <1>6, <1>7, <1>8, <1>9, RecordKeepsInv

\* The event of an operation is saved or refused; the chain stays.
LEMMA SaveKeepsInv ==
    ASSUME Inv, NEW r \in Replicas, Save(r)
    PROVE  Inv'
<1>1. PICK e \in saving[r] : \E o \in Outcomes \cup {"refused"} :
         /\ rows' \in {rows, rows \cup {e}}
         /\ saving' = [saving EXCEPT ![r] = {}]
         /\ faults' = IF o \in {"failed", "lost"} THEN faults + 1 ELSE faults
         /\ UNCHANGED <<audit, docs, ended>>
  BY DEF Save
<1>2. faults' \in 0 .. MaxFaults
  BY <1>1, AuditBoundAssumption DEF Outcomes, Inv, TypeOK
<1>3. Recorded' = Recorded /\ Chains' = Chains
  BY <1>1 DEF Recorded, Chains
<1>4. e \in Recorded
  <2>1. audit[r] \in Seq(Event) /\ audit[r] # <<>> /\ e = Last(audit[r])
    BY DEF Inv, TypeOK
  <2>2. Len(audit[r]) \in DOMAIN audit[r]
    BY <2>1
  <2>3. e \in ToSet(audit[r])
    BY <2>1, <2>2 DEF Last, ToSet
  <2> QED BY <2>3 DEF Recorded, Chains
<1>5. /\ saving' \in [Replicas -> SUBSET Event]
      /\ \A q \in Replicas : saving'[q] # {} =>
            audit'[q] # <<>> /\ saving'[q] = {Last(audit'[q])}
  BY <1>1 DEF Inv, TypeOK
<1>6. TypeOK'
  BY <1>1, <1>2, <1>3, <1>4, <1>5 DEF Inv, TypeOK
<1> QED BY <1>3, <1>6 DEF Inv, OnePerTime

\* A process stops: what it recorded stays recorded.
LEMMA CrashKeepsInv ==
    ASSUME Inv, NEW r \in Replicas, Crash(r)
    PROVE  Inv'
<1>1. /\ audit' = [audit EXCEPT ![r] = <<>>]
      /\ ended' = ended \cup {audit[r]}
      /\ docs' = [docs EXCEPT ![r] = {}]
      /\ saving' = [saving EXCEPT ![r] = {}]
      /\ faults' = faults + 1 /\ faults < MaxFaults
      /\ UNCHANGED rows
  BY DEF Crash
<1>2. audit \in [Replicas -> Seq(Event)]
  BY DEF Inv, TypeOK
<1>3. audit'[r] = <<>> /\ \A q \in Replicas \ {r} : audit'[q] = audit[q]
  BY <1>1, <1>2
<1>4. Chains' = Chains \cup {<<>>}
  BY <1>1, <1>3 DEF Chains
<1>5. ToSet(<<>>) = {}
  BY DEF ToSet
<1>6. Recorded' = Recorded
  BY <1>4, <1>5 DEF Recorded
<1>7. \A c \in Chains' : Linked(c)
  <2>1. Linked(<<>>)
    BY DEF Linked
  <2> QED BY <1>4, <2>1 DEF Inv
<1>8. faults' \in 0 .. MaxFaults
  BY <1>1, AuditBoundAssumption DEF Inv, TypeOK
<1>9. /\ saving' \in [Replicas -> SUBSET Event]
      /\ \A q \in Replicas : saving'[q] # {} =>
            audit'[q] # <<>> /\ saving'[q] = {Last(audit'[q])}
  BY <1>1, <1>3 DEF Inv, TypeOK
<1>10. audit' \in [Replicas -> Seq(Event)] /\ ended' \subseteq Seq(Event)
  BY <1>1, <1>2 DEF Inv, TypeOK
<1>11. docs' \in [Replicas -> SUBSET Docs] /\ rows' \subseteq Recorded'
  BY <1>1, <1>6 DEF Inv, TypeOK
<1>12. TypeOK'
  BY <1>8, <1>9, <1>10, <1>11 DEF TypeOK
<1> QED BY <1>6, <1>7, <1>12 DEF Inv, OnePerTime

LEMMA InvStep == Inv /\ [Next]_vars => Inv'
<1> SUFFICES ASSUME Inv, [Next]_vars PROVE Inv'
  OBVIOUS
<1>1. ASSUME NEW r \in Replicas, NEW d \in Docs, NEW t \in Times, NEW f \in BOOLEAN,
             \/ CreateDocument(r, d, t, f)
             \/ ChangeDocument(r, d, t, f)
             \/ RequestPEP(r, d, t, f)
      PROVE Inv'
  <2>1. /\ Free(r) /\ Later(r, t)
        /\ audit' = [audit EXCEPT ![r] = Extended(@, d, t, f)]
        /\ docs' \in {docs, [docs EXCEPT ![r] = @ \cup {d}]}
        /\ saving' = saving \/ saving' = [saving EXCEPT ![r] = {Last(audit'[r])}]
        /\ UNCHANGED <<rows, ended, faults>>
    BY <1>1 DEF CreateDocument, ChangeDocument, RequestPEP
  <2>2. docs' \in [Replicas -> SUBSET Docs]
    BY <2>1 DEF Inv, TypeOK
  <2> QED BY <2>1, <2>2, RecordOneKeepsInv
<1>2. ASSUME NEW r \in Replicas, NEW d \in Docs, CacheDocument(r, d) PROVE Inv'
  <2>1. /\ docs' \in [Replicas -> SUBSET Docs]
        /\ UNCHANGED <<audit, saving, rows, ended, faults>>
    BY <1>2 DEF CacheDocument, Inv, TypeOK
  <2>2. Recorded' = Recorded /\ Chains' = Chains
    BY <2>1 DEF Recorded, Chains
  <2>3. TypeOK'
    BY <2>1, <2>2 DEF Inv, TypeOK
  <2> QED BY <2>2, <2>3 DEF Inv, OnePerTime
<1>3. CASE UNCHANGED vars
  <2>1. UNCHANGED <<audit, docs, saving, rows, ended, faults>>
    BY <1>3 DEF vars
  <2>2. Recorded' = Recorded /\ Chains' = Chains
    BY <2>1 DEF Recorded, Chains
  <2>3. TypeOK'
    BY <2>1, <2>2 DEF Inv, TypeOK
  <2> QED BY <2>2, <2>3 DEF Inv, OnePerTime
<1>4. \A f \in FineTimes : f \in BOOLEAN
  BY FineTimesAssumption
<1>5. ASSUME NEW r \in Replicas, NEW d \in Docs, NEW t \in Times, NEW f \in FineTimes,
             \/ CreateDocument(r, d, t, f)
             \/ ChangeDocument(r, d, t, f)
             \/ RequestPEP(r, d, t, f)
             \/ \E u \in Times : ConfirmPEP(r, d, t, u, f)
      PROVE Inv'
  BY <1>1, <1>4, <1>5, ConfirmKeepsInv, Zenon
<1>6. CASE Next
  BY <1>2, <1>5, <1>6, SaveKeepsInv, CrashKeepsInv, Zenon DEF Next
<1> QED BY <1>3, <1>6

LEMMA InvInit == Init => Inv
<1> SUFFICES ASSUME Init PROVE Inv
  OBVIOUS
<1>1. \A c \in Chains : c = <<>>
  BY DEF Init, Chains
<1>2. Recorded = {}
  BY <1>1 DEF Recorded, ToSet
<1>3. TypeOK
  BY <1>2, AuditBoundAssumption DEF Init, TypeOK
<1>4. Linked(<<>>)
  BY DEF Linked
<1> QED BY <1>1, <1>2, <1>3, <1>4 DEF Inv, OnePerTime

----------------------------------------------------------------------------
(* Reading the trail.                                                      *)

\* In a linked chain, the events before a later one are its first ones.
LEMMA FollowsInChain ==
    ASSUME Inv, NEW c \in Chains, NEW n \in 0 .. Len(c), NEW e \in FirstOf(c, n)
    PROVE  Follows(e, FirstOf(c, n))
<1>1. c \in Seq(Event) /\ Linked(c)
  BY DEF Inv, TypeOK, Chains
<1>2. PICK k \in 1 .. n : e = c[k]
  BY DEF FirstOf
<1>3. /\ \A i \in 1 .. n : i \in 1 .. Len(c) /\ c[i].at \in Nat
      /\ \A i, j \in 1 .. n : c[i].at < c[j].at <=> i < j
  <2>1. \A i \in 1 .. n : i \in 1 .. Len(c) /\ c[i].at \in Nat
    BY <1>1, EventAt
  <2>2. \A i, j \in 1 .. n : i < j => c[i].at < c[j].at
    BY <1>1, <2>1 DEF Linked
  <2>3. \A i, j \in 1 .. n : c[i].at < c[j].at => i < j
    <3>1. \A i, j \in 1 .. n : i < j \/ i = j \/ j < i
      OBVIOUS
    <3> QED BY <2>1, <2>2, <3>1
  <2> QED BY <2>1, <2>2, <2>3
<1> DEFINE earlier == {f.at : f \in {g \in FirstOf(c, n) : g.at < e.at}}
<1>4. earlier = {c[i].at : i \in 1 .. (k - 1)}
  <2>1. \A i \in 1 .. (k - 1) : i \in 1 .. n /\ i < k
    BY <1>2
  <2>2. \A i \in 1 .. n : i < k => i \in 1 .. (k - 1)
    BY <1>2
  <2>3. \A i \in 1 .. (k - 1) : c[i] \in FirstOf(c, n) /\ c[i].at < e.at
    BY <1>2, <1>3, <2>1 DEF FirstOf
  <2>4. \A g \in FirstOf(c, n) : g.at < e.at => \E i \in 1 .. (k - 1) : g = c[i]
    BY <1>2, <1>3, <2>2 DEF FirstOf
  <2> QED BY <2>3, <2>4
<1>5. e.previous = IF k = 1 THEN 0 ELSE c[k - 1].at
  BY <1>1, <1>2, <1>3 DEF Linked
<1>6. CASE k = 1
  <2>1. earlier = {}
    <3>1. \A i \in 1 .. (k - 1) : FALSE
      BY <1>6
    <3> QED BY <1>4, <3>1, Zenon
  <2> QED BY <1>5, <1>6, <2>1 DEF Follows
<1>7. CASE k # 1
  <2>1. k - 1 \in 1 .. (k - 1) /\ k - 1 \in 1 .. n
    BY <1>2, <1>7
  <2>2. c[k - 1].at \in earlier
    BY <1>4, <2>1
  <2>3. \A i \in 1 .. (k - 1) : c[i].at <= c[k - 1].at
    <3> TAKE i \in 1 .. (k - 1)
    <3>1. i \in 1 .. n /\ (i = k - 1 \/ i < k - 1)
      BY <1>2
    <3> QED BY <1>3, <2>1, <3>1
  <2>4. \A t \in earlier : t <= c[k - 1].at
    BY <1>4, <2>3
  <2> HIDE DEF earlier
  <2>5. earlier # {} /\ e.previous \in earlier /\ \A t \in earlier : t <= e.previous
    BY <1>5, <1>7, <2>2, <2>4
  <2> QED BY <2>5 DEF Follows, earlier
<1> QED BY <1>6, <1>7

\* A set of recorded events, each naming the one before it, is the beginning of the
\* chain in which its last event is.
LEMMA FollowingIsPrefix ==
    ASSUME Inv, NEW r \in Replicas, NEW events \in SUBSET Recorded,
           \A e \in events : Follows(e, events)
    PROVE  \E c \in Chains : \E n \in 0 .. Len(c) : events = FirstOf(c, n)
<1>1. \A e \in Recorded : e \in Event
  <2>1. \A c \in Chains : c \in Seq(Event)
    BY DEF Inv, TypeOK, Chains
  <2> QED BY <2>1 DEF Recorded, ToSet
<1>2. CASE events = {}
  <2>1. audit[r] \in Chains /\ 0 \in 0 .. Len(audit[r])
    BY DEF Chains, Inv, TypeOK
  <2>2. FirstOf(audit[r], 0) = {}
    BY DEF FirstOf
  <2> QED BY <1>2, <2>1, <2>2
<1>3. CASE events # {}
  <2>1. PICK m \in events : \A e \in events : e.at <= m.at
    <3> DEFINE T == {e.at : e \in events}
    <3>1. T \in SUBSET Nat /\ T # {} /\ \A t \in T : t <= MaxEvents
      BY <1>1, <1>3, EventAt DEF Event, Times
    <3>2. PICK t \in T : \A s \in T : s <= t
      BY <3>1, Greatest, AuditBoundAssumption
    <3> QED BY <3>2
  <2>2. PICK c \in Chains : m \in ToSet(c)
    BY DEF Recorded
  <2>3. c \in Seq(Event) /\ Linked(c)
    BY DEF Inv, TypeOK, Chains
  <2>4. PICK p \in 1 .. Len(c) : m = c[p]
    BY <2>2, <2>3 DEF ToSet
  <2>5. /\ \A i \in 1 .. p : i \in 1 .. Len(c) /\ c[i] \in Recorded /\ c[i].at \in Nat
        /\ \A i, j \in 1 .. p : i < j => c[i].at < c[j].at
    <3>1. \A i \in 1 .. p : i \in 1 .. Len(c) /\ i \in DOMAIN c
      BY <2>3
    <3>2. \A i \in 1 .. p : c[i] \in Recorded
      BY <3>1 DEF Recorded, ToSet
    <3>3. \A i \in 1 .. p : c[i].at \in Nat
      BY <1>1, <3>2, EventAt
    <3>4. \A i, j \in 1 .. p : i < j => c[i].at < c[j].at
      BY <2>3, <3>1 DEF Linked
    <3> QED BY <3>1, <3>2, <3>3, <3>4
  <2>6. ASSUME NEW i \in 1 .. p, i # 1, c[i] \in events PROVE c[i - 1] \in events
    <3>1. i - 1 \in 1 .. p
      BY <2>4, <2>6
    <3>2. c[i].previous = c[i - 1].at /\ c[i - 1].at # 0
      BY <2>3, <2>5, <2>6, <3>1, EventAt DEF Linked
    <3>3. PICK f \in events : f.at = c[i - 1].at
      BY <2>6, <3>2 DEF Follows
    <3> QED BY <2>5, <3>1, <3>3 DEF Inv, OnePerTime
  <2>7. FirstOf(c, p) \subseteq events
    <3> DEFINE U == {i \in 1 .. p : c[i] \notin events}
    <3>1. SUFFICES ASSUME U # {} PROVE FALSE
      BY DEF FirstOf
    <3>2. PICK q \in U : \A i \in U : i <= q
      <4>1. p \in Nat /\ U \in SUBSET Nat /\ \A i \in U : i <= p
        BY <2>3
      <4> HIDE DEF U
      <4> QED BY <3>1, <4>1, Greatest
    <3>3. q # p /\ q + 1 \in 1 .. p /\ q + 1 # 1
      BY <2>4
    <3>4. c[q + 1] \in events
      BY <3>2, <3>3
    <3> QED BY <2>6, <3>3, <3>4
  <2>8. events \subseteq FirstOf(c, p)
    <3> SUFFICES ASSUME NEW e \in events PROVE e \in FirstOf(c, p)
      OBVIOUS
    <3> DEFINE U == {i \in 1 .. p : c[i].at >= e.at}
    <3>1. U \in SUBSET Nat /\ p \in U
      BY <2>1, <2>4
    <3>2. PICK q \in U : \A i \in U : q <= i
      BY <3>1, Least
    <3>3. CASE c[q].at = e.at
      BY <2>5, <3>3 DEF FirstOf, Inv, OnePerTime
    <3>4. CASE c[q].at # e.at
      <4>1. e.at \in Nat /\ e.at >= 1 /\ e.at < c[q].at /\ c[q] \in events
        BY <1>1, <2>5, <2>7, <3>4, EventAt DEF FirstOf
      <4>2. e.at <= c[q].previous
        BY <4>1 DEF Follows
      <4>3. q # 1 => q - 1 \in 1 .. p
        OBVIOUS
      <4>4. q # 1 /\ c[q - 1].at >= e.at
        BY <2>3, <2>5, <4>1, <4>2 DEF Linked
      <4> QED BY <3>2, <4>3, <4>4
    <3> QED BY <3>3, <3>4
  <2>9. p \in 0 .. Len(c)
    BY <2>3
  <2>10. events = FirstOf(c, p)
    BY <2>7, <2>8
  <2> QED BY <2>9, <2>10, Zenon
<1> QED BY <1>2, <1>3

\* What the invariant says of a trail that can be read.
LEMMA InvVerifies == Inv => VerifiesPrefixesOfChains
<1> SUFFICES ASSUME Inv, NEW r \in Replicas, NEW d \in Docs
             PROVE  VerifyAudit(r, d) <=>
                       /\ \E c \in Chains : \E n \in 0 .. Len(c) : Listed(r, d) = FirstOf(c, n)
                       /\ \A e \in Listed(r, d) : HashHolds(r, d, e)
  BY DEF VerifiesPrefixesOfChains
<1>1. Listed(r, d) \subseteq Recorded
  BY DEF Listed, Recorded, Chains, Inv, TypeOK
<1>2. ASSUME \A e \in Listed(r, d) : Follows(e, Listed(r, d))
      PROVE  \E c \in Chains : \E n \in 0 .. Len(c) : Listed(r, d) = FirstOf(c, n)
  BY <1>1, <1>2, FollowingIsPrefix
<1>3. ASSUME NEW c \in Chains, NEW n \in 0 .. Len(c), Listed(r, d) = FirstOf(c, n),
             NEW e \in Listed(r, d)
      PROVE  Follows(e, Listed(r, d))
  BY <1>3, FollowsInChain
<1> QED BY <1>2, <1>3 DEF VerifyAudit

----------------------------------------------------------------------------
(* The theorems.                                                           *)

LEMMA SpecInv == Spec => []Inv
<1> QED BY InvInit, InvStep, PTL DEF Spec

\* The trail has its shape: every row was recorded by a process that was given the
\* time by auditLocked, and what Save is given is the last event of its chain.
THEOREM AuditTrailTypes == Spec => []TypeOK
<1>1. Inv => TypeOK
  BY DEF Inv
<1> QED BY SpecInv, <1>1, PTL

\* VerifyAudit confirms a trail exactly when it is, from the first event on and
\* without a gap, what one process recorded, each event with its whole time: so it
\* denies a trail that begins after an event of another document of that process.
THEOREM VerifiesOnlyPrefixes == Spec => []VerifiesPrefixesOfChains
<1> QED BY SpecInv, InvVerifies, PTL
=============================================================================
