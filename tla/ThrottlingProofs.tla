-------------------------- MODULE ThrottlingProofs --------------------------
(***************************************************************************)
(* The rate limiter and the wrong codes for any number of replicas,        *)
(* clients' keys, limits, codes and faults.                                *)
(*                                                                         *)
(* What the limiter promises of any minute is about the requests that it   *)
(* let through; WindowTells says what the window of a key tells of them,   *)
(* counting the one that a request would open now if the last is over, so  *)
(* that deleting windows that are over changes nothing.                    *)
(*                                                                         *)
(* The attempts in the row lag behind the wrong codes: by the UPDATEs that *)
(* have yet to run, one per replica at most, and by those that a fault     *)
(* kept from running.                                                      *)
(* MissesCounted says so while the code is alive; when it is void nothing  *)
(* is compared any more.                                                   *)
(***************************************************************************)
EXTENDS Throttling, FiniteSetTheorems, WellFoundedInduction, TLAPS

----------------------------------------------------------------------------
(* The rate limiter.                                                       *)

\* The last w.count requests were let through in this window, those before it
\* earlier, and all but limit of those more than a minute earlier.
WindowTells(w, log, limit) ==
    /\ w.count <= Len(log)
    /\ now <= w.reset /\ w.reset <= now + Minute
    /\ \A i \in 1 .. Len(log) :
          /\ log[i] <= now
          /\ Len(log) < i + w.count => w.reset <= log[i] + Minute
          /\ i + w.count <= Len(log) => log[i] + Minute < w.reset
          /\ i + w.count + limit <= Len(log) => log[i] + Minute + Minute < w.reset

\* Requests that are two limits apart are more than a minute apart.
Spread(log, limit) ==
    \A i, j \in 1 .. Len(log) : i + limit + limit <= j => log[i] + Minute < log[j]

RateInv ==
    /\ RateTypeOK
    /\ \A r \in Replicas : IsFiniteSet(Present(r))
    /\ \A r \in Replicas, k \in Keys :
          /\ WindowTells(CurrentWindow(r, k), accepted[r][k], Limit[k])
          /\ Spread(accepted[r][k], Limit[k])

LEMMA LogTimes ==
    /\ \A t \in Times : t \in Nat /\ t >= 1
    /\ \A s \in Seq(Times) : Len(s) \in Nat /\ \A i \in 1 .. Len(s) : s[i] \in Nat /\ s[i] >= 1
<1>1. \A t \in Times : t \in Nat /\ t >= 1
  BY TimeAssumption DEF Times
<1>2. \A s \in Seq(Times) : Len(s) \in Nat /\ \A i \in 1 .. Len(s) : s[i] \in Times
  OBVIOUS
<1> QED BY <1>1, <1>2

\* The windows of a replica after the deletion, and the window of a request, are
\* windows that count no more than the limit.
LEMMA WindowTypes ==
    ASSUME RateTypeOK, NEW r \in Replicas
    PROVE  /\ Purged(r) \in [Keys -> Window]
           /\ \A k \in Keys : Purged(r)[k].count <= Limit[k]
           /\ \A k \in Keys :
                 CurrentWindow(r, k) \in Window /\ CurrentWindow(r, k).count <= Limit[k]
<1> USE RateAssumption, TimeAssumption DEF RateTypeOK, Window, Times
<1>1. NoEntry \in Window /\ \A k \in Keys : NoEntry.count <= Limit[k]
  BY DEF NoEntry
<1>2. Purged(r) \in [Keys -> Window] /\ \A k \in Keys : Purged(r)[k].count <= Limit[k]
  BY <1>1 DEF Purged
<1>3. ASSUME NEW k \in Keys
      PROVE  CurrentWindow(r, k) \in Window /\ CurrentWindow(r, k).count <= Limit[k]
  BY <1>3 DEF CurrentWindow
<1> QED BY <1>2, <1>3

\* A request that is let through keeps its window within the limit.
LEMMA AcceptKeeps ==
    ASSUME RateTypeOK, NEW r \in Replicas, NEW k \in Keys, Accept(r, k)
    PROVE  RateTypeOK'
<1> DEFINE e == [CurrentWindow(r, k) EXCEPT !.count = @ + 1]
           table == [Purged(r) EXCEPT ![k] = e]
<1>1. /\ CurrentWindow(r, k) \in Window /\ CurrentWindow(r, k).count < Limit[k]
      /\ entries' = [entries EXCEPT ![r] = table]
      /\ accepted' = [accepted EXCEPT ![r][k] = Append(@, now)]
      /\ now' = now
  BY WindowTypes DEF Accept
<1>2. e \in Window /\ e.count <= Limit[k]
  BY <1>1, RateAssumption DEF Window
<1>3. table \in [Keys -> Window] /\ \A x \in Keys : table[x].count <= Limit[x]
  BY <1>2, WindowTypes
<1>4. /\ entries' \in [Replicas -> [Keys -> Window]]
      /\ \A q \in Replicas, x \in Keys : entries'[q][x].count <= Limit[x]
  BY <1>1, <1>3 DEF RateTypeOK
<1>5. accepted' \in [Replicas -> [Keys -> Seq(Times)]]
  BY <1>1 DEF RateTypeOK
<1> QED BY <1>1, <1>4, <1>5 DEF RateTypeOK

\* A request that is refused is not counted.
LEMMA RefuseKeeps ==
    ASSUME RateTypeOK, NEW r \in Replicas, NEW k \in Keys, Refuse(r, k)
    PROVE  RateTypeOK'
<1> DEFINE table == [Purged(r) EXCEPT ![k] = CurrentWindow(r, k)]
<1>1. /\ entries' = [entries EXCEPT ![r] = table]
      /\ UNCHANGED <<now, accepted>>
  BY DEF Refuse
<1>2. table \in [Keys -> Window] /\ \A x \in Keys : table[x].count <= Limit[x]
  BY WindowTypes
<1> QED BY <1>1, <1>2 DEF RateTypeOK

\* A process starts with an empty table.
LEMMA RestartKeeps ==
    ASSUME RateTypeOK, NEW r \in Replicas, Restart(r)
    PROVE  RateTypeOK'
<1>1. /\ entries' = [entries EXCEPT ![r] = [k \in Keys |-> NoEntry]]
      /\ accepted' = [accepted EXCEPT ![r] = [k \in Keys |-> <<>>]]
      /\ now' = now
  BY DEF Restart
<1>2. /\ [k \in Keys |-> NoEntry] \in [Keys -> Window]
      /\ \A k \in Keys : NoEntry.count <= Limit[k]
  BY RateAssumption DEF NoEntry, Window
<1>3. [k \in Keys |-> <<>>] \in [Keys -> Seq(Times)]
  OBVIOUS
<1>4. accepted' \in [Replicas -> [Keys -> Seq(Times)]]
  BY <1>1, <1>3 DEF RateTypeOK
<1>5. /\ entries' \in [Replicas -> [Keys -> Window]]
      /\ \A q \in Replicas, k \in Keys : entries'[q][k].count <= Limit[k]
  BY <1>1, <1>2 DEF RateTypeOK
<1> QED BY <1>1, <1>4, <1>5 DEF RateTypeOK

\* A request changes the window of its key and no other.
LEMMA OtherWindowsStay ==
    ASSUME RateTypeOK, NEW r \in Replicas, NEW k \in Keys, NEW w \in Window,
           entries' = [entries EXCEPT ![r] = [Purged(r) EXCEPT ![k] = w]],
           now' = now, now <= w.reset
    PROVE  /\ CurrentWindow(r, k)' = w
           /\ \A q \in Replicas, x \in Keys :
                 <<q, x>> # <<r, k>> => CurrentWindow(q, x)' = CurrentWindow(q, x)
<1>1. entries \in [Replicas -> [Keys -> Window]] /\ now \in Nat /\ now >= 1
  BY TimeAssumption DEF RateTypeOK, Times
<1>2. entries'[r][k] = w
  BY <1>1 DEF Purged
<1>3. CurrentWindow(r, k)' = w
  BY <1>1, <1>2 DEF CurrentWindow, Over, Window
<1>4. ASSUME NEW q \in Replicas, NEW x \in Keys, q # r
      PROVE  CurrentWindow(q, x)' = CurrentWindow(q, x)
  <2>1. entries'[q] = entries[q]
    BY <1>1, <1>4
  <2>2. entries'[q][x] = entries[q][x]
    BY <2>1
  <2> QED BY <2>2, SMT DEF CurrentWindow, Over
<1>5. ASSUME NEW x \in Keys, x # k
      PROVE  CurrentWindow(r, x)' = CurrentWindow(r, x)
  <2>1. entries'[r][x] = entries[r][x] \/ (entries'[r][x] = NoEntry /\ Over(entries[r][x]))
    BY <1>1, <1>5 DEF Purged
  <2>2. Over(NoEntry)
    BY <1>1 DEF Over, NoEntry
  <2> QED BY <2>1, <2>2 DEF CurrentWindow, Over
<1> QED BY <1>3, <1>4, <1>5

\* A request adds one entry at most.
LEMMA PresentGrows ==
    ASSUME RateTypeOK, NEW r \in Replicas, NEW k \in Keys, NEW w \in Window,
           entries' = [entries EXCEPT ![r] = [Purged(r) EXCEPT ![k] = w]]
    PROVE  /\ Present(r)' \subseteq Present(r) \cup {k}
           /\ \A q \in Replicas : q # r => Present(q)' = Present(q)
<1>1. entries \in [Replicas -> [Keys -> Window]]
  BY DEF RateTypeOK
<1>2. \A x \in Keys : x # k => entries'[r][x] \in {entries[r][x], NoEntry}
  BY <1>1 DEF Purged
<1> QED BY <1>1, <1>2 DEF Present

LEMMA PresentStaysFinite ==
    ASSUME RateInv, NEW r \in Replicas, NEW k \in Keys, NEW w \in Window,
           entries' = [entries EXCEPT ![r] = [Purged(r) EXCEPT ![k] = w]]
    PROVE  \A q \in Replicas : IsFiniteSet(Present(q)')
<1>1. IsFiniteSet(Present(r) \cup {k})
  BY FS_AddElement DEF RateInv
<1>2. IsFiniteSet(Present(r)')
  BY <1>1, PresentGrows, FS_Subset DEF RateInv
<1> QED BY <1>2, PresentGrows DEF RateInv

\* What the window tells once the request is let through.
LEMMA AcceptedWindow ==
    ASSUME NEW w \in Window, NEW log \in Seq(Times), NEW limit \in Nat, now \in Times,
           WindowTells(w, log, limit), Spread(log, limit), w.count < limit
    PROVE  /\ WindowTells([w EXCEPT !.count = @ + 1], Append(log, now), limit)
           /\ Spread(Append(log, now), limit)
<1> DEFINE new == Append(log, now)
           v == [w EXCEPT !.count = @ + 1]
<1>1. /\ Len(new) = Len(log) + 1 /\ new[Len(log) + 1] = now
      /\ \A i \in 1 .. Len(log) : new[i] = log[i]
      /\ Len(log) \in Nat
  OBVIOUS
<1>2. v.count = w.count + 1 /\ v.reset = w.reset /\ w.count \in Nat /\ w.reset \in Nat
  BY DEF Window
<1>3. now \in Nat /\ Minute \in Nat /\ \A i \in 1 .. Len(log) : log[i] \in Nat
  BY TimeAssumption DEF Times
<1> HIDE DEF new, v
<1>4. ASSUME NEW i \in 1 .. Len(new)
      PROVE  /\ new[i] <= now
             /\ Len(new) < i + v.count => v.reset <= new[i] + Minute
             /\ i + v.count <= Len(new) => new[i] + Minute < v.reset
             /\ i + v.count + limit <= Len(new) => new[i] + Minute + Minute < v.reset
  <2>1. CASE i = Len(log) + 1
    BY <1>1, <1>2, <1>3, <2>1 DEF WindowTells
  <2>2. CASE i # Len(log) + 1
    <3>1. i \in 1 .. Len(log) /\ new[i] = log[i]
      BY <1>1, <2>2
    <3> QED BY <1>1, <1>2, <3>1 DEF WindowTells
  <2> QED BY <2>1, <2>2
<1>5. WindowTells(v, new, limit)
  BY <1>1, <1>2, <1>4 DEF WindowTells
<1>6. ASSUME NEW i \in 1 .. Len(new), NEW j \in 1 .. Len(new), i + limit + limit <= j
      PROVE  new[i] + Minute < new[j]
  <2>1. CASE j = Len(log) + 1
    <3>1. i \in 1 .. Len(log) /\ i + w.count + limit <= Len(log)
      BY <1>1, <1>2, <1>6, <2>1
    <3>2. log[i] + Minute + Minute < w.reset /\ w.reset <= now + Minute
      BY <3>1 DEF WindowTells
    <3> QED BY <1>1, <1>2, <1>3, <2>1, <3>1, <3>2
  <2>2. CASE j # Len(log) + 1
    <3>1. i \in 1 .. Len(log) /\ j \in 1 .. Len(log)
      BY <1>1, <1>6, <2>2
    <3> QED BY <1>1, <1>6, <3>1 DEF Spread
  <2> QED BY <2>1, <2>2
<1>7. Spread(new, limit)
  BY <1>6 DEF Spread
<1> QED BY <1>5, <1>7 DEF new, v

\* What is left of the invariant to show of a request of replica r and key k, when w
\* is its window and log what was let through afterwards.
LEMMA RequestKeepsRateInv ==
    ASSUME RateInv, NEW r \in Replicas, NEW k \in Keys, NEW w \in Window,
           NEW log \in Seq(Times), RateTypeOK',
           entries' = [entries EXCEPT ![r] = [Purged(r) EXCEPT ![k] = w]],
           accepted' = [accepted EXCEPT ![r][k] = log],
           now' = now, WindowTells(w, log, Limit[k]), Spread(log, Limit[k])
    PROVE  RateInv'
<1>1. RateTypeOK /\ accepted \in [Replicas -> [Keys -> Seq(Times)]]
  BY DEF RateInv, RateTypeOK
<1>2. now <= w.reset
  BY DEF WindowTells
<1>3. /\ CurrentWindow(r, k)' = w
      /\ \A q \in Replicas, x \in Keys :
            <<q, x>> # <<r, k>> => CurrentWindow(q, x)' = CurrentWindow(q, x)
  BY <1>1, <1>2, OtherWindowsStay
<1>4. /\ accepted'[r][k] = log
      /\ \A q \in Replicas, x \in Keys :
            <<q, x>> # <<r, k>> => accepted'[q][x] = accepted[q][x]
  BY <1>1
<1>5. ASSUME NEW q \in Replicas, NEW x \in Keys
      PROVE  /\ WindowTells(CurrentWindow(q, x), accepted[q][x], Limit[x])'
             /\ Spread(accepted[q][x], Limit[x])'
  <2>1. CASE <<q, x>> = <<r, k>>
    BY <1>3, <1>4, <2>1 DEF WindowTells, Spread
  <2>2. CASE <<q, x>> # <<r, k>>
    <3>1. /\ CurrentWindow(q, x)' = CurrentWindow(q, x)
          /\ accepted'[q][x] = accepted[q][x]
      BY <1>3, <1>4, <2>2
    <3>2. /\ WindowTells(CurrentWindow(q, x), accepted[q][x], Limit[x])
          /\ Spread(accepted[q][x], Limit[x])
      BY DEF RateInv
    <3> QED BY <3>1, <3>2 DEF WindowTells, Spread
  <2> QED BY <2>1, <2>2
<1>6. \A q \in Replicas : IsFiniteSet(Present(q)')
  BY PresentStaysFinite
<1> QED BY <1>5, <1>6 DEF RateInv

LEMMA AcceptKeepsRateInv ==
    ASSUME RateInv, NEW r \in Replicas, NEW k \in Keys, Accept(r, k)
    PROVE  RateInv'
<1> DEFINE e == CurrentWindow(r, k)
           w == [e EXCEPT !.count = @ + 1]
           log == Append(accepted[r][k], now)
<1>1. RateTypeOK /\ RateTypeOK'
  BY AcceptKeeps DEF RateInv
<1>2. /\ e \in Window /\ e.count < Limit[k]
      /\ entries' = [entries EXCEPT ![r] = [Purged(r) EXCEPT ![k] = w]]
      /\ accepted' = [accepted EXCEPT ![r][k] = log]
      /\ now' = now
  BY <1>1, WindowTypes DEF Accept
<1>3. w \in Window /\ accepted[r][k] \in Seq(Times) /\ now \in Times /\ Limit[k] \in Nat
  BY <1>1, <1>2, RateAssumption DEF RateTypeOK, Window
<1>4. log \in Seq(Times)
  BY <1>3
<1>5. WindowTells(e, accepted[r][k], Limit[k]) /\ Spread(accepted[r][k], Limit[k])
  BY DEF RateInv
<1> HIDE DEF e
<1>6. WindowTells(w, log, Limit[k]) /\ Spread(log, Limit[k])
  BY <1>2, <1>3, <1>5, AcceptedWindow
<1> HIDE DEF w, log
<1> QED BY <1>1, <1>2, <1>3, <1>4, <1>6, RequestKeepsRateInv

LEMMA RefuseKeepsRateInv ==
    ASSUME RateInv, NEW r \in Replicas, NEW k \in Keys, Refuse(r, k)
    PROVE  RateInv'
<1> DEFINE w == CurrentWindow(r, k)
           log == accepted[r][k]
<1>1. RateTypeOK /\ RateTypeOK'
  BY RefuseKeeps DEF RateInv
<1>2. /\ entries' = [entries EXCEPT ![r] = [Purged(r) EXCEPT ![k] = w]]
      /\ now' = now /\ accepted' = accepted
  BY DEF Refuse
<1>3. w \in Window /\ log \in Seq(Times)
  BY <1>1, WindowTypes DEF RateTypeOK
<1>4. accepted' = [accepted EXCEPT ![r][k] = log]
  BY <1>1, <1>2 DEF RateTypeOK
<1>5. WindowTells(w, log, Limit[k]) /\ Spread(log, Limit[k])
  BY DEF RateInv
<1> HIDE DEF w, log
<1> QED BY <1>1, <1>2, <1>3, <1>4, <1>5, RequestKeepsRateInv

\* When a window ends, all that was let through so far is in the past of the next.
LEMMA TickKeepsRateInv ==
    ASSUME RateInv, Tick
    PROVE  RateInv'
<1>1. entries' = entries /\ accepted' = accepted /\ now' = now + 1 /\ now < MaxTime
  BY DEF Tick
<1>2. RateTypeOK /\ RateTypeOK'
  BY <1>1, TimeAssumption DEF RateInv, RateTypeOK, Times
<1>3. ASSUME NEW r \in Replicas, NEW k \in Keys
      PROVE  WindowTells(CurrentWindow(r, k), accepted[r][k], Limit[k])'
  <2> DEFINE e == entries[r][k]
             w == CurrentWindow(r, k)
             log == accepted[r][k]
  <2>1. /\ e \in Window /\ log \in Seq(Times) /\ now \in Nat /\ Minute \in Nat
        /\ Limit[k] \in Nat
    BY <1>2, RateAssumption, TimeAssumption DEF RateTypeOK, Times
  <2>2. e.count \in Nat /\ e.reset \in Nat /\ e.count <= Limit[k]
    BY <1>2, <2>1 DEF Window, RateTypeOK
  <2>3. Len(log) \in Nat /\ \A i \in 1 .. Len(log) : log[i] \in Nat
    BY <2>1, LogTimes
  <2>4. WindowTells(w, log, Limit[k])
    BY DEF RateInv
  <2>5. w' = IF e.reset < now + 1 THEN [count |-> 0, reset |-> now + 1 + Minute] ELSE e
    BY <1>1 DEF CurrentWindow, Over
  <2>6. w = IF e.reset < now THEN [count |-> 0, reset |-> now + Minute] ELSE e
    BY DEF CurrentWindow, Over
  <2>7. log' = log
    BY <1>1
  <2> HIDE DEF e, w, log
  <2>8. CASE e.reset < now
    <3>1. w.count = 0 /\ w.reset = now + Minute /\ w'.count = 0 /\ w'.reset = now + 1 + Minute
      BY <2>1, <2>2, <2>5, <2>6, <2>8
    <3>2. WindowTells(w, log, Limit[k])'
      BY <1>1, <2>1, <2>3, <2>4, <2>7, <3>1 DEF WindowTells
    <3> QED BY <3>2 DEF w, log
  <2>9. CASE e.reset = now
    <3>1. w = e /\ w'.count = 0 /\ w'.reset = now + 1 + Minute
      BY <2>1, <2>2, <2>5, <2>6, <2>9
    <3>2. ASSUME NEW i \in 1 .. Len(log)
          PROVE  /\ log[i] \in Nat /\ log[i] <= now
                 /\ i + Limit[k] <= Len(log) => log[i] + Minute < now
      <4>1. /\ log[i] <= now
            /\ i + e.count <= Len(log) => log[i] + Minute < e.reset
        BY <2>4, <3>1 DEF WindowTells
      <4>2. i \in Nat /\ log[i] \in Nat
        BY <2>3
      <4> QED BY <2>1, <2>2, <2>3, <2>9, <4>1, <4>2
    <3>3. ASSUME NEW i \in 1 .. Len(log)
          PROVE  /\ log[i] <= now + 1
                 /\ ~ (Len(log) < i + 0)
                 /\ log[i] + Minute < now + 1 + Minute
                 /\ i + 0 + Limit[k] <= Len(log) => log[i] + Minute + Minute < now + 1 + Minute
      <4>1. i \in Nat /\ i <= Len(log)
        BY <2>3
      <4> QED BY <2>1, <2>3, <3>2, <4>1
    <3>4. WindowTells(w, log, Limit[k])'
      BY <1>1, <2>1, <2>3, <2>7, <3>1, <3>3 DEF WindowTells
    <3> QED BY <3>4 DEF w, log
  <2>10. CASE e.reset > now
    <3>1. w = e /\ w' = e
      BY <2>1, <2>2, <2>5, <2>6, <2>10
    <3>2. WindowTells(w, log, Limit[k])'
      BY <1>1, <2>1, <2>2, <2>3, <2>4, <2>7, <2>10, <3>1 DEF WindowTells
    <3> QED BY <3>2 DEF w, log
  <2> QED BY <2>1, <2>2, <2>8, <2>9, <2>10
<1> QED BY <1>1, <1>2, <1>3 DEF RateInv, Present, Spread

\* A process starts without windows, and has let nothing through.
LEMMA NewProcess ==
    ASSUME NEW k \in Keys, now \in Times
    PROVE  LET fresh == [count |-> 0, reset |-> now + Minute]
           IN  /\ Over(NoEntry)
               /\ WindowTells(fresh, <<>>, Limit[k]) /\ Spread(<<>>, Limit[k])
<1>1. now \in Nat /\ now >= 1 /\ Minute \in Nat
  BY TimeAssumption DEF Times
<1>2. Len(<<>>) = 0
  OBVIOUS
<1> QED BY <1>1, <1>2 DEF Over, NoEntry, WindowTells, Spread

LEMMA RestartKeepsRateInv ==
    ASSUME RateInv, NEW r \in Replicas, Restart(r)
    PROVE  RateInv'
<1>1. /\ entries' = [entries EXCEPT ![r] = [k \in Keys |-> NoEntry]]
      /\ accepted' = [accepted EXCEPT ![r] = [k \in Keys |-> <<>>]]
      /\ now' = now
  BY DEF Restart
<1>2. RateTypeOK
  BY DEF RateInv
<1>3. RateTypeOK'
  BY <1>2, RestartKeeps
<1>4. \A q \in Replicas : IsFiniteSet(Present(q)')
  <2>1. Present(r)' = {}
    BY <1>1, <1>2 DEF Present, RateTypeOK
  <2>2. \A q \in Replicas : q # r => Present(q)' = Present(q)
    BY <1>1, <1>2 DEF Present, RateTypeOK
  <2> QED BY <2>1, <2>2, FS_EmptySet DEF RateInv
<1>5. ASSUME NEW q \in Replicas, NEW k \in Keys
      PROVE  /\ WindowTells(CurrentWindow(q, k), accepted[q][k], Limit[k])'
             /\ Spread(accepted[q][k], Limit[k])'
  <2>1. CASE q = r
    <3>1. entries'[q][k] = NoEntry /\ accepted'[q][k] = <<>> /\ now' = now /\ now \in Times
      BY <1>1, <1>2, <2>1 DEF RateTypeOK
    <3>2. Over(NoEntry)' = Over(NoEntry)
      BY <3>1 DEF Over
    <3>3. CurrentWindow(q, k)' = [count |-> 0, reset |-> now + Minute]
      BY <3>1, <3>2, NewProcess DEF CurrentWindow
    <3> QED BY <3>1, <3>3, NewProcess DEF WindowTells, Spread
  <2>2. CASE q # r
    <3>1. entries'[q][k] = entries[q][k] /\ accepted'[q][k] = accepted[q][k] /\ now' = now
      BY <1>1, <1>2, <2>2 DEF RateTypeOK
    <3>2. CurrentWindow(q, k)' = CurrentWindow(q, k)
      BY <3>1 DEF CurrentWindow, Over
    <3>3. /\ WindowTells(CurrentWindow(q, k), accepted[q][k], Limit[k])
          /\ Spread(accepted[q][k], Limit[k])
      BY DEF RateInv
    <3> QED BY <3>1, <3>2, <3>3 DEF WindowTells, Spread
  <2> QED BY <2>1, <2>2
<1> QED BY <1>3, <1>4, <1>5 DEF RateInv

LEMMA RateInvStep == RateInv /\ [RateNext]_rateVars => RateInv'
<1> SUFFICES ASSUME RateInv, [RateNext]_rateVars PROVE RateInv'
  OBVIOUS
<1>1. CASE UNCHANGED rateVars
  BY <1>1 DEF rateVars, RateInv, RateTypeOK, Times, Present, Spread, WindowTells,
              CurrentWindow, Over
<1> QED BY <1>1, AcceptKeepsRateInv, RefuseKeepsRateInv, RestartKeepsRateInv, TickKeepsRateInv
        DEF RateNext

LEMMA RateInvInit == RateInit => RateInv
<1> SUFFICES ASSUME RateInit PROVE RateInv
  OBVIOUS
<1>1. RateTypeOK
  BY RateAssumption, TimeAssumption DEF RateInit, RateTypeOK, NoEntry, Window, Times
<1>2. \A r \in Replicas : Present(r) = {}
  BY DEF RateInit, Present
<1>3. ASSUME NEW r \in Replicas, NEW k \in Keys
      PROVE  /\ WindowTells(CurrentWindow(r, k), accepted[r][k], Limit[k])
             /\ Spread(accepted[r][k], Limit[k])
  <2>1. /\ CurrentWindow(r, k) = [count |-> 0, reset |-> 1 + Minute]
        /\ accepted[r][k] = <<>> /\ now = 1
    BY DEF RateInit, CurrentWindow, Over, NoEntry
  <2>2. Len(<<>>) = 0
    OBVIOUS
  <2> QED BY <2>1, <2>2, TimeAssumption DEF WindowTells, Spread
<1> QED BY <1>1, <1>2, <1>3, FS_EmptySet DEF RateInv

\* A set of numbers has a least element.
LEMMA Least ==
    ASSUME NEW S \in SUBSET Nat, S # {}
    PROVE  \E m \in S : \A s \in S : m <= s
<1>1. IsWellFoundedOn(OpToRel(<, Nat), Nat)
  BY NatLessThanWellFounded
<1>2. PICK m \in S : \A y \in S : ~ (<<y, m>> \in OpToRel(<, Nat))
  BY <1>1, WFMin
<1>3. \A s \in S : ~ (s < m)
  BY <1>2 DEF OpToRel
<1> QED BY <1>3

\* What the windows tell of any minute: of the requests let through from the first of
\* them, the one that is two limits later is more than a minute later.
LEMMA RateInvTwoWindows == RateInv => AtMostTwoWindows
<1> SUFFICES ASSUME RateInv, NEW r \in Replicas, NEW k \in Keys, NEW t \in Times
             PROVE  AcceptedBetween(r, k, t, t + Minute) <= 2 * Limit[k]
  BY DEF AtMostTwoWindows
<1> DEFINE log == accepted[r][k]
           S == {i \in DOMAIN log : log[i] \in t .. (t + Minute)}
<1>1. /\ log \in Seq(Times) /\ t \in Nat /\ Minute \in Nat /\ Limit[k] \in Nat
      /\ Spread(log, Limit[k])
  BY RateAssumption, TimeAssumption DEF RateInv, RateTypeOK, Times
<1> HIDE DEF log
<1>2. DOMAIN log = 1 .. Len(log) /\ Len(log) \in Nat
  BY <1>1
<1>3. CASE S = {}
  <2>1. Cardinality(S) = 0
    BY <1>3, FS_EmptySet
  <2> QED BY <1>1, <2>1 DEF AcceptedBetween, log
<1>4. CASE S # {}
  <2>1. S \in SUBSET Nat
    BY <1>2
  <2>2. PICK m \in S : \A i \in S : m <= i
    BY <1>4, <2>1, Least
  <2> DEFINE last == m + Limit[k] + Limit[k] - 1
  <2>3. S \subseteq m .. last
    <3> SUFFICES ASSUME NEW i \in S PROVE i \in m .. last
      OBVIOUS
    <3>1. m \in 1 .. Len(log) /\ i \in 1 .. Len(log) /\ m <= i
      BY <1>2, <2>2
    <3>2. log[m] >= t /\ log[i] <= t + Minute /\ log[m] \in Nat /\ log[i] \in Nat
      BY <1>1
    <3>3. ~ (m + Limit[k] + Limit[k] <= i)
      BY <1>1, <3>1, <3>2 DEF Spread
    <3> QED BY <1>1, <3>1, <3>3
  <2>4. m \in Int /\ last \in Int /\ m <= last + 1
    BY <1>1, <2>1
  <2>5. IsFiniteSet(m .. last) /\ Cardinality(m .. last) = Limit[k] + Limit[k]
    <3>1. /\ IsFiniteSet(m .. last)
          /\ Cardinality(m .. last) = IF m > last THEN 0 ELSE last - m + 1
      BY <2>4, FS_Interval
    <3> QED BY <1>1, <2>4, <3>1, SMTT(20)
  <2>6. Cardinality(S) <= Cardinality(m .. last)
    BY <2>3, <2>5, FS_Subset
  <2> QED BY <1>1, <2>5, <2>6 DEF AcceptedBetween, log
<1> QED BY <1>3, <1>4

\* A full window was filled in this minute.
LEMMA RateInvEarned == RateInv => RefusalsAreEarned
<1> DEFINE from == IF now > Minute THEN now - Minute ELSE 1
<1> SUFFICES ASSUME RateInv, NEW r \in Replicas, NEW k \in Keys,
                    CurrentWindow(r, k).count >= Limit[k]
             PROVE  AcceptedBetween(r, k, from, now) >= Limit[k]
  BY DEF RefusalsAreEarned
<1> DEFINE log == accepted[r][k]
           w == CurrentWindow(r, k)
           S == {i \in DOMAIN log : log[i] \in from .. now}
           T == (Len(log) - w.count + 1) .. Len(log)
<1>1. /\ log \in Seq(Times) /\ now \in Nat /\ Minute \in Nat /\ Limit[k] \in Nat
      /\ w.count \in Nat /\ w.reset \in Nat /\ w.count >= Limit[k]
      /\ WindowTells(w, log, Limit[k])
  BY RateAssumption, TimeAssumption, WindowTypes DEF RateInv, RateTypeOK, Times, Window
<1> HIDE DEF log, w
<1>2. DOMAIN log = 1 .. Len(log) /\ Len(log) \in Nat
  BY <1>1
<1>3. \A i \in 1 .. Len(log) : log[i] \in Nat /\ log[i] >= 1
  BY <1>1, LogTimes
<1>4. T \subseteq S
  <2> SUFFICES ASSUME NEW i \in T PROVE i \in S
    OBVIOUS
  <2>1. i \in 1 .. Len(log) /\ Len(log) < i + w.count
    BY <1>1, <1>2 DEF WindowTells
  <2>2. now <= w.reset /\ w.reset <= log[i] + Minute /\ log[i] <= now
    BY <1>1, <2>1 DEF WindowTells
  <2> QED BY <1>1, <1>2, <1>3, <2>1, <2>2
<1>5. IsFiniteSet(S)
  <2>1. IsFiniteSet(1 .. Len(log))
    BY <1>2, FS_Interval
  <2> QED BY <1>2, <2>1, FS_Subset
<1>6. Cardinality(T) = w.count
  <2>1. Len(log) - w.count + 1 \in Int /\ Len(log) \in Int /\ w.count <= Len(log)
    BY <1>1, <1>2 DEF WindowTells
  <2>2. Cardinality(T) = IF Len(log) - w.count + 1 > Len(log) THEN 0
                         ELSE Len(log) - (Len(log) - w.count + 1) + 1
    BY <2>1, FS_Interval
  <2> QED BY <1>1, <1>2, <2>1, <2>2
<1>7. Cardinality(T) <= Cardinality(S)
  BY <1>4, <1>5, FS_Subset
<1>8. Cardinality(S) \in Nat
  BY <1>5, FS_CardinalityType
<1> QED BY <1>1, <1>6, <1>7, <1>8 DEF AcceptedBetween, log

\* One step of the limiter leaves a full table without windows that are over.
LEMMA FullTableStep ==
    ASSUME RateInv, [RateNext]_rateVars, NEW r \in Replicas, entries'[r] # entries[r]
    PROVE  \/ Cardinality(Present(r)') <= TableSize
           \/ \A k \in Present(r)' : ~Over(entries'[r][k])
<1>0. CASE \E q \in Replicas : Restart(q)
  <2>1. Restart(r)
    BY <1>0 DEF Restart, RateInv, RateTypeOK
  <2>2. Present(r)' = {}
    BY <2>1 DEF Restart, Present, RateInv, RateTypeOK
  <2> QED BY <2>2
<1> SUFFICES ASSUME ~ \E q \in Replicas : Restart(q)
             PROVE  \/ Cardinality(Present(r)') <= TableSize
                    \/ \A k \in Present(r)' : ~Over(entries'[r][k])
  BY <1>0
<1>1. PICK k \in Keys : Accept(r, k) \/ Refuse(r, k)
  <2>1. PICK q \in Replicas, k \in Keys : Accept(q, k) \/ Refuse(q, k)
    BY DEF RateNext, Tick, rateVars
  <2>2. q = r
    BY <2>1 DEF Accept, Refuse, RateInv, RateTypeOK
  <2> QED BY <2>1, <2>2
<1>2. RateTypeOK /\ CurrentWindow(r, k) \in Window
  BY WindowTypes DEF RateInv
<1>3. PICK w \in Window :
         /\ entries' = [entries EXCEPT ![r] = [Purged(r) EXCEPT ![k] = w]]
         /\ w.reset = CurrentWindow(r, k).reset
  BY <1>1, <1>2 DEF Accept, Refuse, Window
<1>4. IsFiniteSet(Present(r)) /\ now <= w.reset
  BY <1>3 DEF RateInv, WindowTells
<1>5. Cardinality(Present(r)) \in Nat
  BY <1>4, FS_CardinalityType
<1>6. CASE Cardinality(Present(r)) >= TableSize
  <2>1. \A x \in Keys : x # k =>
           entries'[r][x] = IF Over(entries[r][x]) THEN NoEntry ELSE entries[r][x]
    BY <1>2, <1>3, <1>6 DEF Purged, RateTypeOK
  <2>2. entries'[r][k] = w /\ ~Over(w)
    BY <1>2, <1>3, <1>4, TimeAssumption DEF Purged, RateTypeOK, Over, Window, Times
  <2> QED BY <2>1, <2>2 DEF Present
<1>7. CASE ~ (Cardinality(Present(r)) >= TableSize)
  <2> DEFINE A == Present(r) \cup {k}
  <2>1. IsFiniteSet(A) /\ Cardinality(A) <= Cardinality(Present(r)) + 1
    <3>1. /\ IsFiniteSet(A)
          /\ \/ Cardinality(A) = Cardinality(Present(r))
             \/ Cardinality(A) = Cardinality(Present(r)) + 1
      BY <1>4, FS_AddElement
    <3> QED BY <1>5, <3>1
  <2>2. Present(r)' \subseteq A
    BY <1>2, <1>3, PresentGrows
  <2> HIDE DEF A
  <2>3. /\ IsFiniteSet(Present(r)')
        /\ Cardinality(Present(r)') <= Cardinality(A)
    BY <2>1, <2>2, FS_Subset
  <2>4. Cardinality(Present(r)') \in Nat /\ Cardinality(A) \in Nat
    BY <2>1, <2>3, FS_CardinalityType
  <2> QED BY <1>5, <1>7, <2>1, <2>3, <2>4, TableAssumption
<1> QED BY <1>6, <1>7

----------------------------------------------------------------------------
(* The codes.                                                              *)

\* The replicas that have compared a wrong code and not counted it.
Counting == {r \in Replicas : trying[r].pc = "update"}

MissesCounted ==
    challenge # NoChallenge => wrong <= challenge.attempts + Cardinality(Counting) + faults

ThrottlingInv == TypeOK /\ MissesCounted /\ WrongCodesAreBounded

\* The number of replicas that have a miss to count.
LEMMA CountingSize ==
    /\ Cardinality(Counting) \in Nat
    /\ Cardinality(Counting) <= Cardinality(Replicas)
    /\ Cardinality(Replicas) \in Nat \ {0}
    /\ IsFiniteSet(Counting)
<1>1. Counting \in SUBSET Replicas
  BY DEF Counting
<1>2. Cardinality(Replicas) \in Nat \ {0}
  BY ReplicasAssumption, FS_EmptySet, FS_CardinalityType
<1> QED BY <1>1, <1>2, ReplicasAssumption, FS_Subset, FS_CardinalityType

\* The same after a step.
LEMMA CountingSizeAfter ==
    Cardinality(Counting') \in Nat /\ Cardinality(Counting') <= Cardinality(Replicas)
<1>1. Counting' \in SUBSET Replicas
  BY DEF Counting
<1> QED BY <1>1, ReplicasAssumption, FS_Subset, FS_CardinalityType

\* The number after a step of replica r.
LEMMA CountingStep ==
    ASSUME NEW r \in Replicas, \A q \in Replicas : q # r => trying'[q] = trying[q]
    PROVE  /\ trying'[r].pc # "update" /\ trying[r].pc = "update" =>
                Cardinality(Counting') = Cardinality(Counting) - 1
           /\ trying'[r].pc = "update" /\ trying[r].pc # "update" =>
                Cardinality(Counting') = Cardinality(Counting) + 1
           /\ trying'[r].pc # "update" /\ trying[r].pc # "update" => Counting' = Counting
<1>1. CASE trying'[r].pc # "update" /\ trying[r].pc = "update"
  <2>1. Counting' = Counting \ {r} /\ r \in Counting
    BY <1>1 DEF Counting
  <2> QED BY <1>1, <2>1, CountingSize, FS_RemoveElement
<1>2. CASE trying'[r].pc = "update" /\ trying[r].pc # "update"
  <2>1. Counting' = Counting \cup {r} /\ r \notin Counting
    BY <1>2 DEF Counting
  <2> QED BY <1>2, <2>1, CountingSize, FS_AddElement
<1>3. CASE trying'[r].pc # "update" /\ trying[r].pc # "update"
  BY <1>3 DEF Counting
<1> QED BY <1>1, <1>2, <1>3

\* Codes and rows.
LEMMA RowTypes ==
    /\ NoChallenge \in Challenge
    /\ \A c \in Codes : Issued(c) \in Challenge
    /\ \A x \in Challenge : Missed(x) \in Challenge
    /\ \A x \in Challenge : x.attempts \in Nat /\ x.attempts <= OtpAttemptLimit - 1
    /\ \A x \in Challenge : Missed(x) # NoChallenge => Missed(x).attempts = x.attempts + 1
    /\ \A x \in Challenge, c \in Codes : Matches(x, c) => x # NoChallenge
BY LimitAssumption, CodesAssumption
   DEF Challenge, NoChallenge, Issued, Missed, Matches

\* The faults after a statement.
LEMMA ChargedFaults ==
    ASSUME TypeOK, NEW o \in Outcomes, Charged(o)
    PROVE  /\ faults \in Nat /\ faults' \in 0 .. MaxFaults
           /\ faults' = IF o = "ok" THEN faults ELSE faults + 1
<1>1. faults \in 0 .. MaxFaults /\ MaxFaults \in Nat
  BY FaultAssumption DEF TypeOK
<1>2. o = "ok" \/ faults < MaxFaults
  BY DEF Outcomes
<1> QED BY <1>1, <1>2 DEF Charged

\* A new code starts at no wrong codes.
LEMMA RequestKeeps ==
    ASSUME ThrottlingInv, NEW r \in Replicas, NEW c \in Codes, RequestPEP(r, c)
    PROVE  ThrottlingInv'
<1>1. RateTypeOK'
  BY AcceptKeeps, KeyAssumption DEF ThrottlingInv, TypeOK, RequestPEP
<1>2. PICK o \in Outcomes :
         /\ challenge' = IF o = "failed" THEN challenge ELSE Issued(c)
         /\ wrong' = IF o = "failed" THEN wrong ELSE 0
         /\ Charged(o)
  BY DEF RequestPEP
<1>3. holders' = holders \cup {r} /\ trying' = trying
  BY DEF RequestPEP
<1>4. /\ faults \in Nat /\ faults' \in 0 .. MaxFaults /\ faults' >= faults
  BY <1>2, ChargedFaults DEF ThrottlingInv
<1>5. TypeOK'
  BY <1>1, <1>2, <1>3, <1>4, RowTypes DEF ThrottlingInv, TypeOK
<1>6. Counting' = Counting
  BY <1>3 DEF Counting
<1>7. CASE o = "failed"
  <2>1. challenge' = challenge /\ wrong' = wrong /\ wrong \in Nat
    BY <1>2, <1>7 DEF ThrottlingInv, TypeOK
  <2>2. MissesCounted'
    BY <1>4, <1>6, <2>1, CountingSize, RowTypes DEF ThrottlingInv, TypeOK, MissesCounted
  <2>3. WrongCodesAreBounded'
    BY <1>4, <2>1, CountingSize, LimitAssumption DEF ThrottlingInv, WrongCodesAreBounded
  <2> QED BY <1>5, <2>2, <2>3 DEF ThrottlingInv
<1>8. CASE o # "failed"
  <2>1. challenge' = Issued(c) /\ wrong' = 0
    BY <1>2, <1>8
  <2>2. MissesCounted'
    BY <1>4, <1>5, <1>6, <2>1, RowTypes, CountingSize DEF MissesCounted, TypeOK
  <2>3. WrongCodesAreBounded'
    BY <1>4, <2>1, CountingSize, LimitAssumption DEF WrongCodesAreBounded
  <2> QED BY <1>5, <2>2, <2>3 DEF ThrottlingInv
<1> QED BY <1>7, <1>8

\* A confirmation that is let through has compared nothing yet.
LEMMA ConfirmKeeps ==
    ASSUME ThrottlingInv, NEW r \in Replicas, NEW c \in Codes, ConfirmPEP(r, c)
    PROVE  ThrottlingInv'
<1>1. RateTypeOK'
  BY AcceptKeeps, KeyAssumption DEF ThrottlingInv, TypeOK, ConfirmPEP
<1>2. /\ trying[r] = Idle
      /\ UNCHANGED <<challenge, holders, wrong, faults>>
      /\ \E n \in {1, 2} :
            trying' = [trying EXCEPT ![r] = [pc |-> "delete", code |-> c, calls |-> n]]
  BY DEF ConfirmPEP
<1>3. TypeOK'
  BY <1>1, <1>2 DEF ThrottlingInv, TypeOK, Confirmation
<1>4. /\ trying'[r].pc = "delete" /\ trying[r].pc = "idle"
      /\ \A q \in Replicas : q # r => trying'[q] = trying[q]
  BY <1>2 DEF Idle, ThrottlingInv, TypeOK
<1>5. Counting' = Counting
  BY <1>4, CountingStep
<1>6. MissesCounted' /\ WrongCodesAreBounded'
  BY <1>2, <1>5 DEF ThrottlingInv, MissesCounted, WrongCodesAreBounded
<1> QED BY <1>3, <1>6 DEF ThrottlingInv

\* The end of a call leaves the request between two statements.
LEMMA CalledType ==
    ASSUME TypeOK, NEW r \in Replicas, trying[r] \in Confirmation, Called(r)
    PROVE  /\ trying' \in [Replicas -> Confirmation \cup {Idle}]
           /\ trying'[r].pc # "update"
           /\ \A q \in Replicas : q # r => trying'[q] = trying[q]
<1> DEFINE next == IF trying[r].calls = 2 THEN [trying[r] EXCEPT !.pc = "delete", !.calls = 1]
                   ELSE Idle
<1>1. trying' = [trying EXCEPT ![r] = next]
  BY DEF Called, TypeOK
<1>2. next \in Confirmation \cup {Idle} /\ next.pc # "update"
  BY DEF Confirmation, Idle
<1> QED BY <1>1, <1>2 DEF TypeOK

\* A wrong code is compared: its miss is left to the UPDATE, or a fault pays for it.
LEMMA TryDeleteKeeps ==
    ASSUME ThrottlingInv, NEW r \in Replicas, TryDelete(r)
    PROVE  ThrottlingInv'
<1> DEFINE hit == Matches(challenge, trying[r].code)
<1>1. PICK o \in Outcomes :
         /\ challenge' = IF hit /\ o # "failed" THEN NoChallenge ELSE challenge
         /\ wrong' = IF challenge # NoChallenge /\ ~hit /\ o # "failed"
                     THEN wrong + 1 ELSE wrong
         /\ IF hit \/ o # "ok" THEN Called(r)
            ELSE trying' = [trying EXCEPT ![r].pc = "update"]
         /\ holders' \in {holders, holders \ {r}}
         /\ Charged(o)
  BY DEF TryDelete
<1>2. /\ trying[r].pc = "delete" /\ trying[r] \in Confirmation
      /\ rateVars' = rateVars /\ holders' \subseteq Replicas
  BY <1>1 DEF TryDelete, ThrottlingInv, TypeOK, Idle
<1>3. TypeOK
  BY DEF ThrottlingInv
<1>4. RateTypeOK'
  BY <1>2, <1>3 DEF TypeOK, RateTypeOK, rateVars, Times
<1>5. /\ faults \in Nat /\ faults' \in 0 .. MaxFaults
      /\ faults' = IF o = "ok" THEN faults ELSE faults + 1
  BY <1>1, <1>3, ChargedFaults
<1>6. CASE hit /\ o # "failed"
  <2>1. challenge' = NoChallenge /\ wrong' = wrong /\ Called(r)
    BY <1>1, <1>6
  <2>2. TypeOK'
    BY <1>2, <1>3, <1>4, <1>5, <2>1, CalledType, RowTypes DEF TypeOK
  <2>3. faults \in Nat /\ faults' \in {faults, faults + 1} /\ wrong \in Nat
    <3>1. wrong \in Nat
      BY <1>3 DEF TypeOK
    <3> QED BY <1>5, <3>1
  <2>4. WrongCodesAreBounded'
    BY <2>1, <2>3, CountingSize, LimitAssumption DEF ThrottlingInv, WrongCodesAreBounded
  <2>5. MissesCounted'
    BY <2>1 DEF MissesCounted
  <2> QED BY <2>2, <2>4, <2>5 DEF ThrottlingInv
<1>7. CASE o = "failed" \/ (~hit /\ o # "ok")
  <2>1. /\ challenge' = challenge /\ faults' = faults + 1 /\ Called(r)
        /\ wrong' = wrong \/ wrong' = wrong + 1
    BY <1>1, <1>7, <1>5
  <2>2. wrong \in Nat /\ wrong' \in Nat /\ wrong' <= wrong + 1
    BY <1>3, <2>1 DEF TypeOK
  <2>3. TypeOK'
    BY <1>2, <1>3, <1>4, <1>5, <2>1, <2>2, CalledType DEF TypeOK
  <2>4. Counting' = Counting
    BY <1>2, <1>3, <2>1, CalledType, CountingStep
  <2>5. MissesCounted'
    BY <1>3, <1>5, <2>1, <2>2, <2>4, CountingSize, RowTypes
       DEF ThrottlingInv, MissesCounted, TypeOK
  <2>6. WrongCodesAreBounded'
    BY <1>5, <2>1, <2>2, CountingSize, LimitAssumption DEF ThrottlingInv, WrongCodesAreBounded
  <2> QED BY <2>3, <2>5, <2>6 DEF ThrottlingInv
<1>8. CASE ~hit /\ o = "ok"
  <2>1. /\ challenge' = challenge /\ faults' = faults
        /\ wrong' = IF challenge # NoChallenge THEN wrong + 1 ELSE wrong
        /\ trying' = [trying EXCEPT ![r].pc = "update"]
    BY <1>1, <1>8, <1>5
  <2>2. /\ trying' \in [Replicas -> Confirmation \cup {Idle}]
        /\ trying'[r].pc = "update"
        /\ \A q \in Replicas : q # r => trying'[q] = trying[q]
    BY <1>2, <1>3, <2>1 DEF TypeOK, Confirmation
  <2>3. TypeOK'
    BY <1>2, <1>3, <1>4, <2>1, <2>2 DEF TypeOK
  <2>4. Cardinality(Counting') = Cardinality(Counting) + 1
    BY <1>2, <2>2, CountingStep
  <2>5. /\ Cardinality(Counting') <= Cardinality(Replicas) /\ Cardinality(Counting') \in Nat
        /\ Cardinality(Counting) \in Nat /\ Cardinality(Replicas) \in Nat
    BY <2>4, CountingSize, CountingSizeAfter
  <2>6. MissesCounted'
    BY <1>2, <1>3, <2>1, <2>4, <2>5, RowTypes DEF ThrottlingInv, MissesCounted, TypeOK
  <2>7. CASE challenge = NoChallenge
    BY <1>2, <2>1, <2>3, <2>6, <2>7 DEF ThrottlingInv, WrongCodesAreBounded
  <2>8. CASE challenge # NoChallenge
    <3>1. /\ challenge.attempts \in Nat /\ challenge.attempts <= OtpAttemptLimit - 1
          /\ faults \in Nat /\ wrong' \in Nat
      BY <1>3, <2>1, RowTypes, FaultAssumption DEF TypeOK
    <3>2. wrong' <= challenge.attempts + Cardinality(Counting') + faults
      BY <1>2, <2>1, <2>6, <2>8 DEF MissesCounted
    <3>3. WrongCodesAreBounded'
      <4>1. challenge.attempts + Cardinality(Counting') + faults
               <= OtpAttemptLimit - 1 + Cardinality(Replicas) + faults
        BY <2>5, <3>1, LimitAssumption
      <4>2. wrong' <= OtpAttemptLimit - 1 + Cardinality(Replicas) + faults
        BY <2>5, <3>1, <3>2, <4>1, LimitAssumption
      <4> QED BY <2>1, <2>5, <3>1, <4>2, LimitAssumption DEF WrongCodesAreBounded
    <3> QED BY <2>3, <2>6, <3>3 DEF ThrottlingInv
  <2> QED BY <2>7, <2>8
<1> QED BY <1>6, <1>7, <1>8

\* Counting a miss, or failing to, pays for one comparison.
LEMMA CountMissKeeps ==
    ASSUME ThrottlingInv, NEW r \in Replicas, CountMiss(r)
    PROVE  ThrottlingInv'
<1>1. /\ trying[r].pc = "update" /\ trying[r] \in Confirmation
      /\ Called(r)
      /\ UNCHANGED <<rateVars, holders, wrong>>
  BY DEF CountMiss, ThrottlingInv, TypeOK, Idle
<1>2. PICK o \in Outcomes :
         /\ challenge' = IF o = "failed" THEN challenge ELSE Missed(challenge)
         /\ Charged(o)
  BY DEF CountMiss
<1>3. TypeOK
  BY DEF ThrottlingInv
<1>4. RateTypeOK'
  BY <1>1, <1>3 DEF TypeOK, RateTypeOK, rateVars, Times
<1>5. /\ faults \in Nat /\ faults' \in 0 .. MaxFaults
      /\ faults' = IF o = "ok" THEN faults ELSE faults + 1
  BY <1>2, <1>3, ChargedFaults
<1>6. TypeOK'
  BY <1>1, <1>2, <1>3, <1>4, <1>5, CalledType, RowTypes DEF TypeOK
<1>7. Cardinality(Counting') = Cardinality(Counting) - 1 /\ Cardinality(Counting) \in Nat
  BY <1>1, <1>3, CalledType, CountingStep, CountingSize
<1>8. MissesCounted'
  <2>1. /\ challenge \in Challenge /\ wrong \in Nat /\ challenge.attempts \in Nat
        /\ challenge = NoChallenge => Missed(challenge) = NoChallenge
    BY <1>3, RowTypes DEF TypeOK, Missed
  <2>2. CASE o = "failed"
    BY <1>1, <1>2, <1>5, <1>7, <2>1, <2>2 DEF ThrottlingInv, MissesCounted
  <2>3. CASE o # "failed"
    BY <1>1, <1>2, <1>5, <1>7, <2>1, <2>3, RowTypes DEF ThrottlingInv, MissesCounted
  <2> QED BY <2>2, <2>3
<1>9. WrongCodesAreBounded'
  BY <1>1, <1>3, <1>5, CountingSize, LimitAssumption DEF ThrottlingInv, WrongCodesAreBounded, TypeOK
<1> QED BY <1>6, <1>8, <1>9 DEF ThrottlingInv

\* A process that stops may leave a miss uncounted, for which its restart pays.
LEMMA CrashKeeps ==
    ASSUME ThrottlingInv, NEW r \in Replicas, RateTypeOK', Crash(r)
    PROVE  ThrottlingInv'
<1>1. /\ faults < MaxFaults /\ faults' = faults + 1
      /\ holders' = holders \ {r}
      /\ trying' = [trying EXCEPT ![r] = Idle]
      /\ challenge' = challenge /\ wrong' = wrong
  BY DEF Crash
<1>2. /\ challenge \in Challenge /\ challenge.attempts \in Nat
      /\ wrong \in Nat /\ faults \in Nat /\ faults' \in 0 .. MaxFaults
      /\ trying \in [Replicas -> Confirmation \cup {Idle}]
  BY <1>1, RowTypes, FaultAssumption DEF ThrottlingInv, TypeOK
<1>3. TypeOK'
  BY <1>1, <1>2 DEF ThrottlingInv, TypeOK
<1>4. Cardinality(Counting) <= Cardinality(Counting') + 1
  <2>1. trying'[r].pc # "update" /\ \A q \in Replicas : q # r => trying'[q] = trying[q]
    BY <1>1, <1>2 DEF Idle
  <2>2. Cardinality(Counting') \in {Cardinality(Counting) - 1, Cardinality(Counting)}
    BY <2>1, CountingStep
  <2> QED BY <2>2, CountingSize
<1>5. MissesCounted'
  BY <1>1, <1>2, <1>4, CountingSize, CountingSizeAfter DEF ThrottlingInv, MissesCounted
<1>6. WrongCodesAreBounded'
  BY <1>1, <1>2, CountingSize, LimitAssumption DEF ThrottlingInv, WrongCodesAreBounded
<1> QED BY <1>3, <1>5, <1>6 DEF ThrottlingInv

\* Every step keeps the invariant.
LEMMA ThrottlingInvStep == ThrottlingInv /\ [Next]_vars => ThrottlingInv'
<1> SUFFICES ASSUME ThrottlingInv, [Next]_vars PROVE ThrottlingInv'
  OBVIOUS
<1>1. ASSUME UNCHANGED codeVars, RateTypeOK' PROVE ThrottlingInv'
  <2>1. Counting' = Counting
    BY <1>1 DEF codeVars, Counting
  <2> QED BY <1>1, <2>1 DEF codeVars, ThrottlingInv, TypeOK, MissesCounted, WrongCodesAreBounded
<1>2. ASSUME NEW r \in Replicas, NEW c \in Codes, RequestPEP(r, c) \/ ConfirmPEP(r, c)
      PROVE  ThrottlingInv'
  BY <1>2, RequestKeeps, ConfirmKeeps
<1>3. ASSUME NEW r \in Replicas, NEW k \in Keys, TooManyRequests(r, k) PROVE ThrottlingInv'
  <2>1. RateTypeOK'
    BY <1>3, RefuseKeeps DEF TooManyRequests, ThrottlingInv, TypeOK
  <2> QED BY <1>1, <1>3, <2>1 DEF TooManyRequests
<1>4. ASSUME NEW r \in Replicas, TryDelete(r) \/ CountMiss(r) PROVE ThrottlingInv'
  BY <1>4, TryDeleteKeeps, CountMissKeeps
<1>5. CASE ExpireCode
  <2>1. challenge' = NoChallenge /\ UNCHANGED <<rateVars, holders, trying, wrong, faults>>
    BY <1>5 DEF ExpireCode
  <2>2. TypeOK'
    BY <2>1, RowTypes DEF ThrottlingInv, TypeOK, RateTypeOK, rateVars, Times
  <2> QED BY <2>1, <2>2 DEF ThrottlingInv, MissesCounted, WrongCodesAreBounded
<1>6. CASE Tick /\ UNCHANGED codeVars
  <2>1. RateTypeOK'
    BY <1>6, TimeAssumption DEF Tick, ThrottlingInv, TypeOK, RateTypeOK, Times
  <2> QED BY <1>1, <1>6, <2>1
<1>7. ASSUME NEW r \in Replicas, Crash(r) PROVE ThrottlingInv'
  BY <1>7, RestartKeeps, CrashKeeps DEF Crash, ThrottlingInv, TypeOK
<1>8. CASE UNCHANGED vars
  <2>1. RateTypeOK'
    BY <1>8 DEF vars, rateVars, ThrottlingInv, TypeOK, RateTypeOK, Times
  <2> QED BY <1>1, <1>8, <2>1 DEF vars
<1> QED BY <1>2, <1>3, <1>4, <1>5, <1>6, <1>7, <1>8 DEF Next

\* The invariant holds at the start.
LEMMA ThrottlingInvInit == Init => ThrottlingInv
<1> SUFFICES ASSUME Init PROVE ThrottlingInv
  OBVIOUS
<1>1. RateTypeOK
  BY RateAssumption, TimeAssumption DEF Init, RateInit, RateTypeOK, NoEntry, Window, Times
<1>2. TypeOK
  BY <1>1, RowTypes, FaultAssumption DEF Init, TypeOK
<1>3. MissesCounted /\ WrongCodesAreBounded
  BY CountingSize, LimitAssumption DEF Init, MissesCounted, WrongCodesAreBounded
<1> QED BY <1>2, <1>3 DEF ThrottlingInv

\* The limiter's windows and the requests are well typed, and no window ever counts
\* more than its limit.
THEOREM ThrottlingTypeCorrect == Spec => []TypeOK
<1>1. ThrottlingInv => TypeOK
  BY DEF ThrottlingInv
<1> QED BY <1>1, ThrottlingInvInit, ThrottlingInvStep, PTL DEF Spec

\* For any number of replicas, one challenge takes no more wrong codes than the limit,
\* one for each other replica and one for each fault.
THEOREM GuessesAreBounded == Spec => []WrongCodesAreBounded
<1>1. ThrottlingInv => WrongCodesAreBounded
  BY DEF ThrottlingInv
<1> QED BY <1>1, ThrottlingInvInit, ThrottlingInvStep, PTL DEF Spec

\* Every step of the requests is a step of the limiter.
LEMMA NextIsRateNext == [Next]_vars => [RateNext]_rateVars
BY KeyAssumption
   DEF Next, RateNext, vars, RequestPEP, ConfirmPEP, TooManyRequests, TryDelete, CountMiss,
       Crash, ExpireCode

LEMMA SpecRateInv == Spec => []RateInv
<1>1. Init => RateInv
  BY RateInvInit DEF Init
<1> QED BY <1>1, NextIsRateNext, RateInvStep, PTL DEF Spec

\* However requests fall on the ends of windows, and although windows are deleted, no
\* replica lets through more than two limits' worth of requests in a minute.
THEOREM RateIsBounded == Spec => []AtMostTwoWindows
<1> QED BY SpecRateInv, RateInvTwoWindows, PTL

\* A client that is refused had its limit in the last minute, at this replica.
THEOREM RefusalsHaveCause == Spec => []RefusalsAreEarned
<1> QED BY SpecRateInv, RateInvEarned, PTL

\* The table of windows grows past its size only by windows that are still open.
THEOREM TableIsPurged == Spec => FullOfLiveWindows
<1>1. RateInv /\ [RateNext]_rateVars =>
         [\A r \in Replicas : entries'[r] # entries[r] =>
             \/ Cardinality(Present(r)') <= TableSize
             \/ \A k \in Present(r)' : ~Over(entries'[r][k])]_rateVars
  BY FullTableStep
<1> QED BY <1>1, SpecRateInv, NextIsRateNext, PTL DEF Spec, FullOfLiveWindows
=============================================================================
