-------------------------- MODULE DomainGateProofs --------------------------
(***************************************************************************)
(* Theorems about DomainGate for every set of fetches, every gap, cooldown, *)
(* budget and mode of the proxy; what depends on it says that one slot of   *)
(* the domain's semaphore is given out, as per_domain_concurrency has it    *)
(* unless somebody sets it.                                                 *)
(***************************************************************************)
EXTENDS DomainGate, FiniteSetTheorems, TLAPS

\* Fetches that will be charged to the daily budget if they are answered.
Paying == {r \in Requests \ Browsers : route[r] = "proxy"}

\* What the policy counts is what the shop did, and a bucket has moved exactly
\* when the count is full.
CountIsTrue ==
    \A b \in Buckets :
        /\ b \in escalated <=> refusals[b] = AfterRefusals
        /\ ProxyMode # "off" => refusals[b] = hist.direct[b]

\* A fetch that is out has an attempt left, one that backs off has used one.
AttemptsCounted ==
    \A r \in Requests :
        /\ pc[r] = "sending" => attempt[r] < Retries
        /\ pc[r] = "backoff" => attempt[r] > 0

\* What was spent today and what is still on its way, here and at other shops.
Spent ==
    used + Cardinality(Paying) + elsewhere
        <= Max2(0, Budget + Cardinality(Requests \ Browsers) + OtherFetches - 1)

\* What the theorems of any number of slots rest on.
Base == TypeOK /\ CountIsTrue /\ AttemptsCounted

\* The cooldowns cover the silence that is owed, as long as nobody who is inside
\* goes out on a key that owes one.
PenaltyIsTrue == \A k \in Keys : factor[k] = hist.row[k]
SilenceIsKnown == \A k \in Keys : hist.due[k] <= blocked[k]
InsideMayAsk == \A r \in Inside \ Browsers : hist.due[Key(r)] = 0

\* One slot, so one fetch between the gate and its end.
OneInside == \A q, r \in Inside : q = r

\* Whoever paces sleeps what the gap still lacks; without anybody inside the
\* shop's own clock has it.
GapIsSlept ==
    /\ Inside = {} => hist.quiet + rest >= MinGap
    /\ \A r \in Requests : pc[r] = "pacing" => hist.quiet + nap[r] >= MinGap

Alone == OneInside /\ PenaltyIsTrue /\ SilenceIsKnown /\ InsideMayAsk /\ GapIsSlept

-----------------------------------------------------------------------------
(* The constants, the keys and the arithmetic of the waits.                *)

LEMMA Settings ==
    /\ DefaultWait \in Nat /\ MaxWait \in Nat /\ MinGap \in Nat /\ Backoff \in Nat
    /\ AfterRefusals \in Nat /\ AfterRefusals > 0 /\ Retries \in Nat /\ Retries > 0
    /\ MaxFactor \in Nat /\ MaxFactor > 0 /\ Budget \in Nat /\ OtherFetches \in Nat
    /\ \A ra \in RetryAfters : ra \in Nat
  BY PacingAssumption, WaitsAssumption, ProxyAssumption

LEMMA NoTime == 0 \in 0..MinGap /\ 0 \in 0..MaxWait
  BY Settings

LEMMA KeyParts ==
    /\ \A k \in Keys : k[1] \in Buckets /\ k[2] \in Routes /\ k = <<k[1], k[2]>>
    /\ \A b \in Buckets, v \in Routes :
         <<b, v>> \in Keys /\ <<b, v>>[1] = b /\ <<b, v>>[2] = v
  BY DEF Keys

LEMMA KeyOf ==
    ASSUME TypeOK, NEW r \in Requests
    PROVE  /\ Bucket(r) \in Buckets /\ Key(r) \in Keys
           /\ Key(r)[1] = Bucket(r) /\ Key(r)[2] = route[r]
           /\ ChosenRoute(r) \in Routes /\ <<Bucket(r), ChosenRoute(r)>> \in Keys
  <1>1. Bucket(r) \in Buckets
    BY DEF Bucket, Buckets
  <1>2. route[r] \in Routes /\ ChosenRoute(r) \in Routes
    BY DEF TypeOK, ChosenRoute, Routes
  <1> QED
    BY <1>1, <1>2, KeyParts DEF Key

\* How long a shop that asks for ra is left alone at the f-th multiple.
Wait(ra, f) == Min2((IF ra = NoHeader THEN DefaultWait ELSE ra) * f, MaxWait)

LEMMA WaitIsBounded ==
    ASSUME NEW ra \in RetryAfters \cup {NoHeader}, NEW f \in 1..MaxFactor
    PROVE  Wait(ra, f) \in 0..MaxWait
  <1> DEFINE base == IF ra = NoHeader THEN DefaultWait ELSE ra
  <1>1. base \in Nat /\ f \in Nat
    BY Settings
  <1>2. base * f \in Nat
    <2> HIDE DEF base
    <2> QED  BY <1>1
  <1> HIDE DEF base
  <1>3. Min2(base * f, MaxWait) \in 0..MaxWait
    BY <1>2, Settings DEF Min2
  <1> QED
    BY <1>3 DEF Wait, base

-----------------------------------------------------------------------------
(* What the observer notes.                                                *)

LEMMA ToldFacts ==
    ASSUME TypeOK, NEW k \in Keys, NEW ra \in RetryAfters \cup {NoHeader}, NoteTold(k, ra)
    PROVE  /\ hist' \in HistRecord
           /\ hist'.quiet = 0
           /\ \A q \in Keys :
                hist'.row[q] = IF q = k THEN Min2(2 * hist.row[k], MaxFactor) ELSE hist.row[q]
           /\ \A q \in Keys :
                hist'.due[q] = IF q = k \/ (k[1] = "page" /\ q = <<"catalog", k[2]>>)
                               THEN Max2(hist.due[q], Wait(ra, hist.row[k]))
                               ELSE hist.due[q]
           /\ \A b \in Buckets :
                hist'.direct[b] = IF b = k[1] /\ k[2] = "direct"
                                  THEN Min2(hist.direct[b] + 1, AfterRefusals)
                                  ELSE hist.direct[b]
  <1> DEFINE wait == Wait(ra, hist.row[k])
             due == [q \in Keys |->
                       IF q = k \/ (k[1] = "page" /\ q = <<"catalog", k[2]>>)
                       THEN Max2(hist.due[q], wait) ELSE hist.due[q]]
             row == [hist.row EXCEPT ![k] = Min2(2 * @, MaxFactor)]
             direct == [hist.direct EXCEPT
                          ![k[1]] = IF k[2] = "direct" THEN Min2(@ + 1, AfterRefusals) ELSE @]
  <1>1. hist \in HistRecord
    BY DEF TypeOK
  <1>2. /\ hist.due \in [Keys -> 0..MaxWait] /\ hist.row \in [Keys -> 1..MaxFactor]
        /\ hist.direct \in [Buckets -> 0..AfterRefusals] /\ hist.quiet \in 0..MinGap
    BY <1>1 DEF HistRecord
  <1>3. wait \in 0..MaxWait
    BY <1>2, WaitIsBounded
  <1>4. due \in [Keys -> 0..MaxWait]
    <2> HIDE DEF wait
    <2> QED  BY <1>2, <1>3, Settings DEF Max2
  <1>5. row \in [Keys -> 1..MaxFactor]
    <2>1. \A f \in 1..MaxFactor : Min2(2 * f, MaxFactor) \in 1..MaxFactor
      BY Settings DEF Min2
    <2>2. Min2(2 * hist.row[k], MaxFactor) \in 1..MaxFactor
      BY <2>1, <1>2
    <2> QED  BY <2>2, <1>2
  <1>6. direct \in [Buckets -> 0..AfterRefusals]
    BY <1>2, KeyParts, Settings DEF Min2
  <1>7. hist' = [hist EXCEPT !.due = due, !.row = row, !.direct = direct, !.quiet = 0]
    BY <1>1 DEF NoteTold, Wait, HistRecord
  <1>8. /\ \A q \in Keys :
             row[q] = IF q = k THEN Min2(2 * hist.row[k], MaxFactor) ELSE hist.row[q]
        /\ \A q \in Keys :
             due[q] = IF q = k \/ (k[1] = "page" /\ q = <<"catalog", k[2]>>)
                      THEN Max2(hist.due[q], wait) ELSE hist.due[q]
    BY <1>2
  <1>9. \A b \in Buckets :
             direct[b] = IF b = k[1] /\ k[2] = "direct"
                         THEN Min2(hist.direct[b] + 1, AfterRefusals) ELSE hist.direct[b]
    BY <1>2, KeyParts
  <1> HIDE DEF wait, due, row, direct
  <1>10. /\ hist'.due = due /\ hist'.row = row /\ hist'.direct = direct /\ hist'.quiet = 0
         /\ hist' \in HistRecord
    BY <1>1, <1>4, <1>5, <1>6, <1>7, NoTime DEF HistRecord
  <1> QED
    BY <1>8, <1>9, <1>10 DEF wait

LEMMA AnsweredFacts ==
    ASSUME TypeOK, NEW k \in Keys, NoteAnswered(k)
    PROVE  /\ hist' \in HistRecord
           /\ hist'.quiet = 0 /\ hist'.due = hist.due
           /\ \A q \in Keys : hist'.row[q] = IF q = k THEN 1 ELSE hist.row[q]
           /\ \A b \in Buckets :
                hist'.direct[b] = IF b = k[1] /\ k[2] = "direct" THEN 0 ELSE hist.direct[b]
  <1> DEFINE row == [hist.row EXCEPT ![k] = 1]
             direct == [hist.direct EXCEPT ![k[1]] = IF k[2] = "direct" THEN 0 ELSE @]
  <1>1. hist \in HistRecord
    BY DEF TypeOK
  <1>2. /\ hist.due \in [Keys -> 0..MaxWait] /\ hist.row \in [Keys -> 1..MaxFactor]
        /\ hist.direct \in [Buckets -> 0..AfterRefusals] /\ hist.quiet \in 0..MinGap
    BY <1>1 DEF HistRecord
  <1>3. /\ row \in [Keys -> 1..MaxFactor]
        /\ \A q \in Keys : row[q] = IF q = k THEN 1 ELSE hist.row[q]
    BY <1>2, Settings
  <1>4. /\ direct \in [Buckets -> 0..AfterRefusals]
        /\ \A b \in Buckets :
             direct[b] = IF b = k[1] /\ k[2] = "direct" THEN 0 ELSE hist.direct[b]
    BY <1>2, KeyParts, Settings
  <1>5. hist' = [hist EXCEPT !.row = row, !.direct = direct, !.quiet = 0]
    BY <1>1 DEF NoteAnswered, HistRecord
  <1> HIDE DEF row, direct
  <1>6. /\ hist'.due = hist.due /\ hist'.row = row /\ hist'.direct = direct /\ hist'.quiet = 0
        /\ hist' \in HistRecord
    BY <1>1, <1>2, <1>3, <1>4, <1>5, NoTime DEF HistRecord
  <1> QED
    BY <1>3, <1>4, <1>6

LEMMA WireFacts ==
    ASSUME TypeOK, NoteWire
    PROVE  /\ hist' \in HistRecord /\ hist'.quiet = 0
           /\ hist'.due = hist.due /\ hist'.row = hist.row /\ hist'.direct = hist.direct
  BY NoTime DEF TypeOK, NoteWire, HistRecord

LEMMA TickFacts ==
    ASSUME TypeOK, Tick
    PROVE  /\ hist' \in HistRecord
           /\ \A k \in Keys : hist'.due[k] = Less(hist.due[k])
           /\ hist'.row = hist.row /\ hist'.direct = hist.direct
           /\ hist'.quiet = IF \E r \in Requests : pc[r] = "sending" THEN 0
                            ELSE Min2(hist.quiet + 1, MinGap)
  <1> DEFINE due == [k \in Keys |-> Less(hist.due[k])]
             quiet == IF \E r \in Requests : pc[r] = "sending" THEN 0
                      ELSE Min2(hist.quiet + 1, MinGap)
  <1>1. hist \in HistRecord
    BY DEF TypeOK
  <1>2. hist.due \in [Keys -> 0..MaxWait] /\ hist.quiet \in 0..MinGap
    BY <1>1 DEF HistRecord
  <1>3. due \in [Keys -> 0..MaxWait] /\ \A k \in Keys : due[k] = Less(hist.due[k])
    BY <1>2, Settings DEF Less
  <1>4. quiet \in 0..MinGap
    BY <1>2, Settings DEF Min2
  <1>5. hist' = [hist EXCEPT !.due = due, !.quiet = quiet]
    BY <1>1 DEF Tick, HistRecord
  <1>6. quiet = IF \E r \in Requests : pc[r] = "sending" THEN 0 ELSE Min2(hist.quiet + 1, MinGap)
    OBVIOUS
  <1> HIDE DEF due, quiet
  <1>7. /\ hist' \in HistRecord /\ hist'.due = due /\ hist'.quiet = quiet
        /\ hist'.row = hist.row /\ hist'.direct = hist.direct
    BY <1>1, <1>3, <1>4, <1>5 DEF HistRecord
  <1> QED
    BY <1>3, <1>6, <1>7

-----------------------------------------------------------------------------
(* What the cooldowns, the policy and the gate do to one key or one fetch. *)

LEMMA RefusedFacts ==
    ASSUME TypeOK, NEW k \in Keys, NEW ra \in RetryAfters \cup {NoHeader}, NoteRefusal(k, ra)
    PROVE  /\ blocked' \in [Keys -> 0..MaxWait] /\ factor' \in [Keys -> 1..MaxFactor]
           /\ \A q \in Keys :
                blocked'[q] = IF q = k THEN Wait(ra, factor[k])
                              ELSE IF k[1] = "page" /\ q = <<"catalog", k[2]>>
                              THEN Max2(blocked[q], Wait(ra, factor[k]))
                              ELSE blocked[q]
           /\ \A q \in Keys :
                factor'[q] = IF q = k THEN Min2(2 * factor[k], MaxFactor) ELSE factor[q]
  <1> DEFINE wait == Wait(ra, factor[k])
  <1>1. factor \in [Keys -> 1..MaxFactor] /\ blocked \in [Keys -> 0..MaxWait]
    BY DEF TypeOK
  <1>2. wait \in 0..MaxWait
    BY <1>1, WaitIsBounded
  <1>3. blocked' = BlockedAfter(k, wait)
    BY DEF NoteRefusal, CooldownWait, Wait
  <1>4. \A f \in 1..MaxFactor : Min2(2 * f, MaxFactor) \in 1..MaxFactor
    BY Settings DEF Min2
  <1>5. factor' \in [Keys -> 1..MaxFactor]
    BY <1>1, <1>4 DEF NoteRefusal
  <1> HIDE DEF wait
  <1>6. blocked' \in [Keys -> 0..MaxWait]
    BY <1>1, <1>2, <1>3 DEF BlockedAfter, Max2
  <1>7. \A q \in Keys :
           blocked'[q] = IF q = k THEN wait
                         ELSE IF k[1] = "page" /\ q = <<"catalog", k[2]>>
                         THEN Max2(blocked[q], wait) ELSE blocked[q]
    BY <1>3 DEF BlockedAfter
  <1>8. \A q \in Keys :
           factor'[q] = IF q = k THEN Min2(2 * factor[k], MaxFactor) ELSE factor[q]
    BY <1>1 DEF NoteRefusal
  <1> QED
    BY <1>5, <1>6, <1>7, <1>8 DEF wait

LEMMA SuccessFacts ==
    ASSUME TypeOK, NEW k \in Keys, NoteSuccess(k)
    PROVE  /\ blocked' \in [Keys -> 0..MaxWait] /\ factor' \in [Keys -> 1..MaxFactor]
           /\ \A q \in Keys : blocked'[q] = IF q = k THEN 0 ELSE blocked[q]
           /\ \A q \in Keys : factor'[q] = IF q = k THEN 1 ELSE factor[q]
  BY Settings DEF TypeOK, NoteSuccess, Cleared

\* A refusal on the free route brings the count of its bucket nearer to the move
\* and stops there; any other leaves the policy alone.
LEMMA PolicyRefusalFacts ==
    ASSUME TypeOK, CountIsTrue, NEW b \in Buckets, NEW via \in Routes, PolicyRefusal(b, via)
    PROVE  /\ refusals' \in [Buckets -> 0..AfterRefusals] /\ escalated' \subseteq Buckets
           /\ used' = used
           /\ \A c \in Buckets : c \in escalated' <=> refusals'[c] = AfterRefusals
           /\ ProxyMode # "off" =>
                \A c \in Buckets :
                    refusals'[c] = IF c = b /\ via = "direct"
                                   THEN Min2(refusals[c] + 1, AfterRefusals) ELSE refusals[c]
  <1>1. /\ refusals \in [Buckets -> 0..AfterRefusals] /\ escalated \subseteq Buckets
        /\ \A c \in Buckets : c \in escalated <=> refusals[c] = AfterRefusals
    BY DEF TypeOK, CountIsTrue
  <1>2. CASE CountsTowardsProxy(b, via)
    <2>1. refusals[b] \in 0..AfterRefusals /\ refusals[b] # AfterRefusals
      BY <1>1, <1>2 DEF CountsTowardsProxy
    <2>2. refusals[b] + 1 \in 0..AfterRefusals
      BY <2>1, Settings
    <2>3. /\ refusals' = [refusals EXCEPT ![b] = @ + 1]
          /\ escalated' = IF refusals'[b] < AfterRefusals THEN escalated ELSE escalated \cup {b}
          /\ used' = used /\ via = "direct"
      BY <1>2 DEF PolicyRefusal, CountsTowardsProxy
    <2>4. /\ refusals' \in [Buckets -> 0..AfterRefusals]
          /\ \A c \in Buckets : refusals'[c] = IF c = b THEN refusals[c] + 1 ELSE refusals[c]
      BY <1>1, <2>2, <2>3
    <2>5. \A c \in Buckets : c \in escalated' <=> refusals'[c] = AfterRefusals
      <3> SUFFICES ASSUME NEW c \in Buckets
                   PROVE  c \in escalated' <=> refusals'[c] = AfterRefusals
        OBVIOUS
      <3>1. CASE c = b
        BY <1>1, <1>2, <2>2, <2>3, <2>4, <3>1, Settings DEF CountsTowardsProxy
      <3>2. CASE c # b
        BY <1>1, <2>3, <2>4, <3>2
      <3> QED  BY <3>1, <3>2
    <2>6. \A c \in Buckets :
             refusals'[c] = IF c = b /\ via = "direct"
                            THEN Min2(refusals[c] + 1, AfterRefusals) ELSE refusals[c]
      BY <2>2, <2>3, <2>4, Settings DEF Min2
    <2> QED  BY <1>1, <2>3, <2>4, <2>5, <2>6
  <1>3. CASE ~CountsTowardsProxy(b, via)
    <2>1. UNCHANGED <<refusals, escalated, used>>
      BY <1>3 DEF PolicyRefusal
    <2>2. ProxyMode # "off" /\ via = "direct" => refusals[b] = AfterRefusals
      BY <1>1, <1>3 DEF CountsTowardsProxy
    <2>3. Min2(AfterRefusals + 1, AfterRefusals) = AfterRefusals
      BY Settings DEF Min2
    <2> QED  BY <1>1, <2>1, <2>2, <2>3
  <1> QED  BY <1>2, <1>3

LEMMA PolicySuccessFacts ==
    ASSUME TypeOK, CountIsTrue, NEW b \in Buckets, NEW via \in Routes, PolicySuccess(b, via)
    PROVE  /\ refusals' \in [Buckets -> 0..AfterRefusals] /\ escalated' \subseteq Buckets
           /\ used' = IF via = "proxy" THEN used + 1 ELSE used
           /\ \A c \in Buckets : c \in escalated' <=> refusals'[c] = AfterRefusals
           /\ \A c \in Buckets :
                refusals'[c] = IF c = b /\ via = "direct" THEN 0 ELSE refusals[c]
  <1>1. /\ refusals \in [Buckets -> 0..AfterRefusals] /\ escalated \subseteq Buckets
        /\ \A c \in Buckets : c \in escalated <=> refusals[c] = AfterRefusals
        /\ via = "direct" <=> via # "proxy"
    BY DEF TypeOK, CountIsTrue, Routes
  <1>2. CASE via = "proxy"
    BY <1>1, <1>2 DEF PolicySuccess
  <1>3. CASE via = "direct"
    BY <1>1, <1>3, Settings DEF PolicySuccess
  <1> QED  BY <1>1, <1>2, <1>3

\* Whoever leaves the gate leaves it as if it had never come.
LEMMA LeaveFacts ==
    ASSUME TypeOK, NEW r \in Requests, Leave(r)
    PROVE  /\ pc' \in [Requests -> Places] /\ route' \in [Requests -> Routes]
           /\ attempt' \in [Requests -> 0..Retries] /\ nap' \in [Requests -> Nat]
           /\ rest' = MinGap /\ rest' \in 0..MinGap
           /\ pc'[r] = "idle" /\ route'[r] = "direct" /\ attempt'[r] = 0 /\ nap'[r] = 0
           /\ \A q \in Requests : q # r =>
                /\ pc'[q] = pc[q] /\ route'[q] = route[q]
                /\ attempt'[q] = attempt[q] /\ nap'[q] = nap[q]
  BY Settings DEF TypeOK, Leave, Places, Routes

\* Who joins the queue asked for the cooldown of the route it goes with, and has
\* seen the budget unspent when that is the proxy.
LEMMA JoinFacts ==
    ASSUME TypeOK, NEW r \in Requests, Join(r)
    PROVE  /\ pc' \in [Requests -> Places] /\ route' \in [Requests -> Routes]
           /\ line' \in Seq(Requests)
           /\ pc'[r] = "queued" /\ route'[r] = ChosenRoute(r)
           /\ route'[r] = "proxy" => r \notin Browsers /\ RoutesViaProxy(Bucket(r))
           /\ \A q \in Requests : q # r => pc'[q] = pc[q] /\ route'[q] = route[q]
  <1>1. ChosenRoute(r) \in Routes
    BY KeyOf
  <1>2. ChosenRoute(r) = "proxy" => r \notin Browsers /\ RoutesViaProxy(Bucket(r))
    BY DEF ChosenRoute
  <1> QED
    BY <1>1, <1>2 DEF TypeOK, Join, Places

-----------------------------------------------------------------------------
(* The types, and the counts they rest on.                                 *)

\* The count of the policy goes with what the observer heard, refusal by refusal
\* and answer by answer.
LEMMA CountStays ==
    ASSUME TypeOK, CountIsTrue, NEW r \in Requests \ Browsers,
           \/ /\ PolicyRefusal(Bucket(r), route[r])
              /\ \E ra \in RetryAfters \cup {NoHeader} : NoteTold(Key(r), ra)
           \/ PolicySuccess(Bucket(r), route[r]) /\ NoteAnswered(Key(r))
    PROVE  CountIsTrue'
  <1> DEFINE b == Bucket(r)
             via == route[r]
  <1>1. /\ b \in Buckets /\ via \in Routes /\ Key(r) \in Keys
        /\ Key(r)[1] = b /\ Key(r)[2] = via
    BY KeyOf DEF TypeOK
  <1>2. /\ ProxyMode # "off" => \A c \in Buckets : refusals[c] = hist.direct[c]
    BY DEF CountIsTrue
  <1> HIDE DEF b, via
  <1>3. CASE PolicyRefusal(b, via) /\ \E ra \in RetryAfters \cup {NoHeader} : NoteTold(Key(r), ra)
    <2>1. PICK ra \in RetryAfters \cup {NoHeader} : NoteTold(Key(r), ra)
      BY <1>3
    <2>2. \A c \in Buckets :
             hist'.direct[c] = IF c = b /\ via = "direct"
                               THEN Min2(hist.direct[c] + 1, AfterRefusals)
                               ELSE hist.direct[c]
      BY <1>1, <2>1, ToldFacts
    <2>3. /\ \A c \in Buckets : c \in escalated' <=> refusals'[c] = AfterRefusals
          /\ ProxyMode # "off" =>
                \A c \in Buckets :
                    refusals'[c] = IF c = b /\ via = "direct"
                                   THEN Min2(refusals[c] + 1, AfterRefusals) ELSE refusals[c]
      BY <1>1, <1>3, PolicyRefusalFacts
    <2> QED  BY <1>2, <2>2, <2>3 DEF CountIsTrue
  <1>4. CASE PolicySuccess(b, via) /\ NoteAnswered(Key(r))
    <2>1. \A c \in Buckets :
             hist'.direct[c] = IF c = b /\ via = "direct" THEN 0 ELSE hist.direct[c]
      BY <1>1, <1>4, AnsweredFacts
    <2>2. /\ \A c \in Buckets : c \in escalated' <=> refusals'[c] = AfterRefusals
          /\ \A c \in Buckets :
                refusals'[c] = IF c = b /\ via = "direct" THEN 0 ELSE refusals[c]
      BY <1>1, <1>4, PolicySuccessFacts
    <2> QED  BY <1>2, <2>1, <2>2 DEF CountIsTrue
  <1> QED  BY <1>3, <1>4 DEF b, via

\* Nobody's attempts are disturbed by somebody who leaves.
LEMMA AttemptsStay ==
    ASSUME TypeOK, AttemptsCounted, NEW r \in Requests, Leave(r)
    PROVE  AttemptsCounted'
  BY LeaveFacts DEF AttemptsCounted

\* What else a fetch leaves behind need only be of its type.
LEMMA LeavingKeepsTypes ==
    ASSUME TypeOK, NEW r \in Requests, Leave(r), UNCHANGED <<line, robots, elsewhere, mood>>,
           blocked' \in [Keys -> 0..MaxWait], factor' \in [Keys -> 1..MaxFactor],
           refusals' \in [Buckets -> 0..AfterRefusals], escalated' \subseteq Buckets,
           used' \in Nat, hist' \in HistRecord
    PROVE  TypeOK'
  <1>1. /\ line' \in Seq(Requests) /\ robots' \in {"unknown", "allow", "deny"}
        /\ mood' \in {"friendly", "hostile"} /\ elsewhere' \in 0..OtherFetches
    BY DEF TypeOK
  <1>2. /\ pc' \in [Requests -> Places] /\ route' \in [Requests -> Routes]
        /\ attempt' \in [Requests -> 0..Retries] /\ nap' \in [Requests -> Nat]
        /\ rest' \in 0..MinGap
    BY LeaveFacts
  <1> QED
    BY <1>1, <1>2 DEF TypeOK

LEMMA BaseInit == Init => Base
  <1> SUFFICES ASSUME Init PROVE Base
    OBVIOUS
  <1>1. TypeOK
    <2>1. hist \in HistRecord
      BY Settings DEF Init, HistRecord
    <2> QED
      BY <2>1, Settings DEF Init, TypeOK, Places, Routes, Buckets
  <1>2. CountIsTrue
    BY Settings DEF Init, CountIsTrue
  <1>3. AttemptsCounted
    BY DEF Init, AttemptsCounted
  <1> QED  BY <1>1, <1>2, <1>3 DEF Base

LEMMA FetchKeepsBase ==
    ASSUME Base, NEW r \in Requests, Fetch(r)
    PROVE  Base'
  <1> USE DEF Base
  <1>1. TypeOK /\ CountIsTrue /\ AttemptsCounted
    OBVIOUS
  <1>2. CASE Arrive(r)
    <2>1. Join(r) /\ UNCHANGED <<attempt, nap, rest, cooldown, robots, policy, elsewhere, mood, hist>>
      BY <1>2 DEF Arrive
    <2>2. TypeOK'
      BY <2>1, JoinFacts DEF TypeOK, cooldown, policy
    <2>3. AttemptsCounted'
      BY <2>1, JoinFacts DEF AttemptsCounted
    <2>4. CountIsTrue'
      BY <2>1 DEF CountIsTrue, policy
    <2> QED  BY <2>2, <2>3, <2>4
  <1>3. CASE AskRobots(r)
    BY <1>3 DEF AskRobots, TypeOK, CountIsTrue, AttemptsCounted, Places, cooldown, policy
  <1>4. CASE HearsRobots(r)
    <2>1. PICK verdict \in {"allow", "deny"} : RobotsAnswer(r, verdict)
      BY <1>4 DEF HearsRobots
    <2>2. /\ UNCHANGED <<attempt, nap, rest, cooldown, policy, elsewhere, mood, hist>>
          /\ robots' \in {"unknown", "allow", "deny"}
      BY <2>1 DEF RobotsAnswer
    <2>3. CASE Join(r)
      <3>1. TypeOK'
        BY <2>2, <2>3, JoinFacts DEF TypeOK, cooldown, policy
      <3>2. AttemptsCounted'
        BY <2>2, <2>3, JoinFacts DEF AttemptsCounted
      <3>3. CountIsTrue'
        BY <2>2 DEF CountIsTrue, policy
      <3> QED  BY <3>1, <3>2, <3>3
    <2>4. CASE pc' = [pc EXCEPT ![r] = "idle"] /\ UNCHANGED <<route, line>>
      BY <2>2, <2>4 DEF TypeOK, CountIsTrue, AttemptsCounted, Places, cooldown, policy
    <2> QED  BY <2>1, <2>3, <2>4 DEF RobotsAnswer
  <1>5. CASE Enter(r)
    <2>1. Rechecked(r) \in {"idle", "pacing"} /\ rest \in Nat /\ "direct" \in Routes
      BY Settings DEF Rechecked, TypeOK, Routes
    <2>2. line' \in Seq(Requests)
      BY <1>5 DEF Enter, TypeOK
    <2>3. pc' \in [Requests -> Places] /\ route' \in [Requests -> Routes] /\ nap' \in [Requests -> Nat]
      BY <1>5, <2>1 DEF Enter, TypeOK, Places
    <2>4. TypeOK'
      BY <1>5, <2>2, <2>3 DEF Enter, TypeOK, cooldown, policy
    <2>5. AttemptsCounted'
      BY <1>5, <2>1 DEF Enter, TypeOK, AttemptsCounted
    <2>6. CountIsTrue'
      BY <1>5 DEF Enter, CountIsTrue, policy
    <2> QED  BY <2>4, <2>5, <2>6
  <1>6. CASE GoOut(r)
    <2>1. TypeOK'
      BY <1>6 DEF GoOut, TypeOK, Places, cooldown, policy
    <2>2. AttemptsCounted'
      BY <1>6 DEF GoOut, TypeOK, AttemptsCounted
    <2>3. CountIsTrue'
      BY <1>6 DEF GoOut, CountIsTrue, policy
    <2> QED  BY <2>1, <2>2, <2>3
  <1>7. CASE GiveUp(r)
    <2>1. Leave(r) /\ UNCHANGED <<line, cooldown, robots, policy, elsewhere, mood, hist>>
      BY <1>7 DEF GiveUp
    <2>2. TypeOK'
      BY <2>1, LeaveFacts DEF TypeOK, cooldown, policy
    <2>3. CountIsTrue'
      BY <2>1 DEF CountIsTrue, policy
    <2> QED  BY <2>1, <2>2, <2>3, AttemptsStay
  <1>8. CASE Fails(r)
    <2>1. NoteWire /\ UNCHANGED <<line, cooldown, robots, policy, elsewhere, mood>>
      BY <1>8 DEF Fails
    <2>2. CountIsTrue'
      BY <2>1, WireFacts DEF CountIsTrue, policy
    <2>3. CASE Leave(r)
      <3>1. TypeOK'
        BY <2>1, <2>3, LeaveFacts, WireFacts DEF TypeOK, cooldown, policy
      <3> QED  BY <2>2, <2>3, <3>1, AttemptsStay
    <2>4. CASE ~Leave(r)
      <3>1. /\ pc[r] = "sending"
            /\ pc' = [pc EXCEPT ![r] = "backoff"]
            /\ attempt' = [attempt EXCEPT ![r] = @ + 1]
            /\ nap' = [nap EXCEPT ![r] = Backoff]
            /\ UNCHANGED <<route, rest>>
        BY <1>8, <2>4 DEF Fails
      <3>2. attempt[r] \in 0..Retries /\ attempt[r] < Retries
        BY <3>1 DEF AttemptsCounted, TypeOK
      <3>3. attempt[r] + 1 \in 0..Retries /\ attempt[r] + 1 > 0
        BY <3>2, Settings
      <3>4. TypeOK'
        BY <2>1, <3>1, <3>3, WireFacts, Settings DEF TypeOK, Places, cooldown, policy
      <3>5. AttemptsCounted'
        BY <3>1, <3>3 DEF TypeOK, AttemptsCounted
      <3> QED  BY <2>2, <3>4, <3>5
    <2> QED  BY <2>3, <2>4
  <1>9. CASE \E ra \in RetryAfters \cup {NoHeader} : IsRefused(r, ra)
    <2>1. PICK ra \in RetryAfters \cup {NoHeader} : IsRefused(r, ra)
      BY <1>9
    <2>2. Leave(r) /\ UNCHANGED <<line, robots, elsewhere, mood>>
      BY <2>1 DEF IsRefused
    <2>3. CASE r \in Browsers
      <3>1. UNCHANGED <<cooldown, policy>> /\ NoteWire
        BY <2>1, <2>3 DEF IsRefused
      <3>2. TypeOK'
        BY <2>2, <3>1, LeaveFacts, WireFacts DEF TypeOK, cooldown, policy
      <3>3. CountIsTrue'
        BY <3>1, WireFacts DEF CountIsTrue, policy
      <3> QED  BY <2>2, <3>2, <3>3, AttemptsStay
    <2>4. CASE r \notin Browsers
      <3>1. /\ NoteRefusal(Key(r), ra) /\ PolicyRefusal(Bucket(r), route[r])
            /\ NoteTold(Key(r), ra)
        BY <2>1, <2>4 DEF IsRefused
      <3>2. CountIsTrue'
        BY <2>4, <3>1, CountStays
      <3>3. Key(r) \in Keys /\ Bucket(r) \in Buckets /\ route[r] \in Routes
        BY KeyOf DEF TypeOK
      <3>4. blocked' \in [Keys -> 0..MaxWait] /\ factor' \in [Keys -> 1..MaxFactor]
        BY <3>1, <3>3, RefusedFacts
      <3>5. /\ refusals' \in [Buckets -> 0..AfterRefusals] /\ escalated' \subseteq Buckets
            /\ used' = used
        BY <3>1, <3>3, PolicyRefusalFacts
      <3>6. hist' \in HistRecord
        BY <3>1, <3>3, ToldFacts
      <3>7. used' \in Nat
        BY <3>5 DEF TypeOK
      <3>8. TypeOK'
        BY <2>2, <3>4, <3>5, <3>6, <3>7, LeavingKeepsTypes
      <3> QED  BY <2>2, <3>2, <3>8, AttemptsStay
    <2> QED  BY <2>3, <2>4
  <1>10. CASE IsAnswered(r)
    <2>2. Leave(r) /\ UNCHANGED <<line, robots, elsewhere, mood>>
      BY <1>10 DEF IsAnswered
    <2>3. CASE r \in Browsers
      <3>1. UNCHANGED <<cooldown, policy>> /\ NoteWire
        BY <1>10, <2>3 DEF IsAnswered
      <3>2. TypeOK'
        BY <2>2, <3>1, LeaveFacts, WireFacts DEF TypeOK, cooldown, policy
      <3>3. CountIsTrue'
        BY <3>1, WireFacts DEF CountIsTrue, policy
      <3> QED  BY <2>2, <3>2, <3>3, AttemptsStay
    <2>4. CASE r \notin Browsers
      <3>1. /\ NoteSuccess(Key(r)) /\ PolicySuccess(Bucket(r), route[r])
            /\ NoteAnswered(Key(r))
        BY <1>10, <2>4 DEF IsAnswered
      <3>2. CountIsTrue'
        BY <2>4, <3>1, CountStays
      <3>3. Key(r) \in Keys /\ Bucket(r) \in Buckets /\ route[r] \in Routes
        BY KeyOf DEF TypeOK
      <3>4. blocked' \in [Keys -> 0..MaxWait] /\ factor' \in [Keys -> 1..MaxFactor]
        BY <3>1, <3>3, SuccessFacts
      <3>5. /\ refusals' \in [Buckets -> 0..AfterRefusals] /\ escalated' \subseteq Buckets
            /\ used' = IF route[r] = "proxy" THEN used + 1 ELSE used
        BY <3>1, <3>3, PolicySuccessFacts
      <3>6. hist' \in HistRecord
        BY <3>1, <3>3, AnsweredFacts
      <3>7. used' \in Nat
        BY <3>5 DEF TypeOK
      <3>8. TypeOK'
        BY <2>2, <3>4, <3>5, <3>6, <3>7, LeavingKeepsTypes
      <3> QED  BY <2>2, <3>2, <3>8, AttemptsStay
    <2> QED  BY <2>3, <2>4
  <1> QED
    BY <1>2, <1>3, <1>4, <1>5, <1>6, <1>7, <1>8, <1>9, <1>10 DEF Fetch, Ends

LEMMA BaseStays == Base /\ [Next]_vars => Base'
  <1> SUFFICES ASSUME Base, [Next]_vars PROVE Base'
    OBVIOUS
  <1> USE DEF Base
  <1>1. CASE \E r \in Requests : Fetch(r)
    BY <1>1, FetchKeepsBase
  <1>2. CASE Tick
    <2>1. \A n \in Nat : Less(n) \in Nat /\ Less(n) <= n
      BY DEF Less
    <2>2. /\ rest' \in 0..MinGap
          /\ nap' \in [Requests -> Nat]
      BY <1>2, <2>1, Settings DEF Tick, TypeOK
    <2>3. blocked' \in [Keys -> 0..MaxWait]
      BY <1>2, <2>1, Settings DEF Tick, TypeOK
    <2>4. UNCHANGED <<pc, route, attempt, line, factor, robots, policy, elsewhere, mood>>
      BY <1>2 DEF Tick
    <2>5. TypeOK'
      BY <1>2, <2>2, <2>3, <2>4, TickFacts DEF TypeOK, policy
    <2>6. CountIsTrue' /\ AttemptsCounted'
      BY <1>2, <2>4, TickFacts DEF CountIsTrue, AttemptsCounted, policy
    <2> QED  BY <2>5, <2>6
  <1>3. CASE MoodSwings
    BY <1>3 DEF MoodSwings, TypeOK, CountIsTrue, AttemptsCounted, fetches, cooldown, policy
  <1>4. CASE NewDay
    BY <1>4 DEF NewDay, TypeOK, CountIsTrue, AttemptsCounted, fetches, cooldown
  <1>5. CASE RobotsExpire
    BY <1>5 DEF RobotsExpire, TypeOK, CountIsTrue, AttemptsCounted, fetches, cooldown, policy
  <1>7. CASE OtherShopJoins
    BY <1>7, Settings
       DEF OtherShopJoins, TypeOK, CountIsTrue, AttemptsCounted, fetches, cooldown, policy
  <1>8. CASE OtherShopEnds
    BY <1>8, Settings
       DEF OtherShopEnds, TypeOK, CountIsTrue, AttemptsCounted, fetches, cooldown
  <1>6. CASE UNCHANGED vars
    BY <1>6 DEF vars, TypeOK, CountIsTrue, AttemptsCounted, fetches, cooldown, policy
  <1> QED
    BY <1>1, <1>2, <1>3, <1>4, <1>5, <1>6, <1>7, <1>8 DEF Next

-----------------------------------------------------------------------------
(* The daily budget: what was spent and what is on its way.                *)

\* The charged fetches are finitely many, and no more than there are fetches that
\* can be charged.
LEMMA PayingCounts ==
    /\ IsFiniteSet(Requests \ Browsers)
    /\ Cardinality(Requests \ Browsers) \in Nat
    /\ \A S \in SUBSET (Requests \ Browsers) :
         /\ IsFiniteSet(S) /\ Cardinality(S) \in Nat
         /\ Cardinality(S) <= Cardinality(Requests \ Browsers)
    /\ \A S, T \in SUBSET (Requests \ Browsers) :
         S \subseteq T => Cardinality(S) <= Cardinality(T)
    /\ \A S \in SUBSET (Requests \ Browsers) :
         \A r \in S : Cardinality(S \ {r}) = Cardinality(S) - 1
  <1>1. IsFiniteSet(Requests \ Browsers)
    BY FS_Subset, RequestsAssumption
  <1>2. \A S \in SUBSET (Requests \ Browsers) :
           IsFiniteSet(S) /\ Cardinality(S) \in Nat
    BY <1>1, FS_Subset, FS_CardinalityType
  <1>3. \A S, T \in SUBSET (Requests \ Browsers) :
           S \subseteq T => Cardinality(S) <= Cardinality(T)
    BY <1>2, FS_Subset
  <1>4. \A S \in SUBSET (Requests \ Browsers) :
           \A r \in S : Cardinality(S \ {r}) = Cardinality(S) - 1
    BY <1>2, FS_RemoveElement
  <1> QED
    BY <1>1, <1>2, <1>3, <1>4

\* Nothing is spent by a step that counts nothing and sends nobody to the proxy.
LEMMA NoMoreSpent ==
    ASSUME TypeOK, Spent, used' \in Nat, used' <= used, Paying' \subseteq Paying,
           UNCHANGED elsewhere
    PROVE  Spent'
  <1>1. Paying \in SUBSET (Requests \ Browsers) /\ Paying' \in SUBSET (Requests \ Browsers)
    BY DEF Paying
  <1>2. /\ Cardinality(Paying) \in Nat /\ Cardinality(Paying') \in Nat
        /\ Cardinality(Paying') <= Cardinality(Paying)
        /\ Cardinality(Requests \ Browsers) \in Nat
    BY <1>1, PayingCounts
  <1> QED
    BY <1>2, Settings DEF TypeOK, Spent, Max2

\* Whoever is sent to the proxy saw some of the budget left.
LEMMA JoinSpends ==
    ASSUME TypeOK, Spent, NEW r \in Requests, Join(r), UNCHANGED <<used, elsewhere>>
    PROVE  Spent'
  <1>1. CASE r \notin Browsers /\ RoutesViaProxy(Bucket(r))
    <2>1. used < Budget
      BY <1>1, Settings DEF RoutesViaProxy, BudgetExhausted, TypeOK
    <2>2. /\ Paying' \in SUBSET (Requests \ Browsers)
          /\ Cardinality(Paying') \in Nat /\ Cardinality(Requests \ Browsers) \in Nat
          /\ Cardinality(Paying') <= Cardinality(Requests \ Browsers)
      BY PayingCounts DEF Paying
    <2> QED
      BY <2>1, <2>2, Settings DEF TypeOK, Spent, Max2
  <1>2. CASE ~(r \notin Browsers /\ RoutesViaProxy(Bucket(r)))
    <2>1. Paying' \subseteq Paying
      BY <1>2, JoinFacts DEF Paying
    <2> QED
      BY <2>1, NoMoreSpent DEF TypeOK
  <1> QED  BY <1>1, <1>2

\* Who leaves is not charged any more.
LEMMA LeavePays ==
    ASSUME TypeOK, NEW r \in Requests, Leave(r)
    PROVE  Paying' = Paying \ {r}
  BY LeaveFacts DEF Paying

LEMMA FetchKeepsSpent ==
    ASSUME Base, Spent, NEW r \in Requests, Fetch(r)
    PROVE  Spent'
  <1>1. TypeOK /\ CountIsTrue /\ TypeOK'
    BY FetchKeepsBase DEF Base
  <1>2. used \in Nat /\ used' \in Nat
    BY <1>1 DEF TypeOK
  <1>0. UNCHANGED elsewhere
    BY DEF Fetch, Ends, Arrive, AskRobots, HearsRobots, RobotsAnswer, Enter, GoOut, GiveUp,
           Fails, IsRefused, IsAnswered
  <1>3. CASE UNCHANGED used /\ (Paying' = Paying \ {r} \/ UNCHANGED route)
    <2>1. Paying' \subseteq Paying
      BY <1>3 DEF Paying
    <2> QED  BY <1>1, <1>2, <1>3, <2>1, <1>0, NoMoreSpent
  <1>4. CASE UNCHANGED used /\ Join(r)
    BY <1>1, <1>4, <1>0, JoinSpends
  <1>5. CASE Arrive(r)
    BY <1>4, <1>5 DEF Arrive, policy
  <1>6. CASE AskRobots(r) \/ GoOut(r)
    BY <1>3, <1>6 DEF AskRobots, GoOut, policy
  <1>7. CASE HearsRobots(r)
    BY <1>3, <1>4, <1>7 DEF HearsRobots, RobotsAnswer, policy
  <1>8. CASE Enter(r)
    <2>1. UNCHANGED used /\ (route' = [route EXCEPT ![r] = "direct"] \/ UNCHANGED route)
      BY <1>8 DEF Enter, policy
    <2>2. Paying' \subseteq Paying
      BY <1>1, <2>1 DEF Paying, TypeOK
    <2> QED  BY <1>1, <1>2, <2>1, <2>2, <1>0, NoMoreSpent
  <1>9. CASE GiveUp(r) \/ Fails(r)
    <2>1. UNCHANGED used /\ (Leave(r) \/ UNCHANGED route)
      BY <1>9 DEF GiveUp, Fails, policy
    <2> QED  BY <1>1, <1>3, <2>1, LeavePays
  <1>10. CASE \E ra \in RetryAfters \cup {NoHeader} : IsRefused(r, ra)
    <2>1. Leave(r) /\ UNCHANGED used
      BY <1>10 DEF IsRefused, PolicyRefusal, policy
    <2> QED  BY <1>1, <1>3, <2>1, LeavePays
  <1>11. CASE IsAnswered(r)
    <2>1. Paying' = Paying \ {r}
      BY <1>1, <1>11, LeavePays DEF IsAnswered
    <2>2. CASE r \in Browsers
      BY <1>3, <1>11, <2>1, <2>2 DEF IsAnswered, policy
    <2>3. CASE r \notin Browsers
      <3>1. used' = IF route[r] = "proxy" THEN used + 1 ELSE used
        BY <1>1, <1>11, <2>3, KeyOf, PolicySuccessFacts DEF IsAnswered, TypeOK
      <3>2. CASE r \in Paying
        <4>1. used' = used + 1
          BY <3>1, <3>2 DEF Paying
        <4>2. /\ Cardinality(Paying') = Cardinality(Paying) - 1
              /\ Cardinality(Paying) \in Nat /\ Cardinality(Paying') \in Nat
              /\ Cardinality(Requests \ Browsers) \in Nat
          <5>1. Paying \in SUBSET (Requests \ Browsers)
            BY DEF Paying
          <5>2. Paying \ {r} \in SUBSET (Requests \ Browsers)
            BY <5>1
          <5> QED  BY <2>1, <3>2, <5>1, <5>2, PayingCounts
        <4> QED  BY <1>0, <1>1, <1>2, <4>1, <4>2, Settings DEF Spent, Max2, TypeOK
      <3>3. CASE r \notin Paying
        <4>1. used' = used
          BY <2>3, <3>1, <3>3 DEF Paying
        <4> QED  BY <1>3, <2>1, <4>1
      <3> QED  BY <3>2, <3>3
    <2> QED  BY <2>2, <2>3
  <1> QED
    BY <1>5, <1>6, <1>7, <1>8, <1>9, <1>10, <1>11 DEF Fetch, Ends

LEMMA SpentStays == Base /\ Spent /\ [Next]_vars => Spent'
  <1> SUFFICES ASSUME Base, Spent, [Next]_vars PROVE Spent'
    OBVIOUS
  <1>1. TypeOK /\ TypeOK'
    BY BaseStays DEF Base
  <1>2. CASE \E r \in Requests : Fetch(r)
    BY <1>2, FetchKeepsSpent
  <1>3. CASE Tick \/ MoodSwings \/ RobotsExpire \/ UNCHANGED vars
    <2>1. UNCHANGED <<used, route, elsewhere>>
      BY <1>3 DEF Tick, MoodSwings, RobotsExpire, vars, fetches, policy
    <2> QED  BY <2>1 DEF Spent, Paying
  <1>4. CASE NewDay
    <2>1. used' = 0 /\ UNCHANGED <<route, elsewhere>>
      BY <1>4 DEF NewDay, fetches
    <2>2. used' \in Nat /\ used' <= used /\ Paying' \subseteq Paying
      BY <1>1, <2>1 DEF TypeOK, Paying
    <2> QED  BY <1>1, <2>1, <2>2, NoMoreSpent
  <1>5. /\ Paying \in SUBSET (Requests \ Browsers)
        /\ Cardinality(Paying) \in Nat /\ Cardinality(Requests \ Browsers) \in Nat
        /\ Cardinality(Paying) <= Cardinality(Requests \ Browsers)
        /\ used \in Nat /\ elsewhere \in Nat /\ elsewhere' \in Nat
        /\ elsewhere <= OtherFetches /\ elsewhere' <= OtherFetches
    <2>1. Paying \in SUBSET (Requests \ Browsers)
      BY DEF Paying
    <2>2. /\ used \in Nat /\ elsewhere \in Nat /\ elsewhere' \in Nat
          /\ elsewhere <= OtherFetches /\ elsewhere' <= OtherFetches
      BY <1>1, Settings DEF TypeOK
    <2> QED  BY <2>1, <2>2, PayingCounts
  <1>6. CASE OtherShopJoins
    <2>1. /\ used < Budget /\ elsewhere' = elsewhere + 1 /\ used' = used
          /\ Paying' = Paying
      BY <1>5, <1>6, Settings DEF OtherShopJoins, BudgetExhausted, policy, fetches, Paying
    <2> QED  BY <1>5, <2>1, Settings DEF Spent, Max2
  <1>7. CASE OtherShopEnds
    <2>1. /\ elsewhere > 0 /\ elsewhere' = elsewhere - 1 /\ used' \in {used, used + 1}
          /\ Paying' = Paying
      BY <1>7 DEF OtherShopEnds, fetches, Paying
    <2> QED  BY <1>5, <2>1, Settings DEF Spent, Max2
  <1> QED
    BY <1>2, <1>3, <1>4, <1>6, <1>7 DEF Next

-----------------------------------------------------------------------------
(* Theorems for any number of slots.                                       *)

LEMMA SpentInit == Init => Spent
  <1> SUFFICES ASSUME Init PROVE Spent
    OBVIOUS
  <1>1. Paying = {} /\ used = 0 /\ elsewhere = 0
    BY DEF Init, Paying, Requests
  <1>2. Cardinality(Paying) = 0
    BY <1>1, FS_EmptySet
  <1> QED
    BY <1>1, <1>2, PayingCounts, Settings DEF Spent, Max2

LEMMA Always == Spec => [](Base /\ Spent)
  <1>1. Init => Base /\ Spent
    BY BaseInit, SpentInit
  <1>2. Base /\ Spent /\ [Next]_vars => (Base /\ Spent)'
    BY BaseStays, SpentStays
  <1> QED
    BY <1>1, <1>2, PTL DEF Spec

\* Every variable of the gate, the cooldowns and the policy keeps its type: no
\* cooldown grows beyond MAX_COOLDOWN_SECONDS, no fetch makes more attempts than it
\* may, and no refusal is counted past the one that moves a bucket to the proxy
\* (fetchers.py, proxy.py).
THEOREM TypeCorrect == Spec => []TypeOK
  <1>1. Base => TypeOK
    BY DEF Base
  <1> QED
    BY <1>1, Always, PTL

\* What is counted against the daily budget of the proxy (budget_exhausted, totals)
\* overshoots it at most by the fetches, of all shops together, that had chosen their
\* route before the last of it was spent; those that are refused are never counted.
THEOREM BudgetIsNearlyKept == Spec => []BudgetNearlyKept
  <1>1. Base /\ Spent => BudgetNearlyKept
    <2> SUFFICES ASSUME Base, Spent PROVE BudgetNearlyKept
      OBVIOUS
    <2>1. Cardinality(Paying) \in Nat /\ used \in Nat /\ Cardinality(Requests \ Browsers) \in Nat
          /\ elsewhere \in Nat
      BY PayingCounts, Settings DEF Paying, Base, TypeOK
    <2> QED
      BY <2>1, Settings DEF Spent, BudgetNearlyKept, Max2
  <1> QED
    BY <1>1, Always, PTL

\* In the mode "on-refusal" nobody takes the paid route (route_via_proxy) but a
\* bucket that was refused proxy_after_refusals times on the free one since it last
\* worked there, whatever stragglers report meanwhile.
THEOREM ProxyIsPaidFor == Spec => ProxyIsEarned
  <1> DEFINE P == \A r \in Requests :
                    pc[r] # "queued" /\ pc'[r] = "queued" /\ route'[r] = "proxy"
                        /\ ProxyMode = "on-refusal"
                        => hist.direct[Bucket(r)] = AfterRefusals
  <1>1. Base /\ [Next]_vars => [P]_vars
    <2> SUFFICES ASSUME Base, Next, NEW r \in Requests,
                        pc[r] # "queued", pc'[r] = "queued", route'[r] = "proxy",
                        ProxyMode = "on-refusal"
                 PROVE  hist.direct[Bucket(r)] = AfterRefusals
      OBVIOUS
    <2>1. TypeOK /\ CountIsTrue
      BY DEF Base
    <2>2. \A q \in Requests : Leave(q) => pc'[r] # "queued"
      BY <2>1, LeaveFacts
    <2>3. PICK q \in Requests : Fetch(q)
      BY DEF Next, OtherShopJoins, OtherShopEnds, Tick, MoodSwings, NewDay, RobotsExpire,
             fetches
    <2>4. Join(q)
      BY <2>1, <2>2, <2>3 DEF Fetch, Ends, HearsRobots, Arrive, AskRobots, RobotsAnswer,
         Enter, Rechecked, GoOut, GiveUp, Fails, IsRefused, IsAnswered, TypeOK
    <2>5. q = r
      BY <2>1, <2>4, JoinFacts
    <2>6. Bucket(r) \in escalated
      BY <2>1, <2>4, <2>5, JoinFacts DEF RoutesViaProxy
    <2>7. Bucket(r) \in Buckets
      BY <2>1, KeyOf
    <2> QED
      BY <2>1, <2>6, <2>7 DEF CountIsTrue
  <1> QED
    BY <1>1, Always, PTL DEF Spec, ProxyIsEarned

-----------------------------------------------------------------------------
(* One slot of the semaphore.                                              *)

LEMMA InsideFacts ==
    ASSUME TypeOK
    PROVE  /\ \A q \in Requests : q \in Inside <=> pc[q] \in {"pacing", "sending", "backoff"}
           /\ Inside \subseteq Requests /\ IsFiniteSet(Inside) /\ Cardinality(Inside) \in Nat
           /\ Cardinality(Inside) < 1 => Inside = {}
  <1>1. Inside \subseteq Requests /\ IsFiniteSet(Requests)
    BY RequestsAssumption DEF Inside
  <1>2. IsFiniteSet(Inside) /\ Cardinality(Inside) \in Nat
    BY <1>1, FS_Subset, FS_CardinalityType
  <1>3. Cardinality(Inside) < 1 => Inside = {}
    <2>1. Cardinality(Inside) < 1 => Cardinality(Inside) = 0
      BY <1>2
    <2> QED  BY <1>2, <2>1, FS_EmptySet
  <1> QED
    BY <1>1, <1>2, <1>3 DEF Inside

\* The clocks of the observer and of the gate.
LEMMA Clocks ==
    ASSUME TypeOK
    PROVE  /\ hist.quiet \in 0..MinGap /\ rest \in 0..MinGap
           /\ \A r \in Requests : nap[r] \in Nat
           /\ \A k \in Keys :
                /\ hist.due[k] \in Nat /\ blocked[k] \in Nat
                /\ hist.row[k] \in 1..MaxFactor /\ factor[k] \in 1..MaxFactor
  BY Settings DEF TypeOK, HistRecord

\* When the only fetch inside leaves, nobody is inside and the gap begins.
LEMMA LastLeaves ==
    ASSUME TypeOK, OneInside, NEW r \in Requests, r \in Inside, Leave(r), hist'.quiet \in Nat
    PROVE  Inside' = {} /\ OneInside' /\ InsideMayAsk' /\ GapIsSlept'
  <1>1. \A q \in Requests : pc'[q] \notin {"pacing", "sending", "backoff"}
    <2> SUFFICES ASSUME NEW q \in Requests
                 PROVE  pc'[q] \notin {"pacing", "sending", "backoff"}
      OBVIOUS
    <2>1. CASE q = r
      BY <2>1, LeaveFacts
    <2>2. CASE q # r
      BY <2>2, LeaveFacts, InsideFacts DEF OneInside
    <2> QED  BY <2>1, <2>2
  <1>2. Inside' = {}
    BY <1>1 DEF Inside
  <1>3. rest' = MinGap
    BY LeaveFacts
  <1> QED
    BY <1>1, <1>2, <1>3, Settings DEF OneInside, InsideMayAsk, GapIsSlept

\* Who only queues, asks for robots.txt or is sent away changes nobody inside.
LEMMA OutsideStays ==
    ASSUME TypeOK, Alone, NEW r \in Requests, r \notin Inside,
           pc'[r] \in {"idle", "robots", "queued"},
           \A q \in Requests : q # r => pc'[q] = pc[q] /\ route'[q] = route[q],
           UNCHANGED <<nap, rest, cooldown, hist>>
    PROVE  Alone'
  <1>1. Inside' = Inside
    <2>1. \A q \in Requests : pc'[q] \in {"pacing", "sending", "backoff"}
                                <=> pc[q] \in {"pacing", "sending", "backoff"}
      BY InsideFacts
    <2> QED  BY <2>1 DEF Inside
  <1>2. \A q \in Inside : Key(q)' = Key(q)
    BY InsideFacts DEF Key, Bucket
  <1>3. OneInside' /\ PenaltyIsTrue' /\ SilenceIsKnown'
    BY <1>1 DEF Alone, OneInside, PenaltyIsTrue, SilenceIsKnown, cooldown
  <1>4. InsideMayAsk'
    <2>1. \A q \in Inside \ Browsers : hist'.due[Key(q)'] = 0
      BY <1>2 DEF Alone, InsideMayAsk
    <2> QED  BY <1>1, <2>1 DEF InsideMayAsk
  <1>5. GapIsSlept'
    BY <1>1 DEF Alone, GapIsSlept
  <1> QED
    BY <1>3, <1>4, <1>5 DEF Alone

\* Who enters finds nobody inside, has just seen its key free of silence, and
\* sleeps what is left of the gap.
LEMMA EnterKeepsAlone ==
    ASSUME Slots = 1, TypeOK, Alone, NEW r \in Requests, Enter(r)
    PROVE  Alone'
  <1>1. Inside = {}
    BY InsideFacts DEF Enter
  <1>2. UNCHANGED <<rest, cooldown, hist>>
    BY DEF Enter
  <1>3. CASE blocked[Key(r)] > 0
    <2>1. /\ pc' = [pc EXCEPT ![r] = "idle"] /\ route' = [route EXCEPT ![r] = "direct"]
          /\ UNCHANGED nap
      BY <1>3 DEF Enter, Rechecked
    <2>2. /\ r \notin Inside /\ pc'[r] \in {"idle", "robots", "queued"}
          /\ \A q \in Requests : q # r => pc'[q] = pc[q] /\ route'[q] = route[q]
      BY <1>1, <2>1 DEF TypeOK
    <2> QED  BY <1>2, <2>1, <2>2, OutsideStays
  <1>4. CASE ~(blocked[Key(r)] > 0)
    <2>1. /\ pc' = [pc EXCEPT ![r] = "pacing"] /\ nap' = [nap EXCEPT ![r] = rest]
          /\ UNCHANGED route
      BY <1>4 DEF Enter, Rechecked
    <2>2. /\ \A q \in Requests : pc'[q] \in {"pacing", "sending", "backoff"} <=> q = r
          /\ nap'[r] = rest
      BY <1>1, <2>1, InsideFacts DEF TypeOK
    <2>3. Inside' = {r}
      BY <2>2 DEF Inside
    <2>4. hist.due[Key(r)] = 0
      <3>1. Key(r) \in Keys
        BY KeyOf
      <3>2. /\ hist.due[Key(r)] \in Nat /\ blocked[Key(r)] \in Nat
            /\ hist.due[Key(r)] <= blocked[Key(r)]
        BY <3>1, Clocks DEF Alone, SilenceIsKnown
      <3> HIDE DEF Key
      <3> QED  BY <1>4, <3>2
    <2>5. OneInside' /\ PenaltyIsTrue' /\ SilenceIsKnown'
      BY <1>2, <2>3 DEF Alone, OneInside, PenaltyIsTrue, SilenceIsKnown, cooldown
    <2>6. InsideMayAsk'
      BY <1>2, <2>1, <2>3, <2>4 DEF InsideMayAsk, Key, Bucket
    <2>7. GapIsSlept'
      <3>1. hist'.quiet + rest >= MinGap
        BY <1>1, <1>2 DEF Alone, GapIsSlept
      <3> QED  BY <2>2, <2>3, <3>1 DEF GapIsSlept
    <2> QED  BY <2>5, <2>6, <2>7 DEF Alone
  <1> QED  BY <1>3, <1>4

\* A refusal lengthens the cooldown by what the shop is owed, and nobody is left
\* inside who could go out on a key that owes it.
LEMMA RefusalKeepsAlone ==
    ASSUME TypeOK, Alone, NEW r \in Requests \ Browsers, r \in Inside, Leave(r),
           NEW ra \in RetryAfters \cup {NoHeader},
           NoteRefusal(Key(r), ra), NoteTold(Key(r), ra)
    PROVE  Alone'
  <1> DEFINE k == Key(r)
             wait == Wait(ra, factor[k])
  <1>1. k \in Keys
    BY KeyOf
  <1>2. factor[k] = hist.row[k] /\ hist.due[k] = 0
    BY <1>1 DEF Alone, PenaltyIsTrue, InsideMayAsk
  <1>3. wait \in 0..MaxWait
    BY <1>1, Clocks, WaitIsBounded
  <1>4. wait = Wait(ra, hist.row[k])
    BY <1>2
  <1> HIDE DEF k, wait
  <1>5. /\ hist'.quiet = 0
        /\ \A q \in Keys :
             hist'.row[q] = IF q = k THEN Min2(2 * hist.row[k], MaxFactor) ELSE hist.row[q]
        /\ \A q \in Keys :
             hist'.due[q] = IF q = k \/ (k[1] = "page" /\ q = <<"catalog", k[2]>>)
                            THEN Max2(hist.due[q], wait) ELSE hist.due[q]
    BY <1>1, <1>4, ToldFacts DEF k
  <1>6. /\ \A q \in Keys :
             blocked'[q] = IF q = k THEN wait
                           ELSE IF k[1] = "page" /\ q = <<"catalog", k[2]>>
                           THEN Max2(blocked[q], wait) ELSE blocked[q]
        /\ \A q \in Keys :
             factor'[q] = IF q = k THEN Min2(2 * factor[k], MaxFactor) ELSE factor[q]
    <2>1. wait = Wait(ra, factor[k])
      BY DEF wait
    <2> QED  BY <1>1, <2>1, RefusedFacts DEF k
  <1>7. PenaltyIsTrue'
    BY <1>2, <1>5, <1>6 DEF Alone, PenaltyIsTrue
  <1>8. SilenceIsKnown'
    <2> SUFFICES ASSUME NEW q \in Keys PROVE hist'.due[q] <= blocked'[q]
      BY DEF SilenceIsKnown
    <2>1. hist.due[q] <= blocked[q] /\ hist.due[q] \in Nat /\ blocked[q] \in Nat
      BY Clocks DEF Alone, SilenceIsKnown
    <2>2. wait \in Nat
      BY <1>3, Settings
    <2>3. CASE q = k
      BY <1>2, <1>5, <1>6, <2>2, <2>3 DEF Max2
    <2>4. CASE q # k /\ k[1] = "page" /\ q = <<"catalog", k[2]>>
      <3>1. hist'.due[q] = Max2(hist.due[q], wait) /\ blocked'[q] = Max2(blocked[q], wait)
        BY <1>5, <1>6, <2>4
      <3> QED  BY <2>1, <2>2, <3>1 DEF Max2
    <2>5. CASE q # k /\ ~(k[1] = "page" /\ q = <<"catalog", k[2]>>)
      <3>1. hist'.due[q] = hist.due[q] /\ blocked'[q] = blocked[q]
        BY <1>5, <1>6, <2>5
      <3> QED  BY <2>1, <3>1
    <2> QED  BY <2>3, <2>4, <2>5
  <1>9. OneInside' /\ InsideMayAsk' /\ GapIsSlept'
    BY <1>5, LastLeaves DEF Alone
  <1> QED
    BY <1>7, <1>8, <1>9 DEF Alone

\* An answer ends a silence that nobody is owed any more.
LEMMA AnswerKeepsAlone ==
    ASSUME TypeOK, Alone, NEW r \in Requests \ Browsers, r \in Inside, Leave(r),
           NoteSuccess(Key(r)), NoteAnswered(Key(r))
    PROVE  Alone'
  <1> DEFINE k == Key(r)
  <1>1. k \in Keys
    BY KeyOf
  <1>2. hist.due[k] = 0
    BY <1>1 DEF Alone, InsideMayAsk
  <1> HIDE DEF k
  <1>3. /\ hist'.quiet = 0 /\ hist'.due = hist.due
        /\ \A q \in Keys : hist'.row[q] = IF q = k THEN 1 ELSE hist.row[q]
    BY <1>1, AnsweredFacts DEF k
  <1>4. /\ \A q \in Keys : blocked'[q] = IF q = k THEN 0 ELSE blocked[q]
        /\ \A q \in Keys : factor'[q] = IF q = k THEN 1 ELSE factor[q]
    BY <1>1, SuccessFacts DEF k
  <1>5. PenaltyIsTrue'
    BY <1>3, <1>4 DEF Alone, PenaltyIsTrue
  <1>6. SilenceIsKnown'
    BY <1>2, <1>3, <1>4 DEF Alone, SilenceIsKnown
  <1>7. OneInside' /\ InsideMayAsk' /\ GapIsSlept'
    BY <1>3, LastLeaves DEF Alone
  <1> QED
    BY <1>5, <1>6, <1>7 DEF Alone

\* Who is inside may go on to its request or to a backoff and stays the only one.
LEMMA InsideKeeps ==
    ASSUME TypeOK, Alone, NEW r \in Inside,
           \/ pc' = [pc EXCEPT ![r] = "sending"] /\ UNCHANGED nap
           \/ pc' = [pc EXCEPT ![r] = "backoff"] /\ nap' = [nap EXCEPT ![r] = Backoff],
           UNCHANGED <<route, rest, blocked, factor>>,
           hist'.due = hist.due, hist'.row = hist.row
    PROVE  Alone'
  <1>1. /\ r \in Requests
        /\ \A q \in Requests : pc'[q] \in {"pacing", "sending", "backoff"} <=> q \in Inside
        /\ pc'[r] # "pacing"
    BY InsideFacts DEF TypeOK
  <1>2. Inside' = Inside /\ \A q \in Inside : Key(q)' = Key(q)
    BY <1>1, InsideFacts DEF Inside, Key, Bucket
  <1>3. OneInside' /\ PenaltyIsTrue' /\ SilenceIsKnown'
    BY <1>2 DEF Alone, OneInside, PenaltyIsTrue, SilenceIsKnown
  <1>4. InsideMayAsk'
    BY <1>2 DEF Alone, InsideMayAsk
  <1>5. GapIsSlept'
    <2>1. \A q \in Requests : pc'[q] # "pacing"
      BY <1>1 DEF Alone, OneInside
    <2> QED  BY <1>2, <2>1 DEF GapIsSlept
  <1> QED
    BY <1>3, <1>4, <1>5 DEF Alone

\* Who leaves without a word about a key changes no cooldown.
LEMMA WireKeepsAlone ==
    ASSUME TypeOK, Alone, NEW r \in Requests, r \in Inside, Leave(r), NoteWire,
           UNCHANGED cooldown
    PROVE  Alone'
  <1>1. hist'.quiet = 0 /\ hist'.due = hist.due /\ hist'.row = hist.row
    BY WireFacts
  <1>2. PenaltyIsTrue' /\ SilenceIsKnown'
    BY <1>1 DEF Alone, PenaltyIsTrue, SilenceIsKnown, cooldown
  <1> QED
    BY <1>1, <1>2, LastLeaves DEF Alone

LEMMA FetchKeepsAlone ==
    ASSUME Slots = 1, Base, Alone, NEW r \in Requests, Fetch(r)
    PROVE  Alone'
  <1>1. TypeOK
    BY DEF Base
  <1>2. CASE Arrive(r) \/ AskRobots(r) \/ HearsRobots(r)
    <2>1. UNCHANGED <<nap, rest, cooldown, hist>>
      BY <1>2 DEF Arrive, AskRobots, HearsRobots, RobotsAnswer
    <2>2. r \notin Inside
      BY <1>1, <1>2, InsideFacts DEF Arrive, AskRobots, HearsRobots, RobotsAnswer
    <2>3. \/ Join(r)
          \/ /\ pc' = [pc EXCEPT ![r] = "robots"] \/ pc' = [pc EXCEPT ![r] = "idle"]
             /\ UNCHANGED route
      BY <1>2 DEF Arrive, AskRobots, HearsRobots, RobotsAnswer
    <2>4. /\ pc'[r] \in {"idle", "robots", "queued"}
          /\ \A q \in Requests : q # r => pc'[q] = pc[q] /\ route'[q] = route[q]
      BY <1>1, <2>3, JoinFacts DEF TypeOK
    <2> QED  BY <1>1, <2>1, <2>2, <2>4, OutsideStays
  <1>3. CASE Enter(r)
    BY <1>1, <1>3, EnterKeepsAlone
  <1>4. CASE GoOut(r)
    <2>1. /\ pc' = [pc EXCEPT ![r] = "sending"] /\ r \in Inside
          /\ UNCHANGED <<route, nap, rest, cooldown, hist>>
      BY <1>1, <1>4, InsideFacts DEF GoOut
    <2> QED  BY <1>1, <2>1, InsideKeeps DEF cooldown
  <1>5. CASE GiveUp(r)
    <2>1. r \in Inside /\ Leave(r) /\ UNCHANGED <<cooldown, hist>>
      BY <1>1, <1>5, InsideFacts DEF GiveUp
    <2>2. hist'.quiet \in Nat
      BY <1>1, <2>1, Clocks, Settings
    <2>3. PenaltyIsTrue' /\ SilenceIsKnown'
      BY <2>1 DEF Alone, PenaltyIsTrue, SilenceIsKnown, cooldown
    <2> QED  BY <1>1, <2>1, <2>2, <2>3, LastLeaves DEF Alone
  <1>6. CASE Fails(r)
    <2>1. r \in Inside /\ NoteWire /\ UNCHANGED cooldown
      BY <1>1, <1>6, InsideFacts DEF Fails
    <2>2. CASE Leave(r)
      BY <1>1, <2>1, <2>2, WireKeepsAlone
    <2>3. CASE ~Leave(r)
      <3>1. /\ pc' = [pc EXCEPT ![r] = "backoff"] /\ UNCHANGED <<route, rest>>
            /\ nap' = [nap EXCEPT ![r] = Backoff]
        BY <1>6, <2>3 DEF Fails
      <3>2. hist'.due = hist.due /\ hist'.row = hist.row
        BY <1>1, <2>1, WireFacts
      <3> QED  BY <1>1, <2>1, <3>1, <3>2, InsideKeeps DEF cooldown
    <2> QED  BY <2>2, <2>3
  <1>7. CASE \E ra \in RetryAfters \cup {NoHeader} : IsRefused(r, ra)
    <2>1. PICK ra \in RetryAfters \cup {NoHeader} : IsRefused(r, ra)
      BY <1>7
    <2>2. r \in Inside /\ Leave(r)
      BY <1>1, <2>1, InsideFacts DEF IsRefused
    <2>3. CASE r \in Browsers
      BY <1>1, <2>1, <2>2, <2>3, WireKeepsAlone DEF IsRefused
    <2>4. CASE r \notin Browsers
      <3>1. NoteRefusal(Key(r), ra) /\ NoteTold(Key(r), ra)
        BY <2>1, <2>4 DEF IsRefused
      <3> QED  BY <1>1, <2>2, <2>4, <3>1, RefusalKeepsAlone
    <2> QED  BY <2>3, <2>4
  <1>8. CASE IsAnswered(r)
    <2>1. r \in Inside /\ Leave(r)
      BY <1>1, <1>8, InsideFacts DEF IsAnswered
    <2>2. CASE r \in Browsers
      BY <1>1, <1>8, <2>1, <2>2, WireKeepsAlone DEF IsAnswered
    <2>3. CASE r \notin Browsers
      BY <1>1, <1>8, <2>1, <2>3, AnswerKeepsAlone DEF IsAnswered
    <2> QED  BY <2>2, <2>3
  <1> QED
    BY <1>2, <1>3, <1>4, <1>5, <1>6, <1>7, <1>8 DEF Fetch, Ends

LEMMA TickKeepsAlone ==
    ASSUME TypeOK, Alone, Tick
    PROVE  Alone'
  <1>1. /\ UNCHANGED <<pc, route, factor>>
        /\ nap' = [r \in Requests |-> Less(nap[r])] /\ rest' = Less(rest)
        /\ blocked' = [k \in Keys |-> Less(blocked[k])]
    BY DEF Tick
  <1>2. Inside' = Inside /\ \A r \in Inside : Key(r)' = Key(r)
    BY <1>1 DEF Inside, Key, Bucket
  <1>3. OneInside' /\ PenaltyIsTrue'
    BY <1>1, <1>2, TickFacts DEF Alone, OneInside, PenaltyIsTrue
  <1>4. \A m, n \in Nat : m <= n => Less(m) <= Less(n)
    BY DEF Less
  <1>5. SilenceIsKnown'
    <2> SUFFICES ASSUME NEW k \in Keys PROVE hist'.due[k] <= blocked'[k]
      BY DEF SilenceIsKnown
    <2>1. hist'.due[k] = Less(hist.due[k]) /\ blocked'[k] = Less(blocked[k])
      BY <1>1, TickFacts
    <2>2. hist.due[k] \in Nat /\ blocked[k] \in Nat /\ hist.due[k] <= blocked[k]
      BY Clocks DEF Alone, SilenceIsKnown
    <2> QED  BY <1>4, <2>1, <2>2
  <1>6. InsideMayAsk'
    <2> SUFFICES ASSUME NEW r \in Inside \ Browsers PROVE hist'.due[Key(r)] = 0
      BY <1>2 DEF InsideMayAsk
    <2>1. Key(r) \in Keys /\ hist.due[Key(r)] = 0
      BY KeyOf, InsideFacts DEF Alone, InsideMayAsk
    <2>2. hist'.due[Key(r)] = Less(hist.due[Key(r)])
      BY <2>1, TickFacts
    <2> QED  BY <2>1, <2>2 DEF Less
  <1>7. GapIsSlept'
    <2>1. \A q \in 0..MinGap : \A n \in Nat :
             q + n >= MinGap => Min2(q + 1, MinGap) + Less(n) >= MinGap
      BY Settings DEF Min2, Less
    <2>2. hist.quiet \in 0..MinGap /\ rest \in Nat /\ \A r \in Requests : nap[r] \in Nat
      BY Clocks, Settings
    <2>3. Inside' = {} => hist'.quiet + rest' >= MinGap
      <3> SUFFICES ASSUME Inside = {} PROVE hist'.quiet + Less(rest) >= MinGap
        BY <1>1, <1>2
      <3>1. ~(\E r \in Requests : pc[r] = "sending")
        BY InsideFacts
      <3>2. hist'.quiet = Min2(hist.quiet + 1, MinGap)
        BY <3>1, TickFacts
      <3> QED  BY <2>1, <2>2, <3>2 DEF Alone, GapIsSlept
    <2>4. ASSUME NEW r \in Requests, pc[r] = "pacing"
          PROVE  hist'.quiet + nap'[r] >= MinGap
      <3>1. ~(\E q \in Requests : pc[q] = "sending")
        BY <2>4, InsideFacts DEF Alone, OneInside
      <3>2. hist'.quiet = Min2(hist.quiet + 1, MinGap)
        BY <3>1, TickFacts
      <3>3. nap'[r] = Less(nap[r])
        BY <1>1
      <3> QED  BY <2>1, <2>2, <2>4, <3>2, <3>3 DEF Alone, GapIsSlept
    <2> QED  BY <1>1, <2>3, <2>4 DEF GapIsSlept
  <1> QED
    BY <1>3, <1>5, <1>6, <1>7 DEF Alone

LEMMA AloneStays ==
    ASSUME Slots = 1, Base, Alone, [Next]_vars
    PROVE  Alone'
  <1>1. CASE \E r \in Requests : Fetch(r)
    BY <1>1, FetchKeepsAlone
  <1>2. CASE Tick
    BY <1>2, TickKeepsAlone DEF Base
  <1>3. CASE OtherShopJoins \/ OtherShopEnds \/ MoodSwings \/ NewDay \/ RobotsExpire
             \/ UNCHANGED vars
    <2>1. UNCHANGED <<pc, route, nap, rest, blocked, factor, hist>>
      BY <1>3 DEF OtherShopJoins, OtherShopEnds, MoodSwings, NewDay, RobotsExpire, vars,
                  fetches, cooldown
    <2> QED
      BY <2>1 DEF Alone, OneInside, PenaltyIsTrue, SilenceIsKnown, InsideMayAsk, GapIsSlept,
         Inside, Key, Bucket
  <1> QED
    BY <1>1, <1>2, <1>3 DEF Next

LEMMA AloneInit == Init => Alone
  <1> SUFFICES ASSUME Init PROVE Alone
    OBVIOUS
  <1>1. Inside = {}
    BY DEF Init, Inside
  <1>2. \A r \in Requests : pc[r] # "pacing"
    BY DEF Init
  <1> QED
    BY <1>1, <1>2, Settings DEF Init, Alone, OneInside, PenaltyIsTrue, SilenceIsKnown,
       InsideMayAsk, GapIsSlept

\* A fetch that is on its way out of the gate comes from the gap or from a backoff.
LEMMA OnlyGoOut ==
    ASSUME TypeOK, [Next]_vars, NEW r \in Requests, GoesOut(r)
    PROVE  GoOut(r)
  <1>1. pc[r] # "sending" /\ pc'[r] = "sending"
    BY DEF GoesOut
  <1>2. \A q \in Requests : ~Leave(q) /\ ~Join(q)
    BY <1>1, LeaveFacts, JoinFacts
  <1>3. PICK q \in Requests : Fetch(q)
    BY <1>1 DEF Next, vars, OtherShopJoins, OtherShopEnds, Tick, MoodSwings, NewDay,
                  RobotsExpire, fetches
  <1>4. ~AskRobots(q) /\ ~Enter(q) /\ ~Arrive(q) /\ ~HearsRobots(q)
    BY <1>1, <1>2 DEF AskRobots, Enter, Rechecked, Arrive, HearsRobots, RobotsAnswer, TypeOK
  <1>5. ~GiveUp(q) /\ ~Ends(q)
    BY <1>1, <1>2 DEF GiveUp, Ends, Fails, IsRefused, IsAnswered, TypeOK
  <1>6. GoOut(q)
    BY <1>3, <1>4, <1>5 DEF Fetch
  <1> QED
    BY <1>1, <1>6 DEF GoOut, TypeOK

LEMMA AlwaysAlone ==
    ASSUME Slots = 1
    PROVE  Spec => [](Base /\ Alone)
  <1>1. Init => Base /\ Alone
    BY BaseInit, AloneInit
  <1>2. Base /\ Alone /\ [Next]_vars => (Base /\ Alone)'
    BY BaseStays, AloneStays
  <1> QED
    BY <1>1, <1>2, PTL DEF Spec

-----------------------------------------------------------------------------
(* Theorems for one slot, the default of per_domain_concurrency.  With two, a *)
(* fetch that paces beside one that is refused goes out all the same.       *)

\* A shop that refused a bucket over one route hears nothing more from it over
\* that route until the silence it asked for is over, doubled with every refusal
\* in a row and shared with the catalogue, however many fetches had queued at the
\* gate before the refusal (domain_gate, note_refusal, note_success).
THEOREM SilenceIsKept ==
    ASSUME Slots = 1
    PROVE  Spec => SilenceKept
  <1> DEFINE P == \A r \in Requests \ Browsers : GoesOut(r) => hist.due[Key(r)] = 0
  <1>1. Base /\ Alone /\ [Next]_vars => P
    <2> SUFFICES ASSUME Base, Alone, [Next]_vars, NEW r \in Requests \ Browsers, GoesOut(r)
                 PROVE  hist.due[Key(r)] = 0
      OBVIOUS
    <2>1. TypeOK /\ GoOut(r)
      BY OnlyGoOut DEF Base
    <2>2. r \in Inside
      BY <2>1, InsideFacts DEF GoOut
    <2> QED  BY <2>2 DEF Alone, InsideMayAsk
  <1> HIDE DEF P
  <1>2. Spec => [][P]_vars
    BY <1>1, AlwaysAlone, PTL DEF Spec
  <1> QED
    BY <1>2 DEF SilenceKept, P

\* Between the end of one fetch and the first request of the next the shop has
\* per_domain_min_interval_seconds, measured from the end: however long a load took
\* and however often it was tried again (domain_gate).
THEOREM GapIsKept ==
    ASSUME Slots = 1
    PROVE  Spec => GapKept
  <1> DEFINE P == \A r \in Requests : GoesOut(r) /\ attempt[r] = 0 => hist.quiet = MinGap
  <1>1. Base /\ Alone /\ [Next]_vars => P
    <2> SUFFICES ASSUME Base, Alone, [Next]_vars, NEW r \in Requests, GoesOut(r), attempt[r] = 0
                 PROVE  hist.quiet = MinGap
      OBVIOUS
    <2>1. TypeOK /\ GoOut(r)
      BY OnlyGoOut DEF Base
    <2>2. pc[r] = "pacing" /\ nap[r] = 0
      BY <2>1 DEF GoOut, Base, AttemptsCounted
    <2>3. hist.quiet \in 0..MinGap /\ hist.quiet + nap[r] >= MinGap
      BY <2>1, <2>2, Clocks DEF Alone, GapIsSlept
    <2> QED  BY <2>2, <2>3, Settings
  <1> HIDE DEF P
  <1>2. Spec => [][P]_vars
    BY <1>1, AlwaysAlone, PTL DEF Spec
  <1> QED
    BY <1>2 DEF GapKept, P
=============================================================================
