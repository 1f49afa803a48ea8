----------------------------- MODULE JobsProofs -----------------------------
(***************************************************************************)
(* Theorems about Jobs for every set of rows, handlers and sweeps and      *)
(* every number of slots.                                                  *)
(***************************************************************************)
EXTENDS Jobs, FiniteSetTheorems, SequenceTheorems, TLAPS

\* Only a sweep that runs has a job of its own under way, and never a hunt.
SweepsRunRows ==
    \A s \in Sweepers :
        /\ stage[s] # "idle" => sweep[s].state = "running" /\ sweep[s].row \in Rows \ Hunts
        /\ sweep[s].left \subseteq Rows \ Hunts
        /\ sweep[s].state # "idle" => sweep[s].kind \in Kinds

\* Who is in the line waits there, once.
LineWaits ==
    /\ \A i \in 1..Len(line) : stage[line[i]] = "queued"
    /\ \A i, j \in 1..Len(line) : line[i] = line[j] => i = j

\* A handler at work works on a row.
WorkIsOnRows == \A h \in Handlers : pc[h] # "idle" => task[h].row \in Rows

-----------------------------------------------------------------------------
(* Types and slots.                                                        *)

Opens(h) == \E r \in Edited : OpenUpdate(h, r) \/ OpenToggle(h, r) \/ OpenDelete(h, r)
Acts(h)  == (\E r \in Edited : Create(h, r)) \/ Opens(h) \/ Commit(h) \/ CommitFails(h) \/ Reschedule(h)

\* What a handler does is nothing to the jobs and sweeps that are under way.
LEMMA ActsApart ==
    ASSUME NEW h \in Handlers, Acts(h)
    PROVE  UNCHANGED <<runs, sweeps>>
  BY DEF Acts, Opens, OpenUpdate, OpenToggle, OpenDelete, Loads, Create, Commit, CommitFails, Reschedule

\* And the other way round.
LEMMA RunsApart ==
    ASSUME \/ \E r \in Rows : Fire(r)
           \/ \E p \in Procs : GetsSlot(p) \/ Finish(p)
           \/ \E s \in Sweepers, kind \in Swept : Ask(s, kind)
           \/ \E s \in Sweepers : StartSweep(s) \/ EndSweep(s)
           \/ \E s \in Sweepers, r \in Rows : SweepRow(s, r)
    PROVE  UNCHANGED <<rows, jobs, dialog, hist>>
  BY DEF Fire, GetsSlot, Finish, Ask, StartSweep, EndSweep, SweepRow

LEMMA SweepsRunNoHunts ==
    ASSUME NEW kind \in Kinds, NEW left, left = {r \in OfKind(kind) : Enabled(r)}
    PROVE  left \subseteq Rows \ Hunts
  BY IdsAssumption DEF OfKind, Rows

LEMMA AppendFacts ==
    ASSUME NEW p \in Procs, line \in Seq(Procs), line' = Append(line, p)
    PROVE  /\ line' \in Seq(Procs) /\ Len(line') = Len(line) + 1
           /\ \A i \in 1..Len(line) : line'[i] = line[i]
           /\ line'[Len(line) + 1] = p
  BY AppendProperties

LEMMA TailFacts ==
    ASSUME line \in Seq(Procs), line # <<>>, line' = Tail(line)
    PROVE  /\ Head(line) = line[1] /\ 1 \in 1..Len(line)
           /\ line' \in Seq(Procs) /\ Len(line') = Len(line) - 1
           /\ \A i \in 1..Len(line') : line'[i] = line[i + 1] /\ i + 1 \in 1..Len(line)
  OBVIOUS

LEMMA NextLineWaits == TypeOK /\ LineWaits /\ [Next]_vars => LineWaits'
  <1> SUFFICES ASSUME TypeOK, LineWaits, [Next]_vars PROVE LineWaits'
    OBVIOUS
  <1>0. /\ line \in Seq(Procs) /\ Len(line) \in Nat /\ \A i \in 1..Len(line) : line[i] \in Procs
        /\ stage \in [Procs -> {"idle", "queued", "running"}]
    BY DEF TypeOK
  <1>1. ASSUME NEW p \in Procs, stage[p] = "idle", Queues(p) PROVE LineWaits'
    <2>1. stage'[p] = "queued" /\ \A q \in Procs : q # p => stage'[q] = stage[q]
      BY <1>0, <1>1 DEF Queues
    <2>2. \A i \in 1..Len(line) : line[i] # p /\ stage'[line[i]] = "queued"
      BY <1>0, <1>1, <2>1 DEF LineWaits
    <2>3. /\ line' \in Seq(Procs) /\ Len(line') = Len(line) + 1
          /\ \A i \in 1..Len(line) : line'[i] = line[i]
          /\ line'[Len(line) + 1] = p
      BY <1>0, <1>1, AppendFacts DEF Queues
    <2>4. \A i \in 1..Len(line') : i \in 1..Len(line) \/ i = Len(line) + 1
      BY <1>0, <2>3
    <2>5. \A i \in 1..Len(line') : stage'[line'[i]] = "queued"
      BY <2>1, <2>2, <2>3, <2>4
    <2>6. \A i, j \in 1..Len(line') : line'[i] = line'[j] => i = j
      BY <2>2, <2>3, <2>4 DEF LineWaits
    <2> QED BY <2>5, <2>6 DEF LineWaits
  <1>2. ASSUME NEW p \in Procs, GetsSlot(p) PROVE LineWaits'
    <2>1. /\ p = line[1] /\ 1 \in 1..Len(line) /\ Len(line') = Len(line) - 1
          /\ \A i \in 1..Len(line') : line'[i] = line[i + 1] /\ i + 1 \in 1..Len(line)
      BY <1>0, <1>2, TailFacts DEF GetsSlot
    <2>2. \A q \in Procs : q # p => stage'[q] = stage[q]
      BY <1>0, <1>2 DEF GetsSlot, Looks
    <2>3. Len(line') \in Int
      BY <1>0, <2>1
    <2>4. \A i \in 1..Len(line') : i + 1 # 1 /\ line[i + 1] # p
      BY <2>1, <2>3 DEF LineWaits
    <2>5. \A i \in 1..Len(line') : stage'[line'[i]] = "queued"
      BY <1>0, <2>1, <2>2, <2>4 DEF LineWaits
    <2>6. \A i, j \in 1..Len(line') : line'[i] = line'[j] => i + 1 = j + 1
      BY <2>1 DEF LineWaits
    <2>7. \A i, j \in 1..Len(line') : line'[i] = line'[j] => i = j
      BY <2>3, <2>6
    <2> QED BY <2>5, <2>7 DEF LineWaits
  \* Nobody in the line is running.
  <1>3. ASSUME NEW p \in Procs, stage[p] # "queued", UNCHANGED line,
               \A q \in Procs : q # p => stage'[q] = stage[q]
        PROVE  LineWaits'
    BY <1>0, <1>3 DEF LineWaits
  <1>4. ASSUME UNCHANGED runs PROVE LineWaits'
    BY <1>4 DEF runs, LineWaits
  <1>5. ASSUME NEW h \in Handlers, Acts(h) PROVE LineWaits'
    BY <1>4, <1>5, ActsApart
  <1>6. ASSUME NEW r \in Rows, Fire(r) PROVE LineWaits'
    <2>1. CASE r \in Hunts
      BY <1>0, <1>3, <1>6, <2>1 DEF Fire, Looks, Procs
    <2>2. CASE r \notin Hunts
      BY <1>1, <1>6, <2>2 DEF Fire, Procs
    <2> QED BY <2>1, <2>2
  <1>7. ASSUME NEW p \in Procs, Finish(p) PROVE LineWaits'
    BY <1>0, <1>3, <1>7 DEF Finish
  <1>8. ASSUME NEW s \in Sweepers, NEW r \in Rows, SweepRow(s, r) PROVE LineWaits'
    BY <1>1, <1>8 DEF SweepRow, Procs
  <1>9. ASSUME \/ \E s \in Sweepers, kind \in Swept : Ask(s, kind)
               \/ \E s \in Sweepers : StartSweep(s) \/ EndSweep(s)
               \/ UNCHANGED vars
        PROVE  UNCHANGED runs
    BY <1>9 DEF Ask, StartSweep, EndSweep, vars
  <1>10. CASE Restart
    BY <1>10 DEF Restart, LineWaits
  <1> QED BY <1>2, <1>4, <1>5, <1>6, <1>7, <1>8, <1>9, <1>10 DEF Next, Acts, Opens

LEMMA NextWorkIsOnRows == TypeOK /\ WorkIsOnRows /\ [Next]_vars => WorkIsOnRows'
  <1> SUFFICES ASSUME TypeOK, WorkIsOnRows, [Next]_vars PROVE WorkIsOnRows'
    OBVIOUS
  <1>1. ASSUME NEW h \in Handlers, Opens(h) PROVE WorkIsOnRows'
    <2>1. PICK r \in Edited, op \in {"update", "toggle", "delete"}, copy \in BOOLEAN : Loads(h, op, r, copy)
      BY <1>1 DEF Opens, OpenUpdate, OpenToggle, OpenDelete, Enabled
    <2> QED BY <2>1, ScopeAssumption DEF Loads, WorkIsOnRows, TypeOK
  <1>2. ASSUME NEW h \in Handlers, NEW r \in Edited, Create(h, r) PROVE WorkIsOnRows'
    BY <1>2, ScopeAssumption DEF Create, WorkIsOnRows, TypeOK
  <1>3. ASSUME NEW h \in Handlers, Commit(h) \/ CommitFails(h) \/ Reschedule(h) PROVE WorkIsOnRows'
    BY <1>3 DEF Commit, CommitFails, Reschedule, WorkIsOnRows, TypeOK
  <1>4. ASSUME UNCHANGED dialog PROVE WorkIsOnRows'
    BY <1>4 DEF dialog, WorkIsOnRows
  <1>5. CASE Restart
    BY <1>5 DEF Restart, WorkIsOnRows
  <1>6. CASE UNCHANGED vars
    BY <1>4, <1>6 DEF vars
  <1> QED BY <1>1, <1>2, <1>3, <1>4, <1>5, <1>6, RunsApart DEF Next, Opens

LEMMA NextSweepsRunRows == TypeOK /\ LineWaits /\ SweepsRunRows /\ [Next]_vars => SweepsRunRows'
  <1> SUFFICES ASSUME TypeOK, LineWaits, SweepsRunRows, [Next]_vars PROVE SweepsRunRows'
    OBVIOUS
  <1>1. ASSUME NEW h \in Handlers, Acts(h) PROVE SweepsRunRows'
    BY <1>1, ActsApart DEF runs, sweeps, SweepsRunRows
  <1>2. ASSUME NEW r \in Rows, Fire(r) PROVE SweepsRunRows'
    <2>1. \A s \in Sweepers : stage'[s] = stage[s] /\ sweep'[s] = sweep[s]
      BY <1>2, IdsAssumption DEF Fire, Looks, Queues, sweeps, TypeOK, Procs
    <2> QED BY <2>1 DEF SweepsRunRows
  <1>3. ASSUME NEW p \in Procs, GetsSlot(p) PROVE SweepsRunRows'
    <2>1. p = line[1] /\ 1 \in 1..Len(line)
      BY <1>3, TailFacts DEF GetsSlot, TypeOK
    <2>2. stage[p] = "queued"
      BY <2>1 DEF LineWaits
    <2>3. \A q \in Procs : q # p => stage'[q] = stage[q]
      BY <1>3 DEF GetsSlot, Looks, TypeOK
    <2>4. sweep' = sweep
      BY <1>3 DEF GetsSlot, sweeps
    <2> QED BY <2>2, <2>3, <2>4 DEF SweepsRunRows, Procs
  <1>4. ASSUME NEW p \in Procs, Finish(p) PROVE SweepsRunRows'
    BY <1>4 DEF Finish, sweeps, TypeOK, SweepsRunRows, Procs
  <1>5. ASSUME NEW s \in Sweepers, NEW kind \in Swept, Ask(s, kind) PROVE SweepsRunRows'
    <2>1. stage[s] = "idle" /\ stage' = stage
      BY <1>5 DEF Ask, runs, SweepsRunRows
    <2>2. sweep'[s].left \subseteq Rows \ Hunts /\ sweep'[s].kind \in Kinds
      BY <1>5, ScopeAssumption, SweepsRunNoHunts DEF Ask, TypeOK
    <2>3. \A q \in Sweepers : q # s => sweep'[q] = sweep[q]
      BY <1>5 DEF Ask, TypeOK
    <2> QED BY <2>1, <2>2, <2>3 DEF SweepsRunRows
  <1>6. ASSUME NEW s \in Sweepers, StartSweep(s) PROVE SweepsRunRows'
    <2>1. stage[s] = "idle" /\ stage' = stage
      BY <1>6 DEF StartSweep, runs, SweepsRunRows
    <2>2. /\ sweep'[s].left \subseteq sweep[s].left
          /\ sweep'[s].state # "idle" => sweep'[s].kind \in Kinds
      <3>1. CASE sweep[s].kind \in sweeping
        BY <1>6, <3>1 DEF StartSweep, Starts, TypeOK, NoSweep
      <3>2. CASE sweep[s].kind \notin sweeping
        <4>1. sweep[s].kind \in Kinds
          BY <1>6 DEF StartSweep, SweepsRunRows
        <4>2. sweep'[s] = [sweep[s] EXCEPT !.state = "running"] /\ sweep[s] \in Sweep
          BY <1>6, <3>2 DEF StartSweep, Starts, TypeOK
        <4> QED BY <4>1, <4>2 DEF Sweep
      <3> QED BY <3>1, <3>2
    <2>3. \A q \in Sweepers : q # s => sweep'[q] = sweep[q]
      BY <1>6 DEF StartSweep, Starts, TypeOK
    <2> QED BY <2>1, <2>2, <2>3 DEF SweepsRunRows
  <1>7. ASSUME NEW s \in Sweepers, EndSweep(s) PROVE SweepsRunRows'
    BY <1>7 DEF EndSweep, runs, NoSweep, TypeOK, SweepsRunRows
  <1>8. ASSUME NEW s \in Sweepers, NEW r \in Rows, SweepRow(s, r) PROVE SweepsRunRows'
    <2>1. /\ sweep'[s].state = "running" /\ sweep'[s].row = r
          /\ sweep'[s].left = sweep[s].left \ {r} /\ r \in sweep[s].left
          /\ sweep'[s].kind = sweep[s].kind /\ sweep[s].state = "running"
      BY <1>8 DEF SweepRow, TypeOK, Sweep
    <2>2. \A q \in Sweepers : q # s => sweep'[q] = sweep[q] /\ stage'[q] = stage[q]
      BY <1>8 DEF SweepRow, Queues, TypeOK, Procs
    <2> QED BY <2>1, <2>2 DEF SweepsRunRows
  <1>9. CASE Restart
    BY <1>9 DEF Restart, SweepsRunRows, NoSweep, Procs
  <1>10. CASE UNCHANGED vars
    BY <1>10 DEF vars, runs, sweeps, SweepsRunRows
  <1> QED BY <1>1, <1>2, <1>3, <1>4, <1>5, <1>6, <1>7, <1>8, <1>9, <1>10 DEF Next, Acts, Opens

LEMMA HoldersFinite ==
    ASSUME TypeOK
    PROVE  IsFiniteSet(Holders) /\ Cardinality(Holders) \in Nat
  <1>1. Holders \in SUBSET Procs
    BY DEF Holders
  <1> QED BY <1>1, IdsAssumption, FS_Subset, FS_CardinalityType

\* Only taking a slot adds to those who hold one.
LEMMA FewerHold ==
    ASSUME TypeOK, Holders' \subseteq Holders
    PROVE  Cardinality(Holders)' <= Slots
  <1>1. Holders' \in SUBSET Holders
    OBVIOUS
  <1>2. Cardinality(Holders') <= Cardinality(Holders) /\ Cardinality(Holders') \in Nat
    BY <1>1, HoldersFinite, FS_Subset, FS_CardinalityType
  <1> QED BY <1>2, HoldersFinite, SlotsAssumption DEF TypeOK

LEMMA NextHolders == TypeOK /\ SweepsRunRows /\ [Next]_vars => Cardinality(Holders)' <= Slots
  <1> SUFFICES ASSUME TypeOK, SweepsRunRows, [Next]_vars PROVE Cardinality(Holders)' <= Slots
    OBVIOUS
  <1>1. ASSUME NEW h \in Handlers, Acts(h) PROVE Holders' \subseteq Holders
    BY <1>1, ActsApart DEF runs, sweeps, Holders, Slotted, Target
  <1>2. ASSUME NEW r \in Rows, Fire(r) PROVE Holders' \subseteq Holders
    <2>1. \A p \in Procs : Slotted(p)' <=> Slotted(p)
      BY <1>2 DEF Fire, sweeps, Slotted, Target
    <2>2. r \in Hunts => ~Slotted(r)
      BY DEF Slotted, Target
    <2>3. \A p \in Procs : p # r => stage'[p] = stage[p]
      BY <1>2 DEF Fire, Looks, Queues, TypeOK
    <2>4. r \notin Hunts => stage'[r] = "queued"
      BY <1>2 DEF Fire, Queues, TypeOK, Procs
    <2> QED BY <2>1, <2>2, <2>3, <2>4 DEF Holders
  <1>3. ASSUME NEW p \in Procs, GetsSlot(p) PROVE Cardinality(Holders)' <= Slots
    <2>1. \A q \in Procs : Slotted(q)' <=> Slotted(q)
      BY <1>3 DEF GetsSlot, sweeps, Slotted, Target
    <2>2. \A q \in Procs : q # p => stage'[q] = stage[q]
      BY <1>3 DEF GetsSlot, Looks, TypeOK
    <2>3. Holders' \in SUBSET (Holders \cup {p})
      BY <2>1, <2>2 DEF Holders
    <2>4. IsFiniteSet(Holders \cup {p}) /\ Cardinality(Holders \cup {p}) <= Cardinality(Holders) + 1
      BY HoldersFinite, FS_AddElement
    <2>5. /\ Cardinality(Holders') <= Cardinality(Holders \cup {p})
          /\ Cardinality(Holders') \in Nat /\ Cardinality(Holders \cup {p}) \in Nat
      BY <2>3, <2>4, FS_Subset, FS_CardinalityType
    <2>6. Cardinality(Holders) < Slots
      BY <1>3 DEF GetsSlot
    <2> QED BY <2>4, <2>5, <2>6, HoldersFinite, SlotsAssumption
  <1>4. ASSUME NEW p \in Procs, Finish(p) PROVE Holders' \subseteq Holders
    BY <1>4 DEF Finish, sweeps, Holders, Slotted, Target, TypeOK
  \* A sweep that moves on has nothing under way.
  <1>5. ASSUME NEW s \in Sweepers, stage'[s] # "running",
               \A p \in Procs : p # s => stage'[p] = stage[p],
               \A q \in Sweepers : q # s => sweep'[q] = sweep[q]
        PROVE  Holders' \subseteq Holders
    <2>1. \A p \in Procs : p # s => (Slotted(p)' <=> Slotted(p))
      BY <1>5 DEF Slotted, Target, Procs
    <2> QED BY <1>5, <2>1 DEF Holders
  <1>6. ASSUME NEW s \in Sweepers, NEW kind \in Swept, Ask(s, kind) PROVE Holders' \subseteq Holders
    BY <1>5, <1>6 DEF Ask, runs, SweepsRunRows, TypeOK
  <1>7. ASSUME NEW s \in Sweepers, StartSweep(s) \/ EndSweep(s) PROVE Holders' \subseteq Holders
    BY <1>5, <1>7 DEF StartSweep, Starts, EndSweep, runs, SweepsRunRows, TypeOK
  <1>8. ASSUME NEW s \in Sweepers, NEW r \in Rows, SweepRow(s, r) PROVE Holders' \subseteq Holders
    BY <1>5, <1>8 DEF SweepRow, Queues, TypeOK, Procs
  <1>9. ASSUME Restart PROVE Holders' \subseteq Holders
    BY <1>9 DEF Restart, Holders
  <1>10. ASSUME UNCHANGED vars PROVE Holders' \subseteq Holders
    BY <1>10 DEF vars, runs, sweeps, Holders, Slotted, Target
  <1> QED BY <1>1, <1>2, <1>3, <1>4, <1>6, <1>7, <1>8, <1>9, <1>10, FewerHold DEF Next, Acts, Opens

\* What keeps the slots counted.
Order == SweepsRunRows /\ LineWaits /\ WorkIsOnRows

LEMMA NextOrder == TypeOK /\ Order /\ [Next]_vars => Order'
  BY NextSweepsRunRows, NextLineWaits, NextWorkIsOnRows DEF Order

LEMMA InitType == Init => TypeOK /\ Order
  <1> SUFFICES ASSUME Init PROVE TypeOK /\ Order
    OBVIOUS
  <1>1. Holders = {}
    BY DEF Init, Holders
  <1>2. Cardinality(Holders) <= Slots
    BY <1>1, FS_EmptySet, SlotsAssumption
  <1> QED BY <1>2 DEF Init, TypeOK, Task, Sweep, NoTask, NoSweep, Order, SweepsRunRows, LineWaits, WorkIsOnRows, Procs

LEMMA QueuesType ==
    ASSUME TypeOK, NEW p \in Procs, Queues(p)
    PROVE  stage' \in [Procs -> {"idle", "queued", "running"}] /\ line' \in Seq(Procs)
  BY AppendProperties DEF Queues, TypeOK

LEMMA NextType == TypeOK /\ Order /\ [Next]_vars => TypeOK'
  <1> SUFFICES ASSUME TypeOK, Order, [Next]_vars PROVE TypeOK'
    OBVIOUS
  <1>0. Cardinality(Holders)' <= Slots
    BY NextHolders DEF Order
  <1>1. ASSUME NEW h \in Handlers, Opens(h) PROVE TypeOK'
    <2>1. PICK r \in Edited, op \in {"update", "toggle", "delete"}, copy \in BOOLEAN : Loads(h, op, r, copy)
      BY <1>1 DEF Opens, OpenUpdate, OpenToggle, OpenDelete, Enabled
    <2>2. hist' \in [tangled: SUBSET Rows, alone: SUBSET Handlers]
      BY <2>1, ScopeAssumption DEF Loads, NoteOpen, TypeOK
    <2>3. [op |-> op, row |-> r, enabled |-> copy] \in Task \ {NoTask}
      BY ScopeAssumption DEF Task, NoTask
    <2> QED BY <1>0, <2>1, <2>2, <2>3 DEF Loads, TypeOK, runs, sweeps
  <1>2. ASSUME NEW h \in Handlers, NEW r \in Edited, Create(h, r) PROVE TypeOK'
    <2>1. hist' \in [tangled: SUBSET Rows, alone: SUBSET Handlers]
      BY <1>2, ScopeAssumption DEF Create, NoteOpen, TypeOK
    <2>2. [op |-> "create", row |-> r, enabled |-> TRUE] \in Task \ {NoTask}
      BY ScopeAssumption DEF Task, NoTask
    <2> QED BY <1>0, <1>2, <2>1, <2>2 DEF Create, TypeOK, runs, sweeps
  <1>3. ASSUME NEW h \in Handlers, Commit(h) PROVE TypeOK'
    <2>1. rows' \in [Rows -> {"absent", "off", "on"}]
      BY <1>3 DEF Commit, CommitUpdate, CommitToggle, CommitDelete, TypeOK
    <2> QED BY <1>0, <1>3, <2>1 DEF Commit, TypeOK, runs, sweeps
  <1>4. ASSUME NEW h \in Handlers, CommitFails(h) PROVE TypeOK'
    BY <1>0, <1>4 DEF CommitFails, TypeOK, runs, sweeps, Task, NoTask
  <1>5. ASSUME NEW h \in Handlers, Reschedule(h) PROVE TypeOK'
    <2>1. hist' \in [tangled: SUBSET Rows, alone: SUBSET Handlers]
      BY <1>5 DEF Reschedule, NoteDone, TypeOK
    <2>2. task[h] # NoTask /\ task[h] \in Task
      BY <1>5 DEF Reschedule, TypeOK
    <2>3. jobs' \subseteq Rows
      <3>1. task[h].row \in Rows
        BY <1>5 DEF Reschedule, Order, WorkIsOnRows
      <3> QED BY <1>5, <3>1 DEF Reschedule, JobsFor, TypeOK
    <2> QED BY <1>0, <1>5, <2>1, <2>3 DEF Reschedule, TypeOK, runs, sweeps, Task, NoTask
  <1>6. ASSUME NEW r \in Rows, Fire(r) PROVE TypeOK'
    <2>1. CASE r \in Hunts
      BY <1>0, <1>6, <2>1 DEF Fire, Looks, TypeOK, dialog, sweeps, Procs
    <2>2. CASE r \notin Hunts
      <3>1. r \in Procs /\ Queues(r)
        BY <1>6, <2>2 DEF Fire, Procs
      <3> QED BY <1>0, <1>6, <3>1, QueuesType DEF Fire, TypeOK, dialog, sweeps
    <2> QED BY <2>1, <2>2
  <1>7. ASSUME NEW p \in Procs, GetsSlot(p) \/ Finish(p) PROVE TypeOK'
    <2>1. GetsSlot(p) => line' \in Seq(Procs)
      BY HeadTailProperties DEF GetsSlot, TypeOK
    <2>2. stage' \in [Procs -> {"idle", "queued", "running"}]
      BY <1>7 DEF GetsSlot, Finish, Looks, TypeOK
    <2> QED BY <1>0, <1>7, <2>1, <2>2 DEF GetsSlot, Finish, TypeOK, dialog, sweeps
  <1>8. ASSUME NEW s \in Sweepers, NEW kind \in Swept, Ask(s, kind) PROVE TypeOK'
    <2>1. [state |-> "asked", kind |-> kind, row |-> NoRow, left |-> {r \in OfKind(kind) : Enabled(r)}] \in Sweep
      BY ScopeAssumption DEF Sweep, OfKind, Rows
    <2> QED BY <1>0, <1>8, <2>1 DEF Ask, TypeOK, dialog, runs
  <1>9. ASSUME NEW s \in Sweepers, StartSweep(s) PROVE TypeOK'
    <2>1. sweep[s].state = "asked" /\ sweep[s] \in Sweep
      BY <1>9 DEF StartSweep, TypeOK
    <2>2. NoSweep \in Sweep
      BY DEF NoSweep, Sweep
    <2>3. sweep' \in [Sweepers -> Sweep] /\ sweeping' \subseteq Kinds
      <3>1. CASE sweep[s].kind \in sweeping
        BY <1>9, <2>2, <3>1 DEF StartSweep, Starts, TypeOK
      <3>2. CASE sweep[s].kind \notin sweeping
        <4>1. [sweep[s] EXCEPT !.state = "running"] \in Sweep
          BY <2>1 DEF Sweep
        <4>2. sweep[s].kind \in Kinds
          BY <1>9 DEF StartSweep, Order, SweepsRunRows
        <4> QED BY <1>9, <3>2, <4>1, <4>2 DEF StartSweep, Starts, TypeOK
      <3> QED BY <3>1, <3>2
    <2> QED BY <1>0, <1>9, <2>3 DEF StartSweep, TypeOK, dialog, runs
  <1>10. ASSUME NEW s \in Sweepers, EndSweep(s) PROVE TypeOK'
    <2>1. NoSweep \in Sweep
      BY DEF NoSweep, Sweep
    <2> QED BY <1>0, <1>10, <2>1 DEF EndSweep, TypeOK, dialog, runs
  <1>11. ASSUME NEW s \in Sweepers, NEW r \in Rows, SweepRow(s, r) PROVE TypeOK'
    <2>1. sweep' \in [Sweepers -> Sweep]
      BY <1>11 DEF SweepRow, TypeOK, Sweep
    <2>2. s \in Procs /\ Queues(s)
      BY <1>11 DEF SweepRow, Procs
    <2> QED BY <1>0, <1>11, <2>1, <2>2, QueuesType DEF SweepRow, TypeOK, dialog
  <1>12. CASE Restart
    BY <1>0, <1>12 DEF Restart, TypeOK, Task, NoTask, Sweep, NoSweep
  <1>13. CASE UNCHANGED vars
    BY <1>0, <1>13 DEF vars, dialog, runs, sweeps, TypeOK
  <1> QED BY <1>1, <1>2, <1>3, <1>4, <1>5, <1>6, <1>7, <1>8, <1>9, <1>10, <1>11, <1>12, <1>13 DEF Next, Opens

\* Values of the variables; no more jobs and sweeps run at a time than there are
\* slots, and a handler is at work exactly if it has a task (limits.py:19-26).
THEOREM TypeCorrect == Spec => []TypeOK
  <1>1. TypeOK /\ Order /\ [Next]_vars => (TypeOK /\ Order)'
    BY NextType, NextOrder
  <1> QED BY <1>1, InitType, PTL DEF Spec

-----------------------------------------------------------------------------
(* Jobs and rows.                                                          *)

\* The copy of a handler that has not committed yet.
CopyIsRight(h) ==
    \/ task[h].op = "update" /\ (task[h].enabled <=> Enabled(task[h].row))
    \/ task[h].op = "toggle" /\ (task[h].enabled <=> ~Enabled(task[h].row))
    \/ task[h].op = "delete" /\ ~task[h].enabled

\* Who works on a row alone knows it: its copy agrees with the row it has loaded,
\* or with the one it has committed.
AloneKnows ==
    \A h \in hist.alone :
        /\ pc[h] # "idle"
        /\ Busy(task[h].row) = {h}
        /\ pc[h] = "loaded" => CopyIsRight(h)
        /\ pc[h] = "committed" => (task[h].enabled <=> Enabled(task[h].row))

\* Who works on a row that is not tangled works alone.
UntangledIsAlone == \A r \in Rows \ hist.tangled : Busy(r) \subseteq hist.alone

\* Until a handler commits, a row that is not tangled has a job exactly if it is
\* enabled.
JobsMatch ==
    \A r \in Rows \ hist.tangled :
        (\A h \in Busy(r) : pc[h] = "loaded") => (r \in jobs <=> Enabled(r))

Follows == AloneKnows /\ UntangledIsAlone /\ JobsMatch

\* A handler without a task is busy with no row.
LEMMA BusyOpens ==
    ASSUME TypeOK, NEW h \in Handlers, pc[h] = "idle", NEW r \in Rows, NEW op, NEW copy,
           task' = [task EXCEPT ![h] = [op |-> op, row |-> r, enabled |-> copy]]
    PROVE  /\ Busy(r)' = Busy(r) \cup {h}
           /\ \A x \in Rows : h \notin Busy(x) /\ (x # r => Busy(x)' = Busy(x))
  <1>1. task[h].row = NoRow
    BY DEF TypeOK, NoTask
  <1>2. \A x \in Rows : h \notin Busy(x)
    BY <1>1, IdsAssumption DEF Busy
  <1>3. task'[h].row = r /\ \A g \in Handlers : g # h => task'[g] = task[g]
    BY DEF TypeOK
  <1> QED BY <1>2, <1>3 DEF Busy

LEMMA BusyEnds ==
    ASSUME TypeOK, NEW h \in Handlers, task' = [task EXCEPT ![h] = NoTask]
    PROVE  \A x \in Rows : Busy(x)' = Busy(x) \ {h}
  <1>1. task'[h].row = NoRow /\ \A g \in Handlers : g # h => task'[g] = task[g]
    BY DEF TypeOK, NoTask
  <1> QED BY <1>1, IdsAssumption DEF Busy

\* Who is alone is a handler at work on a row, and nobody else's row is the same.
LEMMA AloneFacts ==
    ASSUME TypeOK, Order, AloneKnows, NEW g \in hist.alone
    PROVE  /\ g \in Handlers /\ task[g].row \in Rows
           /\ \A h \in Handlers : h # g /\ pc[h] # "idle" => task[h].row # task[g].row
  <1>1. g \in Handlers /\ pc[g] # "idle"
    BY DEF TypeOK, AloneKnows
  <1>2. Busy(task[g].row) = {g}
    BY DEF AloneKnows
  <1> QED BY <1>1, <1>2 DEF Order, WorkIsOnRows, Busy

\* Opening: the row is tangled if anybody else is busy with it.
LEMMA OpensFollows ==
    ASSUME TypeOK, Order, Follows, NEW h \in Handlers, Opens(h)
    PROVE  Follows'
  <1>1. PICK r \in Edited, op \in {"update", "toggle", "delete"}, copy \in BOOLEAN :
            /\ Loads(h, op, r, copy)
            /\ op = "update" => copy = Enabled(r)
            /\ op = "toggle" => copy = ~Enabled(r)
            /\ op = "delete" => copy = FALSE
    BY DEF Opens, OpenUpdate, OpenToggle, OpenDelete, Enabled
  <1>2. r \in Rows /\ pc[h] = "idle" /\ UNCHANGED <<rows, jobs>>
    BY <1>1, ScopeAssumption DEF Loads
  <1>3. /\ pc'[h] = "loaded" /\ task'[h] = [op |-> op, row |-> r, enabled |-> copy]
        /\ \A g \in Handlers : g # h => pc'[g] = pc[g] /\ task'[g] = task[g]
    BY <1>1 DEF Loads, TypeOK
  <1>4. /\ Busy(r)' = Busy(r) \cup {h}
        /\ \A x \in Rows : h \notin Busy(x) /\ (x # r => Busy(x)' = Busy(x))
    BY <1>1, <1>2, BusyOpens DEF Loads
  <1>5. h \notin hist.alone
    BY <1>2 DEF Follows, AloneKnows
  <1>6. CASE Busy(r) = {}
    <2>1. hist'.alone = hist.alone \cup {h} /\ hist'.tangled = hist.tangled
      BY <1>1, <1>6 DEF Loads, NoteOpen, TypeOK
    <2>2. CopyIsRight(h)'
      BY <1>1, <1>2, <1>3 DEF CopyIsRight, Enabled
    <2>3. ASSUME NEW g \in hist.alone
          PROVE  /\ g # h /\ task'[g] = task[g] /\ pc'[g] = pc[g] /\ Busy(task[g].row)' = {g}
                 /\ (CopyIsRight(g)' <=> CopyIsRight(g))
      <3>1. g \in Handlers /\ g # h /\ task[g].row \in Rows /\ g \in Busy(task[g].row)
        BY <1>5, AloneFacts DEF Follows, Busy
      <3>2. task'[g] = task[g] /\ pc'[g] = pc[g]
        BY <1>3, <3>1
      <3>3. Busy(task[g].row)' = {g}
        BY <1>4, <1>6, <3>1, <3>2 DEF Follows, AloneKnows
      <3> QED BY <1>2, <3>1, <3>2, <3>3 DEF CopyIsRight, Enabled
    <2>4. AloneKnows'
      BY <1>2, <1>3, <1>4, <1>6, <2>1, <2>2, <2>3 DEF Follows, AloneKnows, Enabled
    <2>5. UntangledIsAlone'
      BY <1>4, <1>6, <2>1 DEF Follows, UntangledIsAlone
    <2>6. JobsMatch'
      BY <1>2, <1>3, <1>4, <1>6, <2>1 DEF Follows, JobsMatch, Enabled, Busy
    <2> QED BY <2>4, <2>5, <2>6 DEF Follows
  <1>7. CASE Busy(r) # {}
    <2>1. hist'.alone = hist.alone \ Busy(r) /\ hist'.tangled = hist.tangled \cup {r}
      BY <1>1, <1>7 DEF Loads, NoteOpen
    <2>2. ASSUME NEW g \in hist'.alone
          PROVE  /\ g \in hist.alone /\ task'[g] = task[g] /\ pc'[g] = pc[g] /\ Busy(task[g].row)' = {g}
                 /\ (CopyIsRight(g)' <=> CopyIsRight(g))
      <3>1. g \in hist.alone /\ g \in Handlers /\ g # h /\ task[g].row \in Rows /\ g \in Busy(task[g].row)
        BY <1>5, <2>1, AloneFacts DEF Follows, Busy
      <3>2. task'[g] = task[g] /\ pc'[g] = pc[g]
        BY <1>3, <3>1
      <3>3. Busy(task[g].row)' = {g}
        BY <1>4, <2>1, <3>1, <3>2 DEF Follows, AloneKnows
      <3> QED BY <1>2, <3>1, <3>2, <3>3 DEF CopyIsRight, Enabled
    <2>3. AloneKnows'
      BY <1>2, <2>2 DEF Follows, AloneKnows, Enabled
    \* Rows that are not tangled keep whoever works on them.
    <2>4. UntangledIsAlone'
      <3>1. ASSUME NEW x \in Rows \ hist'.tangled PROVE Busy(x)' \subseteq hist'.alone
        <4>1. x # r /\ Busy(x)' = Busy(x) /\ Busy(x) \subseteq hist.alone
          BY <1>4, <2>1 DEF Follows, UntangledIsAlone
        <4>2. Busy(x) \cap Busy(r) = {}
          BY <4>1 DEF Busy
        <4> QED BY <2>1, <4>1, <4>2
      <3> QED BY <3>1 DEF UntangledIsAlone
    <2>5. JobsMatch'
      BY <1>2, <1>3, <1>4, <2>1 DEF Follows, JobsMatch, Enabled, Busy
    <2> QED BY <2>3, <2>4, <2>5 DEF Follows
  <1> QED BY <1>6, <1>7

LEMMA CreateFollows ==
    ASSUME TypeOK, Order, Follows, NEW h \in Handlers, NEW r \in Edited, Create(h, r)
    PROVE  Follows'
  <1>1. r \in Rows /\ pc[h] = "idle" /\ UNCHANGED jobs
    BY ScopeAssumption DEF Create
  <1>2. /\ pc'[h] = "committed" /\ task'[h] = [op |-> "create", row |-> r, enabled |-> TRUE]
        /\ \A g \in Handlers : g # h => pc'[g] = pc[g] /\ task'[g] = task[g]
    BY DEF Create, TypeOK
  <1>3. /\ Busy(r)' = Busy(r) \cup {h}
        /\ \A x \in Rows : h \notin Busy(x) /\ (x # r => Busy(x)' = Busy(x))
    BY <1>1, BusyOpens DEF Create
  <1>4. /\ Enabled(r)' /\ \A x \in Rows : x # r => (Enabled(x)' <=> Enabled(x))
    BY <1>1 DEF Create, TypeOK, Enabled
  <1>5. h \notin hist.alone
    BY <1>1 DEF Follows, AloneKnows
  <1>6. ASSUME NEW g \in hist.alone, task[g].row # r
        PROVE  /\ g # h /\ task'[g] = task[g] /\ pc'[g] = pc[g] /\ Busy(task[g].row)' = {g}
               /\ CopyIsRight(g)' <=> CopyIsRight(g)
               /\ Enabled(task[g].row)' <=> Enabled(task[g].row)
    <2>1. g \in Handlers /\ g # h /\ task[g].row \in Rows
      BY <1>5, AloneFacts DEF Follows
    <2>2. task'[g] = task[g] /\ pc'[g] = pc[g]
      BY <1>2, <2>1
    <2>3. Busy(task[g].row)' = {g}
      BY <1>3, <1>6, <2>1, <2>2 DEF Follows, AloneKnows
    <2>4. Enabled(task[g].row)' <=> Enabled(task[g].row)
      BY <1>4, <1>6, <2>1, <2>2
    <2> QED BY <1>6, <2>1, <2>2, <2>3, <2>4 DEF CopyIsRight
  <1>7. CASE Busy(r) = {}
    <2>1. hist'.alone = hist.alone \cup {h} /\ hist'.tangled = hist.tangled
      BY <1>7 DEF Create, NoteOpen, TypeOK
    <2>2. \A g \in hist.alone : task[g].row # r
      BY <1>7, AloneFacts DEF Follows, Busy
    <2>3. AloneKnows'
      BY <1>2, <1>3, <1>4, <1>6, <1>7, <2>1, <2>2 DEF Follows, AloneKnows
    <2>4. UntangledIsAlone'
      BY <1>3, <1>7, <2>1 DEF Follows, UntangledIsAlone
    <2>5. JobsMatch'
      BY <1>1, <1>2, <1>3, <1>4, <2>1 DEF Follows, JobsMatch, Busy
    <2> QED BY <2>3, <2>4, <2>5 DEF Follows
  <1>8. CASE Busy(r) # {}
    <2>1. hist'.alone = hist.alone \ Busy(r) /\ hist'.tangled = hist.tangled \cup {r}
      BY <1>8 DEF Create, NoteOpen
    <2>2. \A g \in hist'.alone : g \in hist.alone /\ task[g].row # r
      BY <2>1, AloneFacts DEF Follows, Busy
    <2>3. AloneKnows'
      BY <1>6, <2>2 DEF Follows, AloneKnows
    <2>4. UntangledIsAlone'
      <3>1. ASSUME NEW x \in Rows \ hist'.tangled PROVE Busy(x)' \subseteq hist'.alone
        <4>1. x # r /\ Busy(x)' = Busy(x) /\ Busy(x) \subseteq hist.alone
          BY <1>3, <2>1 DEF Follows, UntangledIsAlone
        <4>2. Busy(x) \cap Busy(r) = {}
          BY <4>1 DEF Busy
        <4> QED BY <2>1, <4>1, <4>2
      <3> QED BY <3>1 DEF UntangledIsAlone
    <2>5. JobsMatch'
      BY <1>1, <1>2, <1>3, <1>4, <2>1 DEF Follows, JobsMatch, Busy
    <2> QED BY <2>3, <2>4, <2>5 DEF Follows
  <1> QED BY <1>7, <1>8

\* A commit makes the row what the copy says.
LEMMA CommitFollows ==
    ASSUME TypeOK, Order, Follows, NEW h \in Handlers, Commit(h)
    PROVE  Follows'
  <1> DEFINE r == task[h].row
  <1>1. /\ r \in Rows /\ pc[h] = "loaded" /\ pc'[h] = "committed" /\ UNCHANGED <<jobs, task, hist>>
        /\ \A g \in Handlers : g # h => pc'[g] = pc[g]
    BY DEF Commit, Order, WorkIsOnRows, TypeOK
  <1>2. \A x \in Rows : x # r => (Enabled(x)' <=> Enabled(x))
    BY DEF Commit, CommitUpdate, CommitToggle, CommitDelete, Enabled, TypeOK
  <1>3. \A x : Busy(x)' = Busy(x)
    BY <1>1 DEF Busy
  <1>4. CopyIsRight(h) => (task[h].enabled <=> Enabled(r)')
    <2>1. CASE CommitUpdate(h)
      <3>1. task[h].op = "update" /\ rows' = rows
        BY <2>1 DEF CommitUpdate
      <3>2. task[h].op # "toggle" /\ task[h].op # "delete"
        BY <3>1
      <3>3. Enabled(r)' <=> Enabled(r)
        BY <1>1, <3>1 DEF Enabled
      <3> QED BY <3>2, <3>3 DEF CopyIsRight
    <2>2. CASE CommitToggle(h)
      BY <1>1, <2>2 DEF CommitToggle, Enabled, TypeOK
    <2>3. CASE CommitDelete(h)
      BY <1>1, <2>3 DEF CommitDelete, CopyIsRight, Enabled, TypeOK
    <2> QED BY <2>1, <2>2, <2>3 DEF Commit
  <1>5. AloneKnows'
    <2>1. ASSUME NEW g \in hist.alone, g # h
          PROVE  /\ pc'[g] # "idle" /\ Busy(task[g].row)' = {g}
                 /\ pc'[g] = "loaded" => CopyIsRight(g)'
                 /\ pc'[g] = "committed" => (task[g].enabled <=> Enabled(task[g].row)')
      <3>1. g \in Handlers /\ task[g].row \in Rows /\ task[g].row # r
        BY <1>1, <2>1, AloneFacts DEF Follows
      <3>2. pc'[g] = pc[g] /\ (Enabled(task[g].row)' <=> Enabled(task[g].row))
        BY <1>1, <1>2, <2>1, <3>1
      <3>3. CopyIsRight(g)' <=> CopyIsRight(g)
        BY <1>1, <3>2 DEF CopyIsRight
      <3>4. Busy(task[g].row)' = Busy(task[g].row)
        BY <1>1, <1>3
      <3> QED BY <2>1, <3>1, <3>2, <3>3, <3>4 DEF Follows, AloneKnows
    <2>2. h \in hist.alone => Busy(r)' = {h} /\ (task[h].enabled <=> Enabled(r)')
      BY <1>1, <1>3, <1>4 DEF Follows, AloneKnows
    <2> QED BY <1>1, <2>1, <2>2 DEF AloneKnows
  <1>6. UntangledIsAlone'
    BY <1>1, <1>3 DEF Follows, UntangledIsAlone
  <1>7. JobsMatch'
    <2>1. ASSUME NEW x \in Rows \ hist.tangled, \A g \in Busy(x) : pc'[g] = "loaded"
          PROVE  x \in jobs <=> Enabled(x)'
      <3>1. x # r /\ h \notin Busy(x)
        BY <1>1, <2>1 DEF Busy
      <3>2. \A g \in Busy(x) : pc[g] = "loaded"
        BY <1>1, <2>1, <3>1 DEF Busy
      <3> QED BY <1>2, <3>1, <3>2 DEF Follows, JobsMatch
    <2> QED BY <1>1, <1>3, <2>1 DEF JobsMatch
  <1> QED BY <1>5, <1>6, <1>7 DEF Follows

\* A handler that ends, with or without rescheduling, leaves the others alone.
LEMMA EndFacts ==
    ASSUME TypeOK, Order, Follows, NEW h \in Handlers,
           UNCHANGED rows, hist'.alone = hist.alone \ {h},
           pc' = [pc EXCEPT ![h] = "idle"], task' = [task EXCEPT ![h] = NoTask]
    PROVE  /\ AloneKnows'
           /\ \A x \in Rows : Busy(x)' = Busy(x) \ {h} /\ (Enabled(x)' <=> Enabled(x))
           /\ \A g \in Handlers : g # h => pc'[g] = pc[g] /\ task'[g] = task[g]
  <1>1. \A x \in Rows : Busy(x)' = Busy(x) \ {h} /\ (Enabled(x)' <=> Enabled(x))
    BY BusyEnds DEF Enabled
  <1>2. \A g \in Handlers : g # h => pc'[g] = pc[g] /\ task'[g] = task[g]
    BY DEF TypeOK
  <1>3. ASSUME NEW g \in hist'.alone
        PROVE  /\ pc'[g] # "idle" /\ Busy(task[g].row)' = {g}
               /\ pc'[g] = "loaded" => CopyIsRight(g)'
               /\ pc'[g] = "committed" => (task'[g].enabled <=> Enabled(task[g].row)')
    <2>1. g \in hist.alone /\ g # h /\ g \in Handlers /\ task[g].row \in Rows
      BY AloneFacts DEF Follows
    <2>2. pc'[g] = pc[g] /\ task'[g] = task[g]
      BY <1>2, <2>1
    <2>3. Busy(task[g].row)' = {g}
      BY <1>1, <2>1, <2>2 DEF Follows, AloneKnows
    <2>4. CopyIsRight(g)' <=> CopyIsRight(g)
      BY <1>1, <2>1, <2>2 DEF CopyIsRight
    <2>5. Enabled(task[g].row)' <=> Enabled(task[g].row)
      BY <1>1, <2>1, <2>2
    <2>6. /\ pc[g] # "idle"
          /\ pc[g] = "loaded" => CopyIsRight(g)
          /\ pc[g] = "committed" => (task[g].enabled <=> Enabled(task[g].row))
      BY <2>1 DEF Follows, AloneKnows
    <2> QED BY <2>2, <2>3, <2>4, <2>5, <2>6
  <1>4. AloneKnows'
    BY <1>3 DEF AloneKnows
  <1> QED BY <1>1, <1>2, <1>4

LEMMA CommitFailsFollows ==
    ASSUME TypeOK, Order, Follows, NEW h \in Handlers, CommitFails(h)
    PROVE  Follows'
  <1>1. hist'.alone = hist.alone \ {h} /\ hist'.tangled = hist.tangled /\ UNCHANGED <<rows, jobs>>
    BY DEF CommitFails, TypeOK
  <1>2. /\ AloneKnows'
        /\ \A x \in Rows : Busy(x)' = Busy(x) \ {h} /\ (Enabled(x)' <=> Enabled(x))
        /\ \A g \in Handlers : g # h => pc'[g] = pc[g]
    BY <1>1, EndFacts DEF CommitFails
  <1>3. UntangledIsAlone'
    BY <1>1, <1>2 DEF Follows, UntangledIsAlone
  <1>4. ASSUME NEW x \in Rows \ hist.tangled, \A g \in Busy(x) \ {h} : pc'[g] = "loaded"
        PROVE  x \in jobs <=> Enabled(x)
    <2>1. \A g \in Busy(x) : pc[g] = "loaded"
      BY <1>2, <1>4 DEF Busy, CommitFails
    <2> QED BY <2>1 DEF Follows, JobsMatch
  <1>5. JobsMatch'
    BY <1>1, <1>2, <1>4 DEF JobsMatch
  <1> QED BY <1>2, <1>3, <1>5 DEF Follows

\* Rescheduling makes the job what the copy says; who was alone made the row so too.
LEMMA RescheduleFollows ==
    ASSUME TypeOK, Order, Follows, NEW h \in Handlers, Reschedule(h)
    PROVE  Follows'
  <1> DEFINE r == task[h].row
  <1>1. /\ r \in Rows /\ pc[h] = "committed" /\ hist'.alone = hist.alone \ {h}
        /\ hist'.tangled = IF h \in hist.alone THEN hist.tangled \ {r} ELSE hist.tangled
        /\ jobs' = JobsFor(r, task[h].enabled)
    BY DEF Reschedule, NoteDone, Order, WorkIsOnRows
  <1>2. /\ AloneKnows'
        /\ \A x \in Rows : Busy(x)' = Busy(x) \ {h} /\ (Enabled(x)' <=> Enabled(x))
        /\ \A g \in Handlers : g # h => pc'[g] = pc[g]
    BY <1>1, EndFacts DEF Reschedule
  <1>3. h \in hist.alone => Busy(r) = {h} /\ (task[h].enabled <=> Enabled(r))
    BY <1>1 DEF Follows, AloneKnows
  <1>4. h \notin hist.alone => r \in hist.tangled
    BY <1>1 DEF Follows, UntangledIsAlone, Busy
  <1>5. UntangledIsAlone'
    BY <1>1, <1>2, <1>3 DEF Follows, UntangledIsAlone
  <1>6. ASSUME NEW x \in Rows \ hist'.tangled, \A g \in Busy(x) \ {h} : pc'[g] = "loaded"
        PROVE  x \in jobs' <=> Enabled(x)
    <2>1. CASE x = r
      <3>1. task[h].enabled <=> Enabled(r)
        BY <1>1, <1>3, <1>4, <1>6, <2>1
      <3>2. x \in jobs' <=> task[h].enabled
        BY <1>1, <2>1 DEF JobsFor
      <3> QED BY <2>1, <3>1, <3>2
    <2>2. CASE x # r
      <3>1. x \in Rows \ hist.tangled /\ h \notin Busy(x)
        BY <1>1, <1>6, <2>2 DEF Busy
      <3>2. \A g \in Busy(x) : pc[g] = "loaded"
        BY <1>2, <1>6, <3>1 DEF Busy
      <3>3. x \in jobs' <=> x \in jobs
        BY <1>1, <2>2 DEF JobsFor
      <3> QED BY <3>1, <3>2, <3>3 DEF Follows, JobsMatch
    <2> QED BY <2>1, <2>2
  <1>7. JobsMatch'
    BY <1>2, <1>6 DEF JobsMatch
  <1> QED BY <1>2, <1>5, <1>7 DEF Follows

LEMMA NextFollows == TypeOK /\ Order /\ Follows /\ [Next]_vars => Follows'
  <1> SUFFICES ASSUME TypeOK, Order, Follows, [Next]_vars PROVE Follows'
    OBVIOUS
  <1>1. ASSUME UNCHANGED <<rows, jobs, dialog, hist>> PROVE Follows'
    BY <1>1 DEF dialog, Follows, AloneKnows, UntangledIsAlone, JobsMatch, CopyIsRight, Enabled, Busy
  <1>2. ASSUME NEW h \in Handlers, Acts(h) PROVE Follows'
    BY <1>2, OpensFollows, CreateFollows, CommitFollows, CommitFailsFollows, RescheduleFollows DEF Acts
  \* The process starts: the jobs are those of the enabled rows.
  <1>3. CASE Restart
    <2>1. hist'.alone = {} /\ \A r \in Rows : r \in jobs' <=> Enabled(r)'
      BY <1>3 DEF Restart, Enabled
    <2>2. \A r \in Rows : Busy(r)' = {}
      BY <1>3, IdsAssumption DEF Restart, Busy, NoTask
    <2> QED BY <2>1, <2>2 DEF Follows, AloneKnows, UntangledIsAlone, JobsMatch
  <1>4. CASE UNCHANGED vars
    BY <1>1, <1>4 DEF vars
  <1> QED BY <1>1, <1>2, <1>3, <1>4, RunsApart DEF Next, Acts, Opens

\* When nobody is working on a row it has a job exactly if it is enabled, unless two
\* of its handlers overlapped and none has worked on it alone since
\* (scheduler.py:32-56, routes.py:399-463).
THEOREM JobsAreReconciled == Spec => []JobsFollowRows
  <1>1. Init => TypeOK /\ Order /\ Follows
    <2> SUFFICES ASSUME Init PROVE Follows
      BY InitType
    <2>1. \A r \in Rows : Busy(r) = {}
      BY IdsAssumption DEF Init, Busy, NoTask
    <2> QED BY <2>1 DEF Init, Follows, AloneKnows, UntangledIsAlone, JobsMatch, Enabled
  <1>2. TypeOK /\ Order /\ Follows /\ [Next]_vars => (TypeOK /\ Order /\ Follows)'
    BY NextType, NextOrder, NextFollows
  <1>3. Follows => JobsFollowRows
    BY DEF Follows, JobsMatch, JobsFollowRows
  <1> QED BY <1>1, <1>2, <1>3, PTL DEF Spec
=============================================================================
