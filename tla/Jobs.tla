-------------------------------- MODULE Jobs --------------------------------
(***************************************************************************)
(* Rows, their interval jobs, the job slots and the "check all" sweeps:    *)
(* app/scheduler.py, app/limits.py, the job entry points of the services,  *)
(* the handlers of app/web/routes.py that write rows and jobs, and the     *)
(* start of the process in app/main.py.                                    *)
(*                                                                         *)
(* A handler loads a row, commits it, and then (re)schedules the job from  *)
(* its own copy; each of these is a step, and handlers of one row overlap  *)
(* freely.  Jobs live in memory; the rows are reconciled with them only at *)
(* the start of the process, before anything is served.                    *)
(*                                                                         *)
(* What a check does is the subject of WatchCheck and Scanner; here it     *)
(* takes a slot, looks at the row and takes its time.                      *)
(***************************************************************************)
EXTENDS Integers, Sequences, FiniteSets

CONSTANTS
    Watches, Scans, Hunts,   \* ids of rows; hunts run without a slot and have no sweep
    Handlers,                \* coroutines serving the dashboard's forms and buttons
    Sweepers,                \* coroutines of "check all" requests
    Slots,                   \* settings.scheduler_max_workers
    Edited,                  \* the rows the operator works on, a subset of Rows
    Swept                    \* the sweeps the operator asks for, a subset of Kinds

Rows  == Watches \cup Scans \cup Hunts
Procs == Rows \cup Sweepers        \* a job is named by its row
Kinds == {"watches", "scanner"}
NoRow == "no row"
OfKind(kind) == IF kind = "watches" THEN Watches ELSE Scans

ASSUME IdsAssumption ==
    /\ Watches \cap Scans = {} /\ (Watches \cup Scans) \cap Hunts = {}
    /\ Rows \cap Sweepers = {} /\ IsFiniteSet(Procs) /\ NoRow \notin Rows
ASSUME SlotsAssumption == Slots \in Nat \ {0}
ASSUME ScopeAssumption == Edited \subseteq Rows /\ Swept \subseteq Kinds

VARIABLES
    rows,      \* the committed rows: absent, off or on
    jobs,      \* the rows the scheduler holds a job for
    pc,        \* where each handler stands
    task,      \* what it does: operation, row, and whether its copy is enabled
    stage,     \* where each job and each sweep stands with the row it runs
    line,      \* who waits for a slot, first come, first served
    sweep,     \* each sweep: its state, the row it runs, the rows it still has to
    sweeping,  \* _sweeping: the kinds a sweep is running for
    hist       \* observer: rows whose handlers overlapped, handlers that did not

dialog == <<pc, task>>
runs   == <<stage, line>>
sweeps == <<sweep, sweeping>>
vars   == <<rows, jobs, dialog, runs, sweeps, hist>>

NoTask  == [op |-> "none", row |-> NoRow, enabled |-> FALSE]
NoSweep == [state |-> "idle", kind |-> "none", row |-> NoRow, left |-> {}]
Task    == [op: {"none", "create", "update", "toggle", "delete"}, row: Rows \cup {NoRow}, enabled: BOOLEAN]
Sweep   == [state: {"idle", "asked", "running"}, kind: Kinds \cup {"none"},
            row: Rows \cup {NoRow}, left: SUBSET Rows]

Enabled(r)  == rows[r] = "on"
Target(p)   == IF p \in Rows THEN p ELSE sweep[p].row
Slotted(p)  == Target(p) \notin Hunts
Holders     == {p \in Procs : stage[p] = "running" /\ Slotted(p)}
Busy(r)     == {h \in Handlers : task[h].row = r}

-----------------------------------------------------------------------------
(* The dashboard.                                                          *)

\* Observer: a handler that starts on a row another one is busy with tangles it.
NoteOpen(h, r) ==
    hist' = IF Busy(r) = {}
            THEN [hist EXCEPT !.alone = @ \cup {h}]
            ELSE [tangled |-> hist.tangled \cup {r}, alone |-> hist.alone \ Busy(r)]

\* One that was alone from start to end untangles it.
NoteDone(h) ==
    hist' = [tangled |-> IF h \in hist.alone THEN hist.tangled \ {task[h].row} ELSE hist.tangled,
             alone |-> hist.alone \ {h}]

Loads(h, op, r, copy) ==
    /\ pc[h] = "idle"
    /\ rows[r] # "absent"
    /\ pc' = [pc EXCEPT ![h] = "loaded"]
    /\ task' = [task EXCEPT ![h] = [op |-> op, row |-> r, enabled |-> copy]]
    /\ NoteOpen(h, r)
    /\ UNCHANGED <<rows, jobs, runs, sweeps>>

\* update_watch, update_scan; hunts have no form to edit them.
OpenUpdate(h, r) == r \notin Hunts /\ Loads(h, "update", r, Enabled(r))
OpenToggle(h, r) == Loads(h, "toggle", r, ~Enabled(r))
OpenDelete(h, r) == Loads(h, "delete", r, FALSE)

\* create_watch, create_scan, create_hunt: rows start out enabled; an id may be
\* one that was used before.
Create(h, r) ==
    /\ pc[h] = "idle"
    /\ rows[r] = "absent"
    /\ rows' = [rows EXCEPT ![r] = "on"]
    /\ pc' = [pc EXCEPT ![h] = "committed"]
    /\ task' = [task EXCEPT ![h] = [op |-> "create", row |-> r, enabled |-> TRUE]]
    /\ NoteOpen(h, r)
    /\ UNCHANGED <<jobs, runs, sweeps>>

\* The form does not write "enabled".  On a row that is gone the UPDATE raises,
\* unless the form changed nothing and no UPDATE is sent.
CommitUpdate(h) ==
    /\ task[h].op = "update"
    /\ UNCHANGED rows

CommitToggle(h) ==
    /\ task[h].op = "toggle"
    /\ rows[task[h].row] # "absent"
    /\ rows' = [rows EXCEPT ![task[h].row] = IF task[h].enabled THEN "on" ELSE "off"]

\* A row that is gone already is no error.
CommitDelete(h) ==
    /\ task[h].op = "delete"
    /\ rows' = [rows EXCEPT ![task[h].row] = "absent"]

Commit(h) ==
    /\ pc[h] = "loaded"
    /\ CommitUpdate(h) \/ CommitToggle(h) \/ CommitDelete(h)
    /\ pc' = [pc EXCEPT ![h] = "committed"]
    /\ UNCHANGED <<jobs, task, runs, sweeps, hist>>

\* StaleDataError, or the database is in trouble: a 500, and no rescheduling.
CommitFails(h) ==
    /\ pc[h] = "loaded"
    /\ pc' = [pc EXCEPT ![h] = "idle"]
    /\ task' = [task EXCEPT ![h] = NoTask]
    /\ hist' = [hist EXCEPT !.alone = @ \ {h}]
    /\ UNCHANGED <<rows, jobs, runs, sweeps>>

\* Faulty variant: a job that is there stays, whatever the copy says.
JobsKeptFor(r, enabled) == IF enabled THEN jobs \cup {r} ELSE jobs

\* schedule_watch, schedule_scan, schedule_hunt, remove_*_job
JobsFor(r, enabled) == IF enabled THEN jobs \cup {r} ELSE jobs \ {r}

Reschedule(h) ==
    /\ pc[h] = "committed"
    /\ jobs' = JobsFor(task[h].row, task[h].enabled)
    /\ pc' = [pc EXCEPT ![h] = "idle"]
    /\ task' = [task EXCEPT ![h] = NoTask]
    /\ NoteDone(h)
    /\ UNCHANGED <<rows, runs, sweeps>>

-----------------------------------------------------------------------------
(* Jobs and slots.                                                         *)

\* What p runs joins the line for a slot.
Queues(p) ==
    /\ stage' = [stage EXCEPT ![p] = "queued"]
    /\ line' = Append(line, p)

\* check_watch_by_id, run_scan_by_id, run_hunt_by_id: the row is read only now.
Looks(p) == stage' = [stage EXCEPT ![p] = IF Enabled(Target(p)) THEN "running" ELSE "idle"]

\* The interval has passed; max_instances is 1.  A hunt starts at once.
Fire(r) ==
    /\ r \in jobs
    /\ stage[r] = "idle"
    /\ IF r \in Hunts
       THEN Looks(r) /\ UNCHANGED line
       ELSE Queues(r)
    /\ UNCHANGED <<rows, jobs, dialog, sweeps, hist>>

\* Faulty variant: nobody counts the slots.
GetsSlotAnyway(p) ==
    /\ line # <<>> /\ p = Head(line)
    /\ line' = Tail(line)
    /\ Looks(p)
    /\ UNCHANGED <<rows, jobs, dialog, sweeps, hist>>

GetsSlot(p) ==
    /\ line # <<>> /\ p = Head(line)
    /\ Cardinality(Holders) < Slots
    /\ line' = Tail(line)
    /\ Looks(p)
    /\ UNCHANGED <<rows, jobs, dialog, sweeps, hist>>

\* The check ends, or raises: the scheduler and the sweep both carry on.
Finish(p) ==
    /\ stage[p] = "running"
    /\ stage' = [stage EXCEPT ![p] = "idle"]
    /\ UNCHANGED <<rows, jobs, dialog, line, sweeps, hist>>

-----------------------------------------------------------------------------
(* Sweeps.                                                                 *)

\* check_all_watches, check_all_scans: the ids are read in the request, the sweep
\* is a background task.
Ask(s, kind) ==
    /\ sweep[s].state = "idle"
    /\ sweep' = [sweep EXCEPT ![s] =
         [state |-> "asked", kind |-> kind, row |-> NoRow, left |-> {r \in OfKind(kind) : Enabled(r)}]]
    /\ UNCHANGED <<rows, jobs, dialog, runs, sweeping, hist>>

\* A second sweep of a kind is ignored.
Starts(s) ==
    IF sweep[s].kind \in sweeping
    THEN /\ sweep' = [sweep EXCEPT ![s] = NoSweep]
         /\ UNCHANGED sweeping
    ELSE /\ sweep' = [sweep EXCEPT ![s].state = "running"]
         /\ sweeping' = sweeping \cup {sweep[s].kind}

StartSweep(s) ==
    /\ sweep[s].state = "asked"
    /\ Starts(s)
    /\ UNCHANGED <<rows, jobs, dialog, runs, hist>>

\* Faulty variant: the row is not crossed off.
SweepRowAgain(s, r) ==
    /\ sweep[s].state = "running"
    /\ stage[s] = "idle"
    /\ r \in sweep[s].left
    /\ sweep' = [sweep EXCEPT ![s].row = r]
    /\ Queues(s)
    /\ UNCHANGED <<rows, jobs, dialog, sweeping, hist>>

\* One row after the other, in no order that matters.
SweepRow(s, r) ==
    /\ sweep[s].state = "running"
    /\ stage[s] = "idle"
    /\ r \in sweep[s].left
    /\ sweep' = [sweep EXCEPT ![s].row = r, ![s].left = @ \ {r}]
    /\ Queues(s)
    /\ UNCHANGED <<rows, jobs, dialog, sweeping, hist>>

EndSweep(s) ==
    /\ sweep[s].state = "running" /\ stage[s] = "idle" /\ sweep[s].left = {}
    /\ sweep' = [sweep EXCEPT ![s] = NoSweep]
    /\ sweeping' = sweeping \ {sweep[s].kind}
    /\ UNCHANGED <<rows, jobs, dialog, runs, hist>>

-----------------------------------------------------------------------------
Init ==
    /\ rows = [r \in Rows |-> "on"]
    /\ jobs = Rows
    /\ pc = [h \in Handlers |-> "idle"]
    /\ task = [h \in Handlers |-> NoTask]
    /\ stage = [p \in Procs |-> "idle"]
    /\ line = <<>>
    /\ sweep = [s \in Sweepers |-> NoSweep]
    /\ sweeping = {}
    /\ hist = [tangled |-> {}, alone |-> {}]

\* Faulty variant: the jobs are not reconciled with the rows.
RestartUnsynced ==
    /\ jobs' = {}
    /\ pc' = [h \in Handlers |-> "idle"]
    /\ task' = [h \in Handlers |-> NoTask]
    /\ stage' = [p \in Procs |-> "idle"]
    /\ line' = <<>>
    /\ sweep' = [s \in Sweepers |-> NoSweep]
    /\ sweeping' = {}
    /\ hist' = [tangled |-> {}, alone |-> {}]
    /\ UNCHANGED rows

\* lifespan and start_scheduler: everything in memory is gone, the jobs are those
\* of the enabled rows before the first request is served.
Restart ==
    /\ jobs' = {r \in Rows : Enabled(r)}
    /\ pc' = [h \in Handlers |-> "idle"]
    /\ task' = [h \in Handlers |-> NoTask]
    /\ stage' = [p \in Procs |-> "idle"]
    /\ line' = <<>>
    /\ sweep' = [s \in Sweepers |-> NoSweep]
    /\ sweeping' = {}
    /\ hist' = [tangled |-> {}, alone |-> {}]
    /\ UNCHANGED rows

Next ==
    \/ \E h \in Handlers, r \in Edited :
          OpenUpdate(h, r) \/ OpenToggle(h, r) \/ OpenDelete(h, r) \/ Create(h, r)
    \/ \E h \in Handlers : Commit(h) \/ CommitFails(h) \/ Reschedule(h)
    \/ \E r \in Rows : Fire(r)
    \/ \E p \in Procs : GetsSlot(p) \/ Finish(p)
    \/ \E s \in Sweepers, kind \in Swept : Ask(s, kind)
    \/ \E s \in Sweepers : StartSweep(s) \/ EndSweep(s)
    \/ \E s \in Sweepers, r \in Rows : SweepRow(s, r)
    \/ Restart

\* Intervals pass, coroutines that can run do, and checks end (every client has
\* timeouts).  Nothing is assumed of the operator.
Fairness ==
    /\ \A h \in Handlers : WF_vars(Commit(h) \/ CommitFails(h) \/ Reschedule(h))
    /\ \A r \in Rows : WF_vars(Fire(r))
    /\ \A p \in Procs : WF_vars(GetsSlot(p) \/ Finish(p))
    /\ \A s \in Sweepers : WF_vars(StartSweep(s) \/ EndSweep(s) \/ \E r \in Rows : SweepRow(s, r))

Spec == Init /\ [][Next]_vars
FairSpec == Spec /\ Fairness

-----------------------------------------------------------------------------
\* Values of the variables; no more jobs and sweeps run at a time than there are
\* slots, and a handler is at work exactly if it has a task (limits.py:19-26).
TypeOK ==
    /\ rows \in [Rows -> {"absent", "off", "on"}]
    /\ jobs \subseteq Rows
    /\ pc \in [Handlers -> {"idle", "loaded", "committed"}]
    /\ task \in [Handlers -> Task]
    /\ \A h \in Handlers : (pc[h] = "idle") <=> (task[h] = NoTask)
    /\ stage \in [Procs -> {"idle", "queued", "running"}]
    /\ line \in Seq(Procs)
    /\ sweep \in [Sweepers -> Sweep]
    /\ sweeping \subseteq Kinds
    /\ hist \in [tangled: SUBSET Rows, alone: SUBSET Handlers]
    /\ Cardinality(Holders) <= Slots

\* When nobody is working on a row it has a job exactly if it is enabled, over any
\* edits, toggles, deletions, reused ids, failed commits and restarts, unless two
\* handlers of that row overlapped and none has worked on it alone since
\* (scheduler.py:32-56, routes.py:399-463).
JobsFollowRows ==
    \A r \in Rows : Busy(r) = {} /\ r \notin hist.tangled => (r \in jobs <=> Enabled(r))

\* A row that stays enabled and untangled is run by its job again and again, while
\* sweeps and other rows compete for the slots, in a process that is not restarted
\* for ever (limits.py:22-26, service.py:296-307, scheduler.py:25-29).
EnabledIsChecked ==
    \A r \in Rows :
        <>[](Enabled(r) /\ r \notin hist.tangled)
        => []<>(stage[r] = "running") \/ []<><<Restart>>_vars

\* A sweep gets to every row it was asked for, and ends (routes.py:69-78).
SweepsGetThrough ==
    \A s \in Sweepers : sweep[s].state = "running" ~> sweep[s].state = "idle"
=============================================================================
