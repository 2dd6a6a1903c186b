------------------------------- MODULE LsmTree -------------------------------
(***************************************************************************)
(* The LSM tree of one open database: memtable, frozen memtables, levels   *)
(* of runs, the registered snapshots and the compaction scheduler.         *)
(*                                                                         *)
(* Four kinds of threads meet here: writers (under write_mu), the flush    *)
(* thread, the compaction thread or a compact_all caller (under            *)
(* compaction_mu, one pass at a time), and readers that register and drop  *)
(* snapshots.  A compaction pass is a sequence of separate steps: choosing *)
(* inputs, loading the watermark, merging slice by slice, installing; the  *)
(* other threads move between any two of them, and an upper level that     *)
(* fills up meanwhile preempts the job.                                    *)
(*                                                                         *)
(* Sizes are counted in versions (a memtable of memtable_size versions is  *)
(* full, a fragment of target_file_size versions is closed).  Levels are   *)
(* numbered from 1.                                                        *)
(***************************************************************************)
EXTENDS Versions, Integers, FiniteSets, FiniteSetsExt, Sequences, SequencesExt

CONSTANTS
    Keys,       \* user keys, a set of integers: fragments are key ranges
    Readers,    \* holders of a registered snapshot (Snapshot, Txn, pin)
    Writers,    \* threads calling write_batch
    MaxSeq,     \* bound: sequence numbers that may be assigned
    OptionSets  \* the Options stores are opened with, and their workloads

\* One field per option; the workload's bounds after them.
OptionFields ==
    {"memtable_size", "target_file_size", "max_immutable_memtables",
     "l0_compaction_trigger", "tier_width", "l0_stall_trigger", "max_levels",
     "max_dynamic_levels", "seq", "batch", "faults", "ops", "readers", "writers"}

\* Options are not validated by the code; these are what its defaults satisfy
\* and what the stall needs to end.
ASSUME OptionsAssumption ==
    /\ Keys \subseteq Int /\ IsFiniteSet(Keys) /\ Keys # {}
    /\ IsFiniteSet(Readers)
    /\ MaxSeq \in Nat
    /\ \A o \in OptionSets :
         /\ DOMAIN o = OptionFields
         /\ \A f \in OptionFields \ {"faults", "ops", "readers", "writers"} : o[f] \in Nat \ {0}
         /\ o.seq <= MaxSeq /\ o.faults \in Nat
         /\ o.l0_stall_trigger >= 2 /\ o.l0_stall_trigger >= o.l0_compaction_trigger
         /\ o.max_dynamic_levels >= o.max_levels
         /\ o.ops \subseteq [key : Keys, del : BOOLEAN]
         /\ o.readers \subseteq Readers /\ o.writers \subseteq Writers

VARIABLES
    opts,       \* the Options of this store
    mem,        \* DbState.mem: the active memtable, a set of versions
    imms,       \* DbState.imms: frozen memtables, newest first
    levels,     \* Version.levels: runs, newest first in each level
    visible,    \* visible_seqno
    snapshots,  \* SnapshotList.counts: seqno -> number of registrations
    held,       \* the seqno each reader registered, or NoSeq
    admitted,   \* writers that passed wait_for_space and not yet applied
    bgError,    \* bg_error is set: the store is degraded
    phase,      \* where the compaction pass is: off, step, start, slice
    force,      \* Scheduler.force: the pass is a compact_all
    picked,     \* the Work chosen and not yet started: <<>> or <<work>>
    active,     \* Scheduler.active: <<>> or <<job>>
    suspended,  \* Scheduler.suspended: innermost last
    faults,     \* I/O failures so far
    log         \* history: every version ever written

treeVars  == <<mem, imms, levels, visible>>
snapVars  == <<snapshots, held>>
schedVars == <<phase, force, picked, active, suspended>>
vars == <<opts, treeVars, snapVars, schedVars, admitted, bgError, faults, log>>

NoSeq == -1
SeqNo == 0 .. MaxSeq

\* The members of a set of integers in order; those of a sequence in a set.
InOrder(S) ==
    [n \in 1 .. Cardinality(S) |-> CHOOSE x \in S : Cardinality({y \in S : y < x}) = n - 1]
Those(s, T) ==
    LET at == InOrder({i \in DOMAIN s : s[i] \in T}) IN [n \in DOMAIN at |-> s[at[n]]]

Version == [key : Keys, seq : 1 .. MaxSeq, del : BOOLEAN]

-----------------------------------------------------------------------------
(* Reading                                                                 *)

MinKey(t) == Min({v.key : v \in t})
MaxKey(t) == Max({v.key : v \in t})
RunVersions(run) == UNION Range(run.tables)

\* Run::fragment_for: the first fragment whose largest key is not below k, if
\* its smallest key is not above it; empty when there is none.
FragmentFor(run, k) ==
    UNION {run.tables[i] : i \in {i \in DOMAIN run.tables :
              /\ \A j \in 1 .. i - 1 : MaxKey(run.tables[j]) < k
              /\ MinKey(run.tables[i]) <= k /\ k <= MaxKey(run.tables[i])}}

\* Run::may_contain_ukey: a bloom filter never misses a key that is there and
\* may report one that is not, so both answers are possible for that.
MayContain(run, k) ==
    CASE FragmentFor(run, k) = {} -> {FALSE}
      [] VersionsOf(FragmentFor(run, k), k) # {} -> {TRUE}
      [] OTHER -> {TRUE, FALSE}

\* Job::older_may_contain: the possible answers of the disjunction over runs.
OlderMayContain(older, k) ==
    IF \E i \in DOMAIN older : MayContain(older[i], k) = {TRUE} THEN {TRUE}
    ELSE IF \E i \in DOMAIN older : TRUE \in MayContain(older[i], k) THEN {TRUE, FALSE}
    ELSE {FALSE}

RunsNewestFirst == FlattenSeq(levels)

\* The first source that has a version of k at or below s, newest first.
FirstHit(sources, k, s) ==
    LET hits == {i \in DOMAIN sources : NewestAt(sources[i], k, s) # {}}
    IN  IF hits = {} THEN {} ELSE NewestAt(sources[Min(hits)], k, s)

\* Where a point lookup of k goes, newest source first: the memtable, the
\* frozen memtables, then of each run the fragment that may have k.
SourcesFor(k) ==
    <<mem>> \o imms
      \o FlattenSeq([l \in DOMAIN levels |->
                        [i \in DOMAIN levels[l] |-> FragmentFor(levels[l][i], k)]])

\* ReadView::get_versioned.  (The union over one element binds its value.)
GetVersioned(k, s) == UNION {FirstHit(sources, k, s) : sources \in {SourcesFor(k)}}

\* ReadView::latest, the OCC validation primitive: newest seqno of k, 0 if none.
Latest(k) == Max({0} \cup {v.seq : v \in GetVersioned(k, MaxSeq)})

\* Every version the merging iterator of a scan runs over.
InternalChildren ==
    mem \cup (UNION Range(imms))
        \cup UNION {RunVersions(r) : r \in Range(RunsNewestFirst)}

\* alloc_file_id gives an id nobody has.  Ids are only compared for equality,
\* so the smallest one that is neither in the tree nor held by a job stands
\* for it.
FreshId ==
    LET jobs == Range(active) \cup Range(suspended)
        used == {r.id : r \in Range(RunsNewestFirst)} \cup {j.runId : j \in jobs}
    IN  Min((1 .. Cardinality(used) + 1) \ used)

-----------------------------------------------------------------------------
(* Snapshots                                                               *)

Registered == {s \in SeqNo : snapshots[s] > 0}
Watermark == IF Registered = {} THEN visible + 1 ELSE Min(Registered)

\* try_register_snapshot_at's two checks.
CanRegisterAnyPast(s) == s <= visible
CanRegister(s) == s <= visible /\ (s >= Watermark \/ s = visible)

Register(r, s) ==
    /\ held' = [held EXCEPT ![r] = s]
    /\ snapshots' = [snapshots EXCEPT ![s] = @ + 1]

\* register_snapshot: seqno load and registration are one critical section.
RegisterSnapshot(r) ==
    /\ r \in opts.readers /\ held[r] = NoSeq
    /\ Register(r, visible)
    /\ UNCHANGED <<opts, treeVars, schedVars, admitted, bgError, faults, log>>

TryRegisterSnapshotAt(r) ==
    /\ r \in opts.readers /\ held[r] = NoSeq
    /\ \E s \in SeqNo : CanRegister(s) /\ Register(r, s)
    /\ UNCHANGED <<opts, treeVars, schedVars, admitted, bgError, faults, log>>

DeregisterForgettingCount(r) ==
    /\ held[r] # NoSeq
    /\ snapshots' = [snapshots EXCEPT ![held[r]] = 0]
    /\ held' = [held EXCEPT ![r] = NoSeq]
    /\ UNCHANGED <<opts, treeVars, schedVars, admitted, bgError, faults, log>>

DeregisterSnapshot(r) ==
    /\ held[r] # NoSeq
    /\ snapshots' = [snapshots EXCEPT ![held[r]] = @ - 1]
    /\ held' = [held EXCEPT ![r] = NoSeq]
    /\ UNCHANGED <<opts, treeVars, schedVars, admitted, bgError, faults, log>>

-----------------------------------------------------------------------------
(* Writing and flushing                                                    *)

Stalled == Len(imms) >= opts.max_immutable_memtables \/ Len(levels[1]) >= opts.l0_stall_trigger

\* write_batch_inner up to the lock: refused when degraded, parked in
\* wait_for_space while stalled.
WaitForSpace(w) ==
    /\ w \in opts.writers /\ w \notin admitted
    /\ ~bgError
    /\ ~Stalled
    /\ admitted' = admitted \cup {w}
    /\ UNCHANGED <<opts, treeVars, snapVars, schedVars, bgError, faults, log>>

\* apply_locked: place the batch, publish it, rotate a memtable that is full.
ApplyLocked(w) ==
    /\ w \in admitted
    /\ \E n \in 1 .. opts.batch : \E ops \in [1 .. n -> opts.ops] :
         /\ visible + n <= opts.seq
         /\ LET new == {[key |-> ops[i].key, seq |-> visible + i, del |-> ops[i].del] :
                            i \in 1 .. n}
                full == Cardinality(mem \cup new) >= opts.memtable_size
            IN  /\ log' = log \cup new
                /\ mem' = IF full THEN {} ELSE mem \cup new
                /\ imms' = IF full THEN <<mem \cup new>> \o imms ELSE imms
         /\ visible' = visible + n
    /\ admitted' = admitted \ {w}
    /\ UNCHANGED <<opts, levels, snapVars, schedVars, bgError, faults>>

\* force_rotate: flush(), forks and slices freeze a non-empty memtable.
ForceRotate ==
    /\ mem # {}
    /\ mem' = {}
    /\ imms' = <<mem>> \o imms
    /\ UNCHANGED <<opts, levels, visible, snapVars, schedVars, admitted, bgError, faults, log>>

\* A table under construction: closed fragments and the open one.  A fragment
\* is closed only between user keys.
NoOutput == [tables |-> <<>>, builder |-> {}]
AddKey(out, vs) ==
    IF vs = {} THEN out
    ELSE IF Cardinality(out.builder) >= opts.target_file_size
         THEN [tables |-> Append(out.tables, out.builder), builder |-> vs]
         ELSE [out EXCEPT !.builder = @ \cup vs]
FinishTables(out) ==
    IF out.builder = {} THEN out.tables ELSE Append(out.tables, out.builder)

\* build_run_from_mem: every version, split into fragments.
BuildRunFromMem(vs) ==
    LET ks == InOrder({v.key : v \in vs})
        out[n \in 0 .. Len(ks)] ==
            IF n = 0 THEN NoOutput ELSE AddKey(out[n - 1], VersionsOf(vs, ks[n]))
    IN  FinishTables(out[Len(ks)])

\* Flushing the newest frozen memtable first.
FlushNewest ==
    /\ imms # <<>>
    /\ levels' = [levels EXCEPT ![1] =
                     <<[id |-> FreshId, tables |-> BuildRunFromMem(Head(imms))]>> \o @]
    /\ imms' = Tail(imms)
    /\ UNCHANGED <<opts, mem, visible, snapVars, schedVars, admitted, bgError, faults, log>>

\* flush_one: the oldest frozen memtable becomes the newest run of L0.  The
\* table is built from the immutable memtable; the swap of version and imms is
\* one critical section.
FlushOne ==
    /\ imms # <<>>
    /\ levels' = [levels EXCEPT ![1] =
                     <<[id |-> FreshId, tables |-> BuildRunFromMem(Last(imms))]>> \o @]
    /\ imms' = Front(imms)
    /\ UNCHANGED <<opts, mem, visible, snapVars, schedVars, admitted, bgError, faults, log>>

\* A failed flush degrades the store; the thread retries later.
FlushFails ==
    /\ imms # <<>>
    /\ faults < opts.faults
    /\ faults' = faults + 1
    /\ bgError' = TRUE
    /\ UNCHANGED <<opts, treeVars, snapVars, schedVars, admitted, log>>

-----------------------------------------------------------------------------
(* Choosing compaction work                                                *)

LastLevel == Len(levels)
LevelBytes(l) == Cardinality(UNION {RunVersions(r) : r \in Range(levels[l])})

\* level_target_bytes: one L0 merge, multiplied by the width per level.
LevelTargetBytes(l) ==
    opts.memtable_size * opts.l0_compaction_trigger * Max({opts.tier_width, 2}) ^ (l - 1)

Trigger(l) == IF l = 1 THEN opts.l0_compaction_trigger ELSE opts.tier_width

\* pick_tier: merge all of level l into the front of level l + 1.
PickTier(l) ==
    [kind |-> "tier", level |-> l, target |-> l + 1, inputs |-> levels[l],
     older |-> FlattenSeq(SubSeq(levels, l + 1, LastLevel)),
     keepLeft |-> <<>>, keepRight |-> <<>>]

SpliceOfInclusive(upper) ==
    LET base  == Last(levels[LastLevel])
        lo    == MinKey(RunVersions(upper))
        hi    == MaxKey(RunVersions(upper))
        tables == Range(base.tables)
        left   == {t \in tables : MaxKey(t) <= lo}
        right  == {t \in tables \ left : MinKey(t) > hi}
    IN  [kind |-> "splice", level |-> LastLevel, target |-> LastLevel,
         inputs |-> <<upper, [base EXCEPT !.tables = Those(@, tables \ (left \cup right))]>>,
         older |-> <<>>,
         keepLeft |-> Those(base.tables, left),
         keepRight |-> Those(base.tables, right)]

\* The bottom's last two runs: the base and the run ADJACENT to it, with only
\* the base fragments that overlap the adjacent run's key range.
SpliceOf(upper) ==
    LET base  == Last(levels[LastLevel])
        lo    == MinKey(RunVersions(upper))
        hi    == MaxKey(RunVersions(upper))
        tables == Range(base.tables)
        left   == {t \in tables : MaxKey(t) < lo}
        right  == {t \in tables : MinKey(t) > hi}
    IN  [kind |-> "splice", level |-> LastLevel, target |-> LastLevel,
         inputs |-> <<upper, [base EXCEPT !.tables = Those(@, tables \ (left \cup right))]>>,
         older |-> <<>>,
         keepLeft |-> Those(base.tables, left),
         keepRight |-> Those(base.tables, right)]

PickSplice == SpliceOf(levels[LastLevel][Len(levels[LastLevel]) - 1])

PickDeepen == [kind |-> "deepen", level |-> LastLevel, inputs |-> levels[LastLevel]]

EligibleOffByOne(before) ==
    {l \in 1 .. Min({LastLevel - 1, before - 1}) : Len(levels[l]) > Trigger(l)}

EligibleSameLevel(before) ==
    {l \in 1 .. Min({LastLevel - 1, before}) : Len(levels[l]) >= Trigger(l)}

\* Levels above `before` (and above the bottom) that crossed their trigger.
Eligible(before) ==
    {l \in 1 .. Min({LastLevel - 1, before - 1}) : Len(levels[l]) >= Trigger(l)}

\* pick_before: <<>> or the job of the uppermost eligible level.
PickBefore(before) ==
    IF Eligible(before) = {} THEN <<>> ELSE <<PickTier(Min(Eligible(before)))>>

\* pick: a tier merge, else deepening, else a bottom splice, else nothing.
Pick(forced) ==
    LET full    == IF forced THEN {l \in 1 .. LastLevel - 1 : Len(levels[l]) >= 2}
                   ELSE Eligible(LastLevel)
        bottom  == Len(levels[LastLevel])
        deepen  == /\ LastLevel < opts.max_dynamic_levels
                   /\ bottom > 0
                   /\ \/ LastLevel = 1 /\ bottom >= 2
                      \/ ~forced /\ LevelBytes(LastLevel) > LevelTargetBytes(LastLevel)
    IN  CASE full # {}   -> <<PickTier(Min(full))>>
          [] full = {} /\ deepen -> <<PickDeepen>>
          [] full = {} /\ ~deepen /\ bottom >= 2 -> <<PickSplice>>
          [] OTHER -> <<>>

-----------------------------------------------------------------------------
(* The compaction pass                                                     *)

\* maintenance_pass (f FALSE) and compact_until_quiet (f TRUE, refused when
\* degraded) take compaction_mu: one pass at a time.  A pass whose first look
\* finds nothing ends where it began.
StartPass(f) ==
    /\ phase = "off"
    /\ f => ~bgError
    /\ Pick(f) # <<>>
    /\ force' = f
    /\ picked' = Pick(f)
    /\ phase' = "start"
    /\ UNCHANGED <<opts, treeVars, snapVars, active, suspended, admitted, bgError, faults, log>>

\* Scheduler::preempt: an upper level that crossed its normal trigger takes
\* over and the active job waits with its inputs and partial output.
Preempt ==
    /\ phase = "step" /\ active # <<>>
    /\ LET job == PickBefore(active[1].level)
       IN  IF job = <<>>
           THEN /\ phase' = "slice"
                /\ UNCHANGED <<picked, active, suspended>>
           ELSE /\ phase' = "start"
                /\ picked' = job
                /\ active' = <<>>
                /\ suspended' = suspended \o active
    /\ UNCHANGED <<opts, treeVars, snapVars, force, admitted, bgError, faults, log>>

\* Scheduler::schedule with nothing suspended; the pass ends when the picker
\* finds nothing.
ScheduleFresh ==
    /\ phase = "step" /\ active = <<>> /\ suspended = <<>>
    /\ picked' = Pick(force)
    /\ IF Pick(force) = <<>>
       THEN phase' = "off" /\ force' = FALSE
       ELSE phase' = "start" /\ UNCHANGED force
    /\ UNCHANGED <<opts, treeVars, snapVars, active, suspended, admitted, bgError, faults, log>>

\* Scheduler::schedule with suspended jobs: work above the innermost one first,
\* then that job itself.
ScheduleSuspended ==
    /\ phase = "step" /\ active = <<>> /\ suspended # <<>>
    /\ LET job == PickBefore(Last(suspended).level)
       IN  /\ picked' = job
           /\ IF job = <<>>
              THEN /\ active' = <<Last(suspended)>>
                   /\ suspended' = Front(suspended)
                   /\ phase' = "slice"
              ELSE /\ phase' = "start"
                   /\ UNCHANGED <<active, suspended>>
    /\ UNCHANGED <<opts, treeVars, snapVars, force, admitted, bgError, faults, log>>

InputVersions(job) == UNION {RunVersions(r) : r \in Range(job.inputs)}

\* RunningJob::new: the watermark is loaded only now, after the inputs were
\* pinned, and the merge cursor stands before the first user key.
StartRewrite ==
    /\ phase = "start" /\ picked[1].kind # "deepen"
    /\ LET job == picked[1]
       IN  active' = <<[kind |-> job.kind, level |-> job.level, target |-> job.target,
                        inputs |-> job.inputs, older |-> job.older,
                        keepLeft |-> job.keepLeft, keepRight |-> job.keepRight,
                        watermark |-> Watermark, runId |-> FreshId,
                        todo |-> {v.key : v \in InputVersions(job)}, out |-> NoOutput]>>
    /\ picked' = <<>>
    /\ phase' = "slice"
    /\ UNCHANGED <<opts, mem, imms, levels, visible, snapVars, force, suspended, admitted, bgError,
                   faults, log>>

Without(runs, inputs) ==
    LET ids == {r.id : r \in Range(inputs)}
    IN  Those(runs, {r \in Range(runs) : r.id \notin ids})

\* install_deepen: the bottom's runs move, untouched, to a new level below.
StartDeepen ==
    /\ phase = "start" /\ picked[1].kind = "deepen"
    /\ LET w == picked[1]
       IN  levels' = Append([levels EXCEPT ![w.level] = Without(@, w.inputs)], w.inputs)
    /\ picked' = <<>>
    /\ phase' = "step"
    /\ UNCHANGED <<opts, mem, imms, visible, snapVars, force, active, suspended, admitted,
                   bgError, faults, log>>

InstallEmptyRun(job, tables) ==
    LET rest == [levels EXCEPT ![job.level] = Without(@, job.inputs)]
        run(ts) == <<[id |-> job.runId, tables |-> ts]>>
    IN  IF job.kind = "tier"
        THEN [rest EXCEPT ![job.target] = run(tables) \o @]
        ELSE [rest EXCEPT ![job.level] = @ \o run(job.keepLeft \o tables \o job.keepRight)]

\* install: inputs leave by run id; a tier's output goes to the front of the
\* target level, a splice's to the back, between the untouched base fragments.
Install(job, tables) ==
    LET rest == [levels EXCEPT ![job.level] = Without(@, job.inputs)]
        run(ts) == IF ts = <<>> THEN <<>> ELSE <<[id |-> job.runId, tables |-> ts]>>
    IN  IF job.kind = "tier"
        THEN [rest EXCEPT ![job.target] = run(tables) \o @]
        ELSE [rest EXCEPT ![job.level] = @ \o run(job.keepLeft \o tables \o job.keepRight)]

RunSliceNotAdvancing ==
    /\ phase = "slice"
    /\ active' = active
    /\ phase' \in {"slice", "step"}
    /\ UNCHANGED <<opts, treeVars, snapVars, force, picked, suspended, admitted, bgError, faults,
                   log>>

\* run_slice, one user key at a time; the slice may end after any key, and
\* the one that reaches the end of the inputs installs the result.
RunSlice ==
    /\ phase = "slice"
    /\ LET job == active[1]
           k   == Min(job.todo)
       IN  \E shadowsOlder \in OlderMayContain(job.older, k) :
             LET out == AddKey(job.out, Kept(InputVersions(job), k, job.watermark, shadowsOlder))
             IN  IF job.todo = {k}
                 THEN /\ levels' = Install(job, FinishTables(out))
                      /\ active' = <<>>
                      /\ phase' = "step"
                 ELSE /\ active' = <<[job EXCEPT !.todo = @ \ {k}, !.out = out]>>
                      /\ phase' \in {"slice", "step"}
                      /\ UNCHANGED levels
    /\ UNCHANGED <<opts, mem, imms, visible, snapVars, force, picked, suspended, admitted,
                   bgError, faults, log>>

\* An I/O error ends the pass and drops its jobs.  The compaction thread then
\* degrades the store; compact_all reports the error to its caller.
PassFails ==
    /\ phase \in {"start", "slice"}
    /\ faults < opts.faults
    /\ faults' = faults + 1
    /\ bgError' = (bgError \/ ~force)
    /\ phase' = "off" /\ force' = FALSE
    /\ picked' = <<>> /\ active' = <<>> /\ suspended' = <<>>
    /\ UNCHANGED <<opts, treeVars, snapVars, admitted, log>>

-----------------------------------------------------------------------------
Init ==
    /\ opts \in OptionSets
    /\ mem = {} /\ imms = <<>>
    /\ levels = [l \in 1 .. opts.max_levels |-> <<>>]
    /\ visible = 0
    /\ snapshots = [s \in SeqNo |-> 0]
    /\ held = [r \in Readers |-> NoSeq]
    /\ admitted = {} /\ bgError = FALSE /\ faults = 0 /\ log = {}
    /\ phase = "off" /\ force = FALSE
    /\ picked = <<>> /\ active = <<>> /\ suspended = <<>>

\* What the compaction thread does of itself; compact_all forces a pass from
\* a caller's thread.
Compact ==
    \/ StartPass(FALSE)
    \/ Preempt \/ ScheduleFresh \/ ScheduleSuspended
    \/ StartRewrite \/ StartDeepen \/ RunSlice

Next ==
    \/ \E w \in Writers : WaitForSpace(w) \/ ApplyLocked(w)
    \/ \E r \in Readers :
          RegisterSnapshot(r) \/ TryRegisterSnapshotAt(r) \/ DeregisterSnapshot(r)
    \/ ForceRotate \/ FlushOne \/ FlushFails
    \/ Compact \/ StartPass(TRUE) \/ PassFails

Spec == Init /\ [][Next]_vars

\* The flush and the compaction thread poll their signals with a timeout, so
\* each keeps taking the step it has.
FairSpec == Spec /\ WF_vars(FlushOne) /\ WF_vars(Compact)

-----------------------------------------------------------------------------
(* Properties                                                              *)

\* Every variable has the type its declaration in db.rs gives it.
TypeOK ==
    /\ mem \subseteq Version /\ log \subseteq Version
    /\ \A i \in DOMAIN imms : imms[i] \in (SUBSET Version) \ {{}}
    /\ \A l \in DOMAIN levels : \A i \in DOMAIN levels[l] :
         LET r == levels[l][i]
         IN  r.id \in Nat /\ r.tables # <<>>
             /\ \A t \in DOMAIN r.tables : r.tables[t] \in (SUBSET Version) \ {{}}
    /\ visible \in SeqNo
    /\ snapshots \in [SeqNo -> 0 .. Cardinality(Readers)]
    /\ held \in [Readers -> SeqNo \cup {NoSeq}]
    /\ admitted \subseteq Writers
    /\ bgError \in BOOLEAN /\ force \in BOOLEAN /\ faults \in 0 .. opts.faults
    /\ phase \in {"off", "step", "start", "slice"}
    /\ Len(picked) = (IF phase = "start" THEN 1 ELSE 0)
    /\ Len(active) <= 1 /\ (phase = "slice" => Len(active) = 1)

\* What the writes committed so far say a reader of k at s must see.
Expected(k, s) == Live(NewestAt(log, k, s))

\* A sequence number that try_register_snapshot_at would accept now (every
\* registered one and the visible one among them) still reads exactly as the
\* writes left it, by point lookup and by scan: no merge, tombstone drop, move
\* or flush lost or resurrected a version somebody may still ask for.
RegistrableStatesIntact ==
    \A k \in Keys : \E sources \in {SourcesFor(k)}, children \in {InternalChildren} :
        \A s \in SeqNo : CanRegister(s) =>
            /\ Live(FirstHit(sources, k, s)) = Expected(k, s)
            /\ Live(NewestAt(children, k, s)) = Expected(k, s)

\* The SnapshotList counts exactly the live handles: a snapshot dropped by one
\* holder stays registered for the other holder of the same seqno, and none
\* leaks (a leak would hold the watermark down forever).
SnapshotsMatchHandles ==
    \A s \in SeqNo : snapshots[s] = Cardinality({r \in Readers : held[r] = s})

\* For a transaction reading at a registered snapshot, every later commit to a
\* key is still detectable by `latest`, so compaction never hides a conflict
\* from OCC validation (tombstones included).
ConflictsStayVisible ==
    \A s \in Registered : \A k \in Keys :
        (\E v \in log : v.key = k /\ v.seq > s) <=> Latest(k) > s

\* Read order is recency order: a version in a newer source (memtable, frozen
\* memtables, L0 runs, deeper levels) is newer than every version of the same
\* key in an older source.  Point lookups stop at the first hit because of it.
RecencyOrder ==
    LET runs    == RunsNewestFirst
        sources == <<mem>> \o imms \o [i \in DOMAIN runs |-> RunVersions(runs[i])]
    IN  \A i, j \in DOMAIN sources : i < j =>
            \A v \in sources[i], w \in sources[j] : v.key = w.key => v.seq > w.seq

\* The fragments of a run are in key order and pairwise disjoint, so
\* fragment_for's binary search finds the only fragment that can hold a key.
FragmentsOrdered ==
    \A run \in Range(RunsNewestFirst) :
        LET ts == run.tables
        IN  \A a, b \in DOMAIN ts : a < b => MaxKey(ts[a]) < MinKey(ts[b])

\* A job in flight, however long it was suspended, still finds its inputs at
\* the back of its level with nothing but the runs it knew behind them: what
\* makes installing by run id and the tombstone drop sound at any later time.
JobsInPlace ==
    \A job \in Range(active) \cup Range(suspended) :
        LET ids == [i \in DOMAIN job.inputs |-> job.inputs[i].id]
            lvl == levels[job.level]
            n   == Len(ids)
        IN  /\ Len(lvl) >= n
            /\ [i \in 1 .. n |-> lvl[Len(lvl) - n + i].id] = ids
            /\ job.kind = "tier" =>
                 job.older = FlattenSeq(SubSeq(levels, job.level + 1, LastLevel))
            /\ job.kind = "splice" => job.level = LastLevel

\* What each open snapshot reads, by point lookup.
ViewOf(r) ==
    IF held[r] = NoSeq THEN <<>> ELSE [k \in Keys |-> Live(GetVersioned(k, held[r]))]

Store == INSTANCE SnapshotStore WITH
             NoView <- <<>>, newest <- visible,
             current <- [k \in Keys |-> Live(GetVersioned(k, visible))],
             views <- [r \in Readers |-> ViewOf(r)]

\* The tree implements the snapshot store: a flush, a merge, a move, a
\* suspension or a failure is invisible to every reader, and a write shows in
\* the current state only.
ImplementsStore == Store!Spec

\* A write stall ends: flushing drains the frozen memtables and compaction
\* brings L0 below the trigger, or the store reports an error to the writers.
StallEnds == Stalled ~> (~Stalled \/ bgError)

\* A compaction pass comes to its end: preemption, suspension and deepening
\* cannot keep it running once the writes stop.
PassEnds == (phase # "off") ~> (phase = "off")
=============================================================================
