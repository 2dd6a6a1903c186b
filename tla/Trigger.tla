------------------------------- MODULE Trigger -------------------------------
(***************************************************************************)
(* Write-range triggers: capture inside the commit, a durable queue, and   *)
(* the runner that hands queued events to a WASM module and consumes them  *)
(* in the module's own transaction - against writers, create_trigger and   *)
(* delete_trigger of the same name, module replacement, failing guests,    *)
(* conflicts with retries, and crashes.                                    *)
(*                                                                         *)
(* The store is the sequence of its states by commit: a transaction's      *)
(* snapshot is an index, a crash keeps a prefix, and a write-write         *)
(* conflict is a queue key written by a later state.  One trigger name is  *)
(* modelled; every key is in its range.  Values are not modelled: an op is *)
(* its number, and a module's effect is which ops it has taken into        *)
(* account.                                                                *)
(***************************************************************************)
EXTENDS Integers, FiniteSets, Sequences, SequencesExt, FiniteSetsExt

CONSTANTS
    Keys,        \* user keys in the trigger's range
    Batches,     \* what one commit may write: sequences of keys
    TriggerBatch,\* Options::trigger_batch
    ClearChunk,  \* keys per clear_queue_chunk batch
    Retries,     \* Options::execute_retries
    MaxOps,      \* bound: user ops
    MaxAdmin,    \* bound: triggers created and deleted, modules replaced
    MaxFails,    \* bound: guest failures
    MaxCrashes   \* bound: crashes

ASSUME TriggerAssumption ==
    /\ {TriggerBatch, ClearChunk, Retries} \subseteq Nat \ {0}
    /\ {MaxOps, MaxAdmin, MaxFails, MaxCrashes} \subseteq Nat
    /\ Batches \subseteq Seq(Keys)

VARIABLES
    log,      \* the store's states, by commit
    defs,     \* the in-memory registry: <<>> or <<the definition>>
    admin,    \* the create or delete in progress, under the admin lock
    run,      \* the runner thread
    backoff,  \* status: a failed drain waits
    incs,     \* definitions made so far
    doomed,   \* history: definitions whose deletion was begun
    adminOps, fails, crashes

vars == <<log, defs, admin, run, backoff, incs, doomed, adminOps, fails, crashes>>

store == Last(log)
Modes == {"keys", "changes"}

\* Queue keys: the touched key, or the number of the op.
KeyEvent(k) == [t |-> "keys", n |-> k]
ChangeEvent(n) == [t |-> "changes", n |-> n]
Numbers(E) == [i \in 1..Cardinality(E) |->
                 CHOOSE n \in {e.n : e \in E} : Cardinality({e \in E : e.n < n}) = i - 1]

\* Key order: a number's first byte is zero, a user key's is not.
Before(f, e) == IF f.t = e.t THEN f.n < e.n ELSE f.t = "changes"
FirstOf(Q, n) == {e \in Q : Cardinality({f \in Q : Before(f, e)}) < n}

NoRun == [pc |-> "idle", def |-> <<>>, consume |-> {}, snap |-> 0, tries |-> 0]

\* What a definition has been told and what its module has dealt with.
NoAccount == [touched |-> [k \in Keys |-> 0], seen |-> [k \in Keys |-> 0],
              captured |-> <<>>, applied |-> <<>>]

Init ==
    /\ \E m \in Modes : log = <<[ops |-> 0, queue |-> {}, def |-> <<>>, mod |-> m,
                                 wrote |-> {}, acct |-> NoAccount]>>
    /\ defs = <<>> /\ admin = <<"idle">> /\ run = NoRun /\ backoff = FALSE
    /\ incs = 0 /\ doomed = {} /\ adminOps = 0 /\ fails = 0 /\ crashes = 0

Commits(s) == log' = Append(log, s)

-----------------------------------------------------------------------------
(* The write path                                                          *)

\* Every op of a batch numbered like its first.
ChangeNumberOfBatch(base, i) == base + 1

\* changes-mode queue keys embed the op's own commit seqno.
ChangeNumber(base, i) == base + i

\* capture_ops: keys-mode events coalesce, change events are one per op.
Captured(def, base, batch) ==
    IF def.mode = "keys" THEN {KeyEvent(k) : k \in Range(batch)}
    ELSE {ChangeEvent(ChangeNumber(base, i)) : i \in DOMAIN batch}

\* A user commit; its events are in the same batch.
Write(batch) ==
    /\ store.ops + Len(batch) <= MaxOps
    /\ LET base == store.ops
           new  == IF defs = <<>> THEN {} ELSE Captured(defs[1], base, batch)
           last(k) == Max({i \in DOMAIN batch : batch[i] = k})
           acct == store.acct
       IN  Commits([store EXCEPT
             !.ops = base + Len(batch),
             !.queue = @ \cup new, !.wrote = new,
             !.acct = IF defs = <<>> THEN acct
                      ELSE [acct EXCEPT
                        !.touched = [k \in Keys |-> IF k \in Range(batch) THEN base + last(k)
                                                    ELSE @[k]],
                        !.captured = @ \o [i \in DOMAIN batch |-> base + i]]])
    /\ UNCHANGED <<defs, admin, run, backoff, incs, doomed, adminOps, fails, crashes>>

-----------------------------------------------------------------------------
(* create_trigger and delete_trigger, install_module                       *)

AdminStarts == admin = <<"idle">> /\ adminOps < MaxAdmin /\ adminOps' = adminOps + 1

\* The definition is persisted first.  "clean": nothing of an earlier trigger
\* of this name is still queued or in the runner's hands.
CreatePersist ==
    /\ AdminStarts /\ defs = <<>> /\ store.mod \in Modes
    /\ LET d == [inc |-> incs + 1, mode |-> store.mod,
                 clean |-> store.queue = {} /\ run.pc = "idle"]
       IN  /\ Commits([store EXCEPT !.def = <<d>>, !.wrote = {}, !.acct = NoAccount])
           /\ admin' = <<"activate", d>>
    /\ incs' = incs + 1
    /\ UNCHANGED <<defs, run, backoff, doomed, fails, crashes>>

CreateActivate ==
    /\ admin[1] = "activate"
    /\ defs' = <<admin[2]>> /\ admin' = <<"idle">>
    /\ UNCHANGED <<log, run, backoff, incs, doomed, adminOps, fails, crashes>>

\* Capture stops first ...
DeleteDeactivate ==
    /\ AdminStarts /\ defs # <<>>
    /\ defs' = <<>> /\ backoff' = FALSE /\ admin' = <<"erase">>
    /\ doomed' = doomed \cup {defs[1].inc}
    /\ UNCHANGED <<log, run, incs, fails, crashes>>

\* ... then the definition goes ...
DeleteErase ==
    /\ admin[1] = "erase"
    /\ Commits([store EXCEPT !.def = <<>>, !.wrote = {}])
    /\ admin' = <<"clear">>
    /\ UNCHANGED <<defs, run, backoff, incs, doomed, adminOps, fails, crashes>>

\* ... then the queue, a chunk at a time.
DeleteClear ==
    /\ admin[1] = "clear"
    /\ LET chunk == FirstOf(store.queue, ClearChunk)
       IN  IF chunk = {} THEN admin' = <<"idle">> /\ UNCHANGED log
           ELSE /\ Commits([store EXCEPT !.queue = @ \ chunk, !.wrote = chunk])
                /\ UNCHANGED admin
    /\ UNCHANGED <<defs, run, backoff, incs, doomed, adminOps, fails, crashes>>

\* install_module, uninstall_module; these do not take the admin lock.
Install(m) ==
    /\ adminOps < MaxAdmin /\ adminOps' = adminOps + 1
    /\ m # store.mod
    /\ Commits([store EXCEPT !.mod = m, !.wrote = {}])
    /\ UNCHANGED <<defs, admin, run, backoff, incs, doomed, fails, crashes>>

-----------------------------------------------------------------------------
(* The runner                                                              *)

\* A deleted trigger's events left where they are.
OrphanIgnored == "idle"

\* A queue without a trigger is garbage-collected.
OrphanFound == "orphan"

\* runner_pass finds a queue with entries and looks its trigger up.
Discover ==
    /\ run.pc = "idle" /\ store.queue # {}
    /\ IF defs = <<>> THEN run' = [run EXCEPT !.pc = OrphanFound]
       ELSE ~backoff /\ run' = [run EXCEPT !.pc = "found", !.def = defs]
    /\ UNCHANGED <<log, defs, admin, backoff, incs, doomed, adminOps, fails, crashes>>

\* clear_queue_chunk, between its scan and its write.
OrphanScan ==
    /\ run.pc = "orphan"
    /\ run' = IF store.queue = {} THEN NoRun
              ELSE [run EXCEPT !.pc = "clear", !.consume = FirstOf(store.queue, ClearChunk)]
    /\ UNCHANGED <<log, defs, admin, backoff, incs, doomed, adminOps, fails, crashes>>

OrphanClear ==
    /\ run.pc = "clear"
    /\ Commits([store EXCEPT !.queue = @ \ run.consume, !.wrote = run.consume])
    /\ run' = NoRun
    /\ UNCHANGED <<defs, admin, backoff, incs, doomed, adminOps, fails, crashes>>

\* record_failure
Failed == run' = NoRun /\ backoff' = TRUE

\* pack_touched_keys, pack_changes: a queue key that is not a number is
\* corruption to a changes-mode drain; anything is a key to a keys-mode one.
Pack ==
    /\ run.pc = "found"
    /\ LET batch == FirstOf(store.queue, TriggerBatch)
       IN  CASE run.def[1].mode = "changes" /\ (\E e \in batch : e.t = "keys") -> Failed
             [] run.def[1].mode = "keys" \/ (\A e \in batch : e.t = "changes") ->
                  /\ run' = IF batch = {} THEN NoRun
                            ELSE [run EXCEPT !.pc = "packed", !.consume = batch]
                  /\ UNCHANGED backoff
    /\ UNCHANGED <<log, defs, admin, incs, doomed, adminOps, fails, crashes>>

\* execute_system, one attempt: a fresh snapshot, and the module as of it.
Attempt ==
    /\ run.pc = "packed"
    /\ IF store.mod = run.def[1].mode
       THEN run' = [run EXCEPT !.pc = "guest", !.snap = Len(log)] /\ UNCHANGED backoff
       ELSE Failed
    /\ UNCHANGED <<log, defs, admin, incs, doomed, adminOps, fails, crashes>>

\* A trap, a non-zero exit, or an engine error behind a host call.
GuestFails ==
    /\ run.pc = "guest" /\ fails < MaxFails
    /\ fails' = fails + 1 /\ Failed
    /\ UNCHANGED <<log, defs, admin, incs, doomed, adminOps, crashes>>

\* A commit that does not look at its queue deletions.
ConflictsNever(snap, consume) == FALSE

\* Validation: a consumed queue key was written after the snapshot.
Conflicts(snap, consume) ==
    \E s \in (snap + 1)..Len(log) : log[s].wrote \cap consume # {}

\* What the module of this definition has now dealt with.
Accounted(acct, r) ==
    IF store.def # r.def THEN acct
    ELSE [acct EXCEPT
           !.seen = [k \in Keys |-> IF KeyEvent(k) \in r.consume THEN log[r.snap].ops ELSE @[k]],
           !.applied = @ \o Numbers({e \in r.consume : e.t = "changes"})]

\* The module's writes and the consumed events commit together.
DrainCommits ==
    /\ run.pc = "guest" /\ ~Conflicts(run.snap, run.consume)
    /\ Commits([store EXCEPT !.queue = @ \ run.consume, !.wrote = run.consume,
                             !.acct = Accounted(@, run)])
    /\ run' = NoRun /\ backoff' = FALSE
    /\ UNCHANGED <<defs, admin, incs, doomed, adminOps, fails, crashes>>

\* One attempt too many.
MayRetryOnceMore(tries) == tries < Retries

\* for attempt in 1..=attempts
MayRetry(tries) == tries + 1 < Retries

\* A conflict - on a queue key, or on something the module wrote that a user
\* wrote too - takes another attempt, then a failure.
DrainConflicts ==
    /\ run.pc = "guest" /\ run.snap < Len(log)
    /\ IF MayRetry(run.tries)
       THEN run' = [run EXCEPT !.pc = "packed", !.tries = @ + 1] /\ UNCHANGED backoff
       ELSE Failed
    /\ UNCHANGED <<log, defs, admin, incs, doomed, adminOps, fails, crashes>>

BackoffOver ==
    /\ backoff /\ backoff' = FALSE
    /\ UNCHANGED <<log, defs, admin, run, incs, doomed, adminOps, fails, crashes>>

-----------------------------------------------------------------------------
\* A crash keeps a prefix of the commits; load_registry reads what is left.
Crash(cut) ==
    /\ crashes < MaxCrashes
    /\ crashes' = crashes + 1
    /\ log' = SubSeq(log, 1, cut)
    /\ defs' = store'.def
    /\ admin' = <<"idle">> /\ run' = NoRun /\ backoff' = FALSE
    /\ UNCHANGED <<incs, doomed, adminOps, fails>>

AdminStep == CreateActivate \/ DeleteErase \/ DeleteClear
RunnerStep == Discover \/ OrphanScan \/ OrphanClear \/ Pack \/ Attempt
              \/ DrainCommits \/ DrainConflicts \/ BackoffOver
Next == \/ \E b \in Batches : Write(b)
        \/ CreatePersist \/ DeleteDeactivate \/ \E m \in Modes \cup {"none"} : Install(m)
        \/ AdminStep \/ RunnerStep \/ GuestFails
        \/ \E cut \in 1..Len(log) : Crash(cut)

Spec == Init /\ [][Next]_vars
\* The runner thread and an admin call in progress run on; time passes.
FairSpec == Spec /\ WF_vars(RunnerStep) /\ WF_vars(AdminStep)

-----------------------------------------------------------------------------
(* Properties                                                              *)

\* Types; the retry budget and the snapshot stay within bounds.
TypeOK ==
    /\ \A s \in Range(log) : s.ops \in 0..MaxOps /\ s.mod \in Modes \cup {"none"}
    /\ run.pc \in {"idle", "found", "orphan", "clear", "packed", "guest"}
    /\ run.snap \in 0..Len(log) /\ run.tries \in 0..(Retries - 1)

\* A definition whose deletion was begun may come back after a crash, but its
\* events may be gone by then.
Active(mode) == /\ store.def # <<>> /\ store.def[1].mode = mode
                /\ store.def[1].clean /\ store.def[1].inc \notin doomed

\* No touch is lost: a key touched since the module last looked at it has an
\* event in the queue - however the touch fell relative to the runner's scan,
\* snapshot, retries and commit, and whatever prefix a crash kept.  (The
\* deletion of a consumed event conflicts with the event of a re-touch.)
TouchesKept ==
    Active("keys") => \A k \in Keys : store.acct.touched[k] > store.acct.seen[k] =>
                                        KeyEvent(k) \in store.queue

\* The same of a trigger created over the traces of an earlier one of its name.
\* ("Invocation is therefore at-least-once", the module comment of trigger.rs.)
TouchesKeptAfterRecreate ==
    store.def # <<>> /\ store.def[1].mode = "keys" /\ store.def[1].inc \notin doomed =>
        \A k \in Keys : store.acct.touched[k] > store.acct.seen[k] =>
                          KeyEvent(k) \in store.queue

\* The change feed is complete, in commit order, and takes effect exactly once:
\* what has been applied, followed by what is queued, is what was captured.
ChangesExactlyOnce ==
    Active("changes") =>
        store.acct.applied \o Numbers({e \in store.queue : e.t = "changes"})
          = store.acct.captured

\* Every queue is drained in the end, residue of deleted triggers included,
\* unless the module is missing or of another kind.
QueueDrains ==
    <>[](\/ store.queue = {}
         \/ defs # <<>> /\ (store.mod # defs[1].mode \/ ~defs[1].clean))
=============================================================================
