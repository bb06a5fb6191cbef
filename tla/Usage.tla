---------------------------------- MODULE Usage ----------------------------------
(***************************************************************************)
(* Token usage: the worker that sweeps the logs of the agents into a       *)
(* ledger and saves it with the offsets it reached, and the host that      *)
(* forks it again.  src/electron/main/services/usage-host.ts and           *)
(* usage-worker.ts, src/services/usage/sweep.ts, sweep-runner.ts,          *)
(* scanner.ts, incremental-reader.ts and ledger-store.ts.                  *)
(*                                                                         *)
(* Every line of a log weighs one token, so a log is its length, and a     *)
(* contribution a number.  An entry is fresh while the modification time   *)
(* in it is the one of the file.  A crash of the worker and the exit event *)
(* are one step; `forks` is auxiliary, it counts the forks since a worker  *)
(* was ready or the user switched telemetry on.                            *)
(***************************************************************************)
EXTENDS Integers, Sequences

CONSTANTS Logs,        \* the log files, a sequence: the order of a sweep
          Absent,      \* no entry, no worker, no sweep
          Sealed,      \* an entry whose contribution was dropped
          MaxLines,    \* bound: log -> its lines
          MaxFailures, \* DEFAULT_MAX_FILE_FAILURES
          Spoilt,      \* bound: the logs whose processing may throw
          MaxReforks,  \* MAX_CONSECUTIVE_REFORKS
          Reseal,      \* BOOLEAN: a log may grow after its last read, and be sealed
          Regrow       \* BOOLEAN: a rotated log may outgrow the offset unseen

ASSUME LogsAssumption == Logs \in Seq({Logs[i] : i \in DOMAIN Logs})
ASSUME EntryAssumption ==
    /\ Sealed \notin Int
    /\ Absent \notin [off : Nat, fresh : BOOLEAN, part : {Sealed} \cup Int]
ASSUME HostAssumption == MaxReforks \in Nat /\ Absent \notin {"forked", "up"}

VARIABLES lines,       \* log -> its lines
          poison,      \* the logs whose processing throws
          mem,         \* the state of the worker: [ledger, cache]
          saved,       \* the state file
          pass,        \* Absent or [todo, sealed, rebuilt, first]: a sweep
          again,       \* rescanQueued
          streak,      \* log -> failures in a row
          host         \* [enabled, proc, reforks, gaveUp, asked, forks]

usageVars == <<lines, poison, mem, saved, pass, again, streak, host>>

Log == {Logs[i] : i \in DOMAIN Logs}
Fresh == [ledger |-> [f \in Log |-> 0], cache |-> [f \in Log |-> Absent]]
Behind(s, f) == s.cache[f] # Absent /\ s.cache[f].off > lines[f]
IsSealed(s, f) == s.cache[f] # Absent /\ s.cache[f].part = Sealed
quarantined == {f \in Log : streak[f] >= MaxFailures}
Up == host.proc = "up"

UsageInit ==
    /\ lines = [f \in Log |-> 0]
    /\ poison = {}
    /\ mem = Fresh /\ saved = Fresh
    /\ pass = Absent /\ again = FALSE
    /\ streak = [f \in Log |-> 0]
    /\ host = [enabled |-> TRUE, proc |-> "forked", reforks |-> 0, gaveUp |-> FALSE,
               asked |-> FALSE, forks |-> 1]

-----------------------------------------------------------------------------
(* The agents write, rotate and spoil their logs.                            *)

\* A write gives the file another time than the entries know.
Aged(s, f) == IF s.cache[f] = Absent THEN s ELSE [s EXCEPT !.cache[f].fresh = FALSE]

AppendLine(f) ==
    /\ lines[f] < MaxLines[f]
    /\ Regrow \/ ~(Behind(mem, f) \/ Behind(saved, f))
    /\ Reseal \/ ~(IsSealed(mem, f) \/ IsSealed(saved, f))
    /\ lines' = [lines EXCEPT ![f] = @ + 1]
    /\ mem' = Aged(mem, f) /\ saved' = Aged(saved, f)
    /\ UNCHANGED <<poison, pass, again, streak, host>>

Rotate(f) ==
    /\ lines[f] > 0
    /\ lines' = [lines EXCEPT ![f] = 0]
    /\ mem' = Aged(mem, f) /\ saved' = Aged(saved, f)
    /\ UNCHANGED <<poison, pass, again, streak, host>>

Spoil(f) ==
    /\ f \in Spoilt
    /\ poison' = IF f \in poison THEN poison \ {f} ELSE poison \cup {f}
    /\ UNCHANGED <<lines, mem, saved, pass, again, streak, host>>

-----------------------------------------------------------------------------
(* A sweep.                                                                  *)

NewPass(first) == [todo |-> Logs, sealed |-> FALSE, rebuilt |-> FALSE, first |-> first]

\* The interval, a watcher; a sweep under way queues one more.
Sweep ==
    /\ Up
    /\ IF pass = Absent THEN pass' = NewPass(FALSE) /\ UNCHANGED again
                        ELSE again' = TRUE /\ UNCHANGED pass
    /\ UNCHANGED <<lines, poison, mem, saved, streak, host>>

\* The end of sweep(): the queued rescan follows at once.
Idle == IF again THEN pass' = NewPass(FALSE) /\ again' = FALSE
        ELSE pass' = Absent /\ UNCHANGED again

\* Mutant: what a truncated log had given stays in the ledger.
EntryWithout(f) ==
    LET e == mem.cache[f]
    IN IF e # Absent /\ e.off <= lines[f]
       THEN [gain |-> lines[f] - e.off,
             part |-> (IF e.part = Sealed THEN 0 ELSE e.part) + lines[f] - e.off]
       ELSE [gain |-> lines[f], part |-> lines[f]]

\* What the log f adds to the ledger, and its contribution from now on.
EntryOf(f) ==
    LET e == mem.cache[f]
    IN IF e = Absent THEN [gain |-> lines[f], part |-> lines[f]]
       ELSE IF e.off <= lines[f]
       THEN [gain |-> lines[f] - e.off,
             part |-> (IF e.part = Sealed THEN 0 ELSE e.part) + lines[f] - e.off]
       ELSE [gain |-> lines[f] - e.part, part |-> lines[f]]

\* readNewLines cannot open the file: its entry stays as it was.
Unreadable(f) == UNCHANGED mem

\* processJsonlFile, staged: the log is unchanged, unreadable or read to its end.
Process(f) ==
    IF mem.cache[f] # Absent /\ mem.cache[f].fresh THEN UNCHANGED mem
    ELSE \/ Unreadable(f)
         \/ mem' = [ledger |-> [mem.ledger EXCEPT ![f] = @ + EntryOf(f).gain],
                    cache |-> [mem.cache EXCEPT
                                 ![f] = [off |-> lines[f], fresh |-> TRUE,
                                         part |-> EntryOf(f).part]]]

\* The next log of the pass, which is skipped once a sealed truncation was seen.
ScanLog ==
    /\ pass # Absent /\ pass.todo # <<>>
    /\ LET f == Head(pass.todo)
       IN \/ /\ pass.sealed \/ f \in quarantined
             /\ pass' = [pass EXCEPT !.todo = Tail(pass.todo)]
             /\ UNCHANGED <<mem, streak>>
          \/ /\ ~pass.sealed /\ f \notin quarantined \cup poison
             /\ streak' = [streak EXCEPT ![f] = 0]
             /\ IF IsSealed(mem, f) /\ Behind(mem, f)
                THEN /\ pass' = [pass EXCEPT !.todo = Tail(pass.todo), !.sealed = TRUE]
                     /\ UNCHANGED mem
                ELSE /\ pass' = [pass EXCEPT !.todo = Tail(pass.todo)]
                     /\ Process(f)
    /\ UNCHANGED <<lines, poison, saved, again, host>>

\* loadPersistedState.
Reloaded == saved

\* SweepFileError: the run fails, counts against the log and reloads the file.
ScanFails ==
    /\ pass # Absent /\ pass.todo # <<>> /\ ~pass.sealed
    /\ Head(pass.todo) \in poison \ quarantined
    /\ streak' = [streak EXCEPT ![Head(pass.todo)] = @ + 1]
    /\ mem' = Reloaded
    /\ Idle
    /\ UNCHANGED <<lines, poison, saved, host>>

\* sweepFiles after a sealed truncation: everything is reset and scanned once more.
Rebuild ==
    /\ pass # Absent /\ pass.todo = <<>> /\ pass.sealed /\ ~pass.rebuilt
    /\ mem' = Fresh
    /\ pass' = [pass EXCEPT !.todo = Logs, !.sealed = FALSE, !.rebuilt = TRUE]
    /\ UNCHANGED <<lines, poison, saved, again, streak, host>>

\* persist(): the logs that are old are sealed, the file is replaced whole.
Persist ==
    /\ pass # Absent /\ pass.todo = <<>> /\ (~pass.sealed \/ pass.rebuilt)
    /\ \E old \in SUBSET {f \in Log : mem.cache[f] # Absent} :
         /\ Reseal \/ \A f \in old : mem.cache[f].off >= lines[f]
         /\ mem' = [mem EXCEPT !.cache =
                      [f \in Log |-> IF f \in old THEN [@[f] EXCEPT !.part = Sealed] ELSE @[f]]]
    /\ saved' = mem'
    /\ streak' = [f \in Log |-> IF f \in quarantined THEN streak[f] ELSE 0]
    /\ host' = IF pass.first THEN [host EXCEPT !.reforks = 0, !.forks = 0] ELSE host
    /\ Idle
    /\ UNCHANGED <<lines, poison>>

PersistFails ==
    /\ pass # Absent /\ pass.todo = <<>> /\ (~pass.sealed \/ pass.rebuilt)
    /\ mem' = Reloaded
    /\ Idle
    /\ UNCHANGED <<lines, poison, saved, streak, host>>

-----------------------------------------------------------------------------
(* The host.                                                                 *)

\* The memory of a worker goes with it.
Forgotten ==
    /\ mem' = Fresh /\ pass' = Absent /\ again' = FALSE
    /\ streak' = [f \in Log |-> 0]

\* spawn, and the config message in the worker: the file is loaded, the first sweep
\* begins.
Spawned ==
    /\ host.proc = "forked"
    /\ host' = [host EXCEPT !.proc = "up"]
    /\ mem' = saved /\ pass' = NewPass(TRUE)
    /\ UNCHANGED <<lines, poison, saved, again, streak>>

\* start().
Forked(h) == [h EXCEPT !.proc = "forked", !.forks = @ + 1]

\* The exit event: the reads are settled, and the worker is forked again while the
\* budget lasts.
Exit ==
    /\ host.proc # Absent
    /\ Forgotten
    /\ LET h == [host EXCEPT !.proc = Absent, !.asked = FALSE]
       IN host' = IF host.reforks >= MaxReforks THEN [h EXCEPT !.gaveUp = TRUE]
                  ELSE Forked([h EXCEPT !.reforks = @ + 1])
    /\ UNCHANGED <<lines, poison, saved>>

\* setEnabled of an enabled host that has given up leaves it so.
MayStart(on) == on /\ (~host.enabled \/ ~host.gaveUp)

\* setEnabled, for every patch of the settings.
SetTelemetry(on) ==
    /\ IF ~on
       THEN /\ host' = [host EXCEPT !.enabled = FALSE, !.proc = Absent, !.asked = FALSE]
            /\ Forgotten
       ELSE /\ LET h == IF host.enabled THEN host
                        ELSE [host EXCEPT !.enabled = TRUE, !.reforks = 0, !.gaveUp = FALSE,
                                          !.forks = 0]
               IN host' = IF MayStart(on) /\ host.proc = Absent THEN Forked(h) ELSE h
            /\ UNCHANGED <<mem, pass, again, streak>>
    /\ UNCHANGED <<lines, poison, saved>>

\* queryRange, and its end: the result or the timeout.
QueryRange ==
    /\ host.proc # Absent
    /\ host' = [host EXCEPT !.asked = ~@]
    /\ UNCHANGED <<lines, poison, mem, saved, pass, again, streak>>

UsageNext ==
    \/ \E f \in Log : AppendLine(f) \/ Rotate(f) \/ Spoil(f)
    \/ Sweep \/ ScanLog \/ ScanFails \/ Rebuild \/ Persist \/ PersistFails
    \/ Spawned \/ Exit \/ QueryRange
    \/ \E on \in BOOLEAN : SetTelemetry(on)

-----------------------------------------------------------------------------
Entries == {Absent} \cup [off : Nat, fresh : BOOLEAN, part : {Sealed} \cup Int]
States == [ledger : [Log -> Int], cache : [Log -> Entries]]

UsageTypeOK ==
    /\ \A f \in Log : lines[f] \in 0..MaxLines[f]
    /\ poison \subseteq Log
    /\ mem \in States /\ saved \in States
    /\ pass \in {Absent} \cup [todo : Seq(Log), sealed : BOOLEAN, rebuilt : BOOLEAN,
                               first : BOOLEAN]
    /\ again \in BOOLEAN
    /\ streak \in [Log -> 0..MaxFailures]
    /\ host \in [enabled : BOOLEAN, proc : {Absent, "forked", "up"}, reforks : 0..MaxReforks,
                 gaveUp : BOOLEAN, asked : BOOLEAN, forks : Nat]

\* The ledger holds every line once: what it has of a log is what lies before the offset
\* it is kept with, in memory and in the file, whatever was rotated, sealed, spoiled or
\* rebuilt and wherever the worker crashed; and a log whose time is known has no line
\* behind its offset (processJsonlFile, "the total idempotent").
LedgerIsExact ==
    \A s \in {mem, saved}, f \in Log :
      LET e == s.cache[f]
      IN /\ s.ledger[f] = IF e = Absent THEN 0 ELSE e.off
         /\ e # Absent /\ e.fresh => e.off = lines[f]

\* A worker that dies before it is ever ready is forked MaxReforks times and no more,
\* whatever settings are written meanwhile; a host without a worker leaves no read
\* waiting, and has none only when it is switched off or has given up.
BudgetIsHonest ==
    /\ host.forks <= MaxReforks + 1
    /\ host.proc = Absent <=> (~host.enabled \/ host.gaveUp)
    /\ host.asked => host.proc # Absent

\* The ledger is exact and the budget of the forks is kept.
UsageIsExact == LedgerIsExact /\ BudgetIsHonest
=============================================================================
