----------------------------- MODULE WorkerLoop -----------------------------
(***************************************************************************)
(* One background worker (worker._worker_loop): poll, process the oldest   *)
(* pending entry, sleep; after an exception, back off with equal jitter,   *)
(* base * 2^(attempt-1) capped.  What processing an entry does is          *)
(* EntryLifecycle's matter; here it succeeds or raises.  The worker lives  *)
(* as long as the application (main.lifespan, run_worker): a shutdown      *)
(* cancels the task wherever it is, the next start makes a new one.        *)
(***************************************************************************)
EXTENDS Integers, Sequences

CONSTANTS
    Entries,        \* entries that will become pending
    Poison,         \* entries whose processing always raises
    PollInterval,   \* poll_interval_s
    Throttle,       \* throttle_s
    Cap,            \* _BACKOFF_CAP_S
    MaxPower,       \* smallest p for which 2^p does not fit a float
    MaxAttempts,    \* bound: consecutive_failures stops counting here
    MaxOutages,     \* bound: outages of the model, Anki or the database
    MaxRestarts     \* bound: shutdowns of the application

ASSUME LoopAssumption ==
    /\ Poison \subseteq Entries
    /\ PollInterval \in Nat \ {0} /\ Throttle \in Nat /\ Cap \in Nat \ {0}
    /\ PollInterval <= Cap
    /\ MaxPower \in Nat /\ MaxAttempts \in Nat \ {0}
    /\ {MaxOutages, MaxRestarts} \subseteq Nat

VARIABLES
    queue,      \* pending entries by created_at
    processed,  \* entries the worker committed
    failures,   \* consecutive_failures
    pause,      \* the sleep the loop is in
    pc,         \* "polling", "sleeping", "dead" (its handler raised) or "stopped"
    outage,     \* what is down
    outages,    \* outages so far
    restarts    \* shutdowns so far

vars == <<queue, processed, failures, pause, pc, outage, outages, restarts>>

TypeOK ==
    /\ queue \in Seq(Entries)
    /\ processed \subseteq Entries
    /\ failures \in Nat /\ pause \in 0..Cap \cup {Throttle}
    /\ pc \in {"polling", "sleeping", "dead", "stopped"}
    /\ outage \in {"none", "upstream", "database"}
    /\ outages \in Nat /\ restarts \in Nat

Init ==
    /\ queue = <<>> /\ processed = {}
    /\ failures = 0 /\ pause = 0
    /\ pc = "polling"
    /\ outage = "none" /\ outages = 0 /\ restarts = 0

-----------------------------------------------------------------------------
(* _backoff_seconds: the factor 2^(attempt-1) no longer fits a float.      *)
Overflows(attempt) == attempt - 1 >= MaxPower

pow2[n \in 0..MaxAttempts] == IF n = 0 THEN 1 ELSE 2 * pow2[n - 1]

(* min(base * 2^(attempt-1), cap).                                         *)
RawBackoff(attempt) ==
    IF PollInterval * pow2[attempt - 1] > Cap THEN Cap ELSE PollInterval * pow2[attempt - 1]

BackoffFull(attempt) == 0..RawBackoff(attempt)      \* mutant: full jitter
Backoff(attempt) == (RawBackoff(attempt) + 1) \div 2 .. RawBackoff(attempt)

Sleep(s) == pc' = "sleeping" /\ pause' = s

-----------------------------------------------------------------------------
(* add_entry's fallback or an import leaves a pending row.                 *)
Arrive(e) ==
    /\ e \notin processed
    /\ \A i \in 1..Len(queue) : queue[i] # e
    /\ queue' = Append(queue, e)
    /\ UNCHANGED <<processed, failures, pause, pc, outage, outages, restarts>>

FindEmpty ==
    /\ pc = "polling" /\ outage # "database"
    /\ queue = <<>>
    /\ failures' = 0
    /\ Sleep(PollInterval)
    /\ UNCHANGED <<queue, processed, outage, outages, restarts>>

Processable == outage = "none" /\ queue # <<>> /\ Head(queue) \notin Poison

ProcessOldest ==
    /\ pc = "polling" /\ Processable
    /\ queue' = Tail(queue)
    /\ processed' = processed \cup {Head(queue)}
    /\ failures' = 0
    /\ Sleep(Throttle)
    /\ UNCHANGED <<outage, outages, restarts>>

(* The claim or the processing raises; the row stays pending, and first.   *)
(* The backoff computed in the handler may raise itself.                   *)
Raises == outage = "database" \/ (queue # <<>> /\ ~Processable)

IterationEscapes ==                         \* mutant: exception not caught
    /\ pc = "polling" /\ Raises
    /\ pc' = "dead"
    /\ UNCHANGED <<queue, processed, failures, pause, outage, outages, restarts>>
IterationFails ==
    /\ pc = "polling" /\ Raises
    /\ failures' = IF failures < MaxAttempts THEN failures + 1 ELSE failures
    /\ IF Overflows(failures')
       THEN pc' = "dead" /\ UNCHANGED pause
       ELSE \E s \in Backoff(failures') : Sleep(s)
    /\ UNCHANGED <<queue, processed, outage, outages, restarts>>

Wake ==
    /\ pc = "sleeping"
    /\ pc' = "polling"
    /\ UNCHANGED <<queue, processed, failures, pause, outage, outages, restarts>>

Break ==
    /\ outage = "none" /\ outages < MaxOutages
    /\ outage' \in {"upstream", "database"}
    /\ outages' = outages + 1
    /\ UNCHANGED <<queue, processed, failures, pause, pc, restarts>>

Repair ==
    /\ outage # "none"
    /\ outage' = "none"
    /\ UNCHANGED <<queue, processed, failures, pause, pc, outages, restarts>>

(* task.cancel(): what was not committed is rolled back and stays pending. *)
(* A task that has died re-raises here, which ends the application too.    *)
Shutdown ==
    /\ pc # "stopped"
    /\ restarts < MaxRestarts /\ restarts' = restarts + 1
    /\ pc' = "stopped"
    /\ UNCHANGED <<queue, processed, failures, pause, outage, outages>>

(* A new task counts from zero.                                            *)
Startup ==
    /\ pc = "stopped"
    /\ pc' = "polling"
    /\ failures' = 0 /\ pause' = 0
    /\ UNCHANGED <<queue, processed, outage, outages, restarts>>

Loop == FindEmpty \/ ProcessOldest \/ IterationFails \/ Wake

Next == (\E e \in Entries : Arrive(e)) \/ Loop \/ Break \/ Repair \/ Shutdown \/ Startup

Spec == Init /\ [][Next]_vars

(* The event loop runs the task and its timers; neither an outage nor a    *)
(* shutdown lasts.                                                         *)
FairSpec == Spec /\ WF_vars(Loop) /\ WF_vars(Repair) /\ WF_vars(Startup)

-----------------------------------------------------------------------------
(* Mid-incident the loop never falls back to a short sleep: every sleep    *)
(* after a repeated failure is at least half as long as the one before it, *)
(* and the first one is at least half a poll interval.                     *)
NoHammering ==
    [][pc = "polling" /\ pc' = "sleeping" /\ failures' > 0
         => /\ 2 * pause' >= PollInterval
            /\ failures > 0 => 2 * pause' >= pause]_vars

(* A pending entry with nothing unprocessable ahead of it is processed     *)
(* once the outage is over, however long the worker had been backing off   *)
(* and however often the application was restarted; only more than         *)
(* MaxPower failures of one task excuse it (worker.py:307-337 catches      *)
(* everything but what its own handler raises), and a restart ends that.   *)
Reachable(e) == \E i \in 1..Len(queue) :
                    queue[i] = e /\ \A k \in 1..i : queue[k] \notin Poison

QueueRecovers ==
    \A e \in Entries : Reachable(e) ~> e \in processed \/ (pc = "dead" /\ failures > MaxPower)
=============================================================================
