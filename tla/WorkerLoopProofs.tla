-------------------------- MODULE WorkerLoopProofs --------------------------
(***************************************************************************)
(* The worker's backoff for any queue, any cap, any number of failures,    *)
(* outages and restarts: mid-incident it never falls back to a short       *)
(* sleep.                                                                  *)
(***************************************************************************)
EXTENDS WorkerLoop, WellFoundedInduction, TLAPS

USE LoopAssumption

(* Induction over the natural numbers, for the members of a set.           *)
LEMMA NatsInSet ==
    ASSUME NEW S, 0 \in S, \A n \in Nat : n \in S => n + 1 \in S
    PROVE  Nat \subseteq S
<1> DEFINE T == Nat \ S
           R == OpToRel(<, Nat)
<1> SUFFICES ASSUME T # {} PROVE FALSE
  OBVIOUS
<1>1. IsWellFoundedOn(R, Nat)
  BY NatLessThanWellFounded
<1>2. PICK m \in T : \A y \in T : ~(<<y, m>> \in R)
  <2> HIDE DEF R
  <2> QED BY <1>1, WFMin
<1>3. m - 1 \in Nat /\ m - 1 < m
  <2>1. m \in Nat /\ m # 0
    BY <1>2
  <2> QED BY <2>1
<1>4. <<m - 1, m>> \in R
  <2>1. <<m - 1, m>> \in Nat \X Nat /\ <<m - 1, m>>[1] < <<m - 1, m>>[2]
    BY <1>3
  <2> QED BY <2>1, Zenon DEF OpToRel
<1>5. m - 1 \in S
  BY <1>2, <1>3, <1>4
<1> QED BY <1>3, <1>5

(* The recursion of pow2 has a solution.                                   *)
LEMMA PowersExist ==
    ASSUME NEW L \in Nat
    PROVE  \E f : f = [n \in 0..L |-> IF n = 0 THEN 1 ELSE 2 * f[n - 1]]
<1> DEFINE Powers(f, m) == [n \in 0..m |-> IF n = 0 THEN 1 ELSE 2 * f[n - 1]]
           S == {m \in Nat : \E f : f = Powers(f, m)}
<1>1. 0 \in S
  <2> DEFINE f == [n \in 0..0 |-> 1]
  <2>1. f = Powers(f, 0)
    OBVIOUS
  <2> QED BY <2>1
<1>2. ASSUME NEW m \in Nat, m \in S PROVE m + 1 \in S
  <2>1. PICK f : f = Powers(f, m)
    BY <1>2
  <2> DEFINE g == [n \in 0..(m + 1) |-> IF n = m + 1 THEN 2 * f[m] ELSE f[n]]
  <2>2. \A n \in 0..m : g[n] = f[n] /\ f[n] = IF n = 0 THEN 1 ELSE 2 * f[n - 1]
    BY <2>1
  <2>3. g[m + 1] = 2 * f[m]
    OBVIOUS
  <2>4. g = [n \in 0..(m + 1) |-> g[n]]
    OBVIOUS
  <2> HIDE DEF g
  <2>5. ASSUME NEW n \in 0..(m + 1)
        PROVE  g[n] = IF n = 0 THEN 1 ELSE 2 * g[n - 1]
    <3>1. CASE n = m + 1
      <4>1. n # 0 /\ n - 1 = m /\ g[m] = f[m] /\ g[n] = 2 * f[m]
        BY <2>2, <2>3, <3>1
      <4> QED BY <4>1
    <3>2. CASE n # m + 1 /\ n # 0
      <4>1. n \in 0..m /\ n - 1 \in 0..m
        BY <3>2
      <4>2. g[n] = f[n] /\ g[n - 1] = f[n - 1] /\ f[n] = 2 * f[n - 1]
        BY <2>2, <3>2, <4>1
      <4> QED BY <3>2, <4>2
    <3>3. CASE n = 0
      BY <2>2, <3>3
    <3> QED BY <3>1, <3>2, <3>3
  <2>6. g = Powers(g, m + 1)
    BY <2>4, <2>5
  <2> HIDE DEF Powers
  <2> QED BY <2>6
<1> HIDE DEF S
<1>3. Nat \subseteq S
  BY <1>1, <1>2, NatsInSet
<1>4. L \in S
  BY <1>3
<1> QED BY <1>4 DEF S

(* The powers of two are positive and double.                              *)
LEMMA Powers ==
    /\ \A n \in 0..MaxAttempts : pow2[n] \in Nat /\ pow2[n] >= 1
    /\ \A n \in 1..MaxAttempts : pow2[n] = 2 * pow2[n - 1]
<1> DEFINE S == {n \in Nat : n <= MaxAttempts => pow2[n] \in Nat /\ pow2[n] >= 1}
<1>1. pow2 = [n \in 0..MaxAttempts |-> IF n = 0 THEN 1 ELSE 2 * pow2[n - 1]]
  BY PowersExist DEF pow2
<1>2. ASSUME NEW n \in 0..MaxAttempts
      PROVE  pow2[n] = IF n = 0 THEN 1 ELSE 2 * pow2[n - 1]
  BY <1>1
<1> HIDE DEF pow2
<1>3. 0 \in S
  BY <1>2
<1>4. ASSUME NEW n \in Nat, n \in S PROVE n + 1 \in S
  <2> SUFFICES ASSUME n + 1 <= MaxAttempts
               PROVE  pow2[n + 1] \in Nat /\ pow2[n + 1] >= 1
    OBVIOUS
  <2>1. n + 1 \in 0..MaxAttempts /\ n + 1 # 0 /\ (n + 1) - 1 = n
    OBVIOUS
  <2>2. pow2[n] \in Nat /\ pow2[n] >= 1
    BY <1>4
  <2>3. pow2[n + 1] = 2 * pow2[n]
    BY <1>2, <2>1
  <2> QED BY <2>2, <2>3
<1> HIDE DEF S
<1>5. Nat \subseteq S
  BY <1>3, <1>4, NatsInSet
<1>6. \A n \in 0..MaxAttempts : pow2[n] \in Nat /\ pow2[n] >= 1
  BY <1>5 DEF S
<1>7. \A n \in 1..MaxAttempts : pow2[n] = 2 * pow2[n - 1]
  BY <1>2
<1> QED BY <1>6, <1>7

(* The unjittered backoff starts at the poll interval, or above it, grows, *)
(* and stays under the cap.                                                *)
LEMMA RawBackoffGrows ==
    /\ \A n \in 1..MaxAttempts :
          RawBackoff(n) \in Nat /\ PollInterval <= RawBackoff(n) /\ RawBackoff(n) <= Cap
    /\ \A n \in 1..(MaxAttempts - 1) : RawBackoff(n) <= RawBackoff(n + 1)
<1>1. ASSUME NEW n \in 1..MaxAttempts
      PROVE  /\ PollInterval * pow2[n - 1] \in Nat
             /\ PollInterval <= PollInterval * pow2[n - 1]
  <2>1. n - 1 \in 0..MaxAttempts
    OBVIOUS
  <2> DEFINE p == pow2[n - 1]
  <2>2. p \in Nat /\ p >= 1
    BY <2>1, Powers
  <2> HIDE DEF p
  <2>3. PollInterval * p \in Nat /\ PollInterval <= PollInterval * p
    BY <2>2
  <2> QED BY <2>3 DEF p
<1>2. ASSUME NEW n \in 1..(MaxAttempts - 1)
      PROVE  PollInterval * pow2[(n + 1) - 1] = 2 * (PollInterval * pow2[n - 1])
  <2>1. n \in 1..MaxAttempts /\ (n + 1) - 1 = n /\ n - 1 \in 0..MaxAttempts
    OBVIOUS
  <2> DEFINE p == pow2[n - 1]
  <2>2. p \in Nat /\ pow2[n] = 2 * p
    BY <2>1, Powers
  <2> HIDE DEF p
  <2>3. PollInterval * (2 * p) = 2 * (PollInterval * p)
    BY <2>2
  <2> QED BY <2>1, <2>2, <2>3 DEF p
<1>3. ASSUME NEW n \in 1..MaxAttempts
      PROVE  RawBackoff(n) \in Nat /\ PollInterval <= RawBackoff(n) /\ RawBackoff(n) <= Cap
  BY <1>1 DEF RawBackoff
<1>4. ASSUME NEW n \in 1..(MaxAttempts - 1)
      PROVE  RawBackoff(n) <= RawBackoff(n + 1)
  <2>1. n \in 1..MaxAttempts /\ n + 1 \in 1..MaxAttempts
    OBVIOUS
  <2> QED BY <1>1, <1>2, <2>1 DEF RawBackoff
<1> QED BY <1>3, <1>4

(* Equal jitter keeps at least half.                                       *)
LEMMA EqualJitter ==
    ASSUME NEW n \in 1..MaxAttempts, NEW s \in Backoff(n)
    PROVE  s \in 0..Cap /\ s <= RawBackoff(n) /\ 2 * s >= RawBackoff(n)
<1> DEFINE r == RawBackoff(n)
<1>1. r \in Nat /\ r <= Cap
  BY RawBackoffGrows
<1>2. s \in (r + 1) \div 2 .. r
  BY DEF Backoff
<1> HIDE DEF r
<1>3. s \in 0..Cap /\ s <= r /\ 2 * s >= r
  BY <1>1, <1>2
<1> QED BY <1>3 DEF r

-----------------------------------------------------------------------------
(* After a failure the loop is in, or has just come out of, a pause its    *)
(* count of failures allows; it runs as long as the count lets it.         *)
PauseInv ==
    /\ failures <= MaxAttempts
    /\ failures > 0 /\ pc \in {"polling", "sleeping"} => pause <= RawBackoff(failures)
    /\ pc \in {"polling", "sleeping"} => failures <= MaxPower
    /\ pc = "dead" => failures > MaxPower

LoopInv == TypeOK /\ PauseInv

(* What a failed iteration does to the pause.                              *)
LEMMA FailureStep ==
    ASSUME LoopInv, IterationFails
    PROVE  /\ failures' \in 1..MaxAttempts
           /\ failures > 0 => failures \in 1..MaxAttempts
                              /\ RawBackoff(failures) <= RawBackoff(failures')
           /\ \/ pc' = "dead" /\ UNCHANGED pause /\ failures' > MaxPower
              \/ /\ pc' = "sleeping" /\ pause' \in Backoff(failures')
                 /\ failures' <= MaxPower
<1>1. failures \in Nat /\ failures <= MaxAttempts
  BY DEF LoopInv, TypeOK, PauseInv
<1>2. failures' = IF failures < MaxAttempts THEN failures + 1 ELSE failures
  BY DEF IterationFails
<1>3. failures' \in 1..MaxAttempts
  BY <1>1, <1>2
<1>4. ASSUME failures > 0 PROVE RawBackoff(failures) <= RawBackoff(failures')
  <2>1. CASE failures < MaxAttempts
    <3>1. failures \in 1..(MaxAttempts - 1) /\ failures' = failures + 1
      BY <1>1, <1>2, <1>4, <2>1
    <3> QED BY <3>1, RawBackoffGrows
  <2>2. CASE failures = MaxAttempts
    <3>1. failures \in 1..MaxAttempts /\ failures' = failures
      BY <1>1, <1>2, <1>4, <2>2
    <3> QED BY <3>1, RawBackoffGrows
  <2> QED BY <1>1, <2>1, <2>2
<1>5. \/ pc' = "dead" /\ UNCHANGED pause /\ failures' > MaxPower
      \/ /\ pc' = "sleeping" /\ pause' \in Backoff(failures')
         /\ failures' <= MaxPower
  BY <1>3 DEF IterationFails, Sleep, Overflows
<1> QED BY <1>1, <1>3, <1>4, <1>5

LEMMA LoopStep ==
    ASSUME LoopInv, [Next]_vars
    PROVE  LoopInv'
<1> USE DEF LoopInv
<1>1. CASE \E e \in Entries : Arrive(e)
  BY <1>1 DEF Arrive, TypeOK, PauseInv
<1>2. CASE FindEmpty
  BY <1>2 DEF FindEmpty, Sleep, TypeOK, PauseInv
<1>3. CASE ProcessOldest
  <2>1. Head(queue) \in Entries /\ Tail(queue) \in Seq(Entries)
    BY <1>3 DEF ProcessOldest, Processable, TypeOK
  <2> QED BY <1>3, <2>1 DEF ProcessOldest, Sleep, TypeOK, PauseInv
<1>4. CASE IterationFails
  <2>1. failures' \in 1..MaxAttempts /\ UNCHANGED <<queue, processed, outage, outages, restarts>>
    BY <1>4, FailureStep DEF IterationFails
  <2>2. CASE pc' = "dead" /\ UNCHANGED pause /\ failures' > MaxPower
    BY <2>1, <2>2 DEF TypeOK, PauseInv
  <2>3. CASE pc' = "sleeping" /\ pause' \in Backoff(failures') /\ failures' <= MaxPower
    <3>1. pause' \in 0..Cap /\ pause' <= RawBackoff(failures')
      BY <2>1, <2>3, EqualJitter
    <3>2. (RawBackoff(failures))' = RawBackoff(failures')
      BY DEF RawBackoff
    <3> QED BY <2>1, <2>3, <3>1, <3>2 DEF TypeOK, PauseInv
  <2> QED BY <1>4, <2>2, <2>3, FailureStep
<1>5. CASE Wake
  BY <1>5 DEF Wake, TypeOK, PauseInv
<1>6. CASE Break \/ Repair
  BY <1>6 DEF Break, Repair, TypeOK, PauseInv
<1>7. CASE Shutdown
  BY <1>7 DEF Shutdown, TypeOK, PauseInv
<1>8. CASE Startup
  BY <1>8 DEF Startup, TypeOK, PauseInv
<1>9. CASE UNCHANGED vars
  BY <1>9 DEF vars, TypeOK, PauseInv
<1> QED BY <1>1, <1>2, <1>3, <1>4, <1>5, <1>6, <1>7, <1>8, <1>9 DEF Next, Loop

(* The pause is always one that the count of failures allows.              *)
THEOREM LoopInvariance == Spec => []LoopInv
<1>1. Init => LoopInv
  BY DEF Init, LoopInv, TypeOK, PauseInv
<1> QED BY <1>1, LoopStep, PTL DEF Spec

(* Every sleep after a failure is at least half a poll interval, and half  *)
(* as long as the one before it.                                           *)
THEOREM BackoffNeverHammers == Spec => NoHammering
<1> DEFINE Growing == pc = "polling" /\ pc' = "sleeping" /\ failures' > 0
                        => /\ 2 * pause' >= PollInterval
                           /\ failures > 0 => 2 * pause' >= pause
<1>1. ASSUME LoopInv, [Next]_vars, pc = "polling", pc' = "sleeping", failures' > 0
      PROVE  2 * pause' >= PollInterval /\ (failures > 0 => 2 * pause' >= pause)
  <2>1. IterationFails
    BY <1>1 DEF Next, Loop, Arrive, FindEmpty, ProcessOldest, Wake, Break, Repair,
       Shutdown, Startup, vars, Sleep
  <2>2. failures' \in 1..MaxAttempts /\ pause' \in Backoff(failures')
    BY <1>1, <2>1, FailureStep
  <2>3. pause' \in 0..Cap /\ 2 * pause' >= RawBackoff(failures')
    BY <2>2, EqualJitter
  <2>4. RawBackoff(failures') \in Nat /\ PollInterval <= RawBackoff(failures')
    BY <2>2, RawBackoffGrows
  <2> DEFINE R == RawBackoff(failures')
             P == pause'
  <2>5. P \in Nat /\ 2 * P >= R /\ R \in Nat /\ PollInterval <= R
    BY <2>3, <2>4
  <2> HIDE DEF R, P
  <2>6. ASSUME failures > 0 PROVE 2 * P >= pause
    <3>1. /\ failures \in 1..MaxAttempts /\ RawBackoff(failures) <= R
          /\ pause <= RawBackoff(failures) /\ pause \in Nat
      BY <1>1, <2>1, <2>6, FailureStep DEF LoopInv, PauseInv, TypeOK, R
    <3>2. RawBackoff(failures) \in Nat
      BY <3>1, RawBackoffGrows
    <3> QED BY <2>5, <3>1, <3>2
  <2>7. 2 * P >= PollInterval
    BY <2>5
  <2> QED BY <2>6, <2>7 DEF P
<1>2. LoopInv /\ [Next]_vars => Growing
  BY <1>1
<1>3. LoopInv /\ [Next]_vars => [Growing]_vars
  BY <1>2
<1> QED BY <1>3, LoopInvariance, PTL DEF Spec, NoHammering

(* Nothing ends the loop but the overflow in its own handler: neither an   *)
(* outage nor an entry that always fails.                                  *)
DiesByOverflow == pc = "dead" <=> pc # "stopped" /\ failures > MaxPower

(* A task is dead exactly when it has counted more than MaxPower failures; *)
(* the safety half of QueueRecovers, and why its exception is needed.      *)
THEOREM OnlyOverflowKills == Spec => []DiesByOverflow
<1>1. LoopInv => DiesByOverflow
  BY DEF LoopInv, TypeOK, PauseInv, DiesByOverflow
<1> QED BY <1>1, LoopInvariance, PTL
=============================================================================
