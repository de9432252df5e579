---------------------------- MODULE LiveSchedule ----------------------------
(***************************************************************************)
(* Live's arithmetic (src/apps_local/live/LiveCore.cpp): how long to wait  *)
(* after a check, and whether a sleep that begins now fetches first.  A    *)
(* state of Live is a record; its age is the time since the last attempt,  *)
(* which is nowEpoch - lastAttemptEpoch capped at Horizon: no wait is      *)
(* longer.  A reader that never asked (lastAttemptEpoch 0) has age Never.  *)
(***************************************************************************)
EXTENDS Integers

CONSTANTS
  FirstRetry,       \* kFirstRetrySeconds, in units of time
  MaxRetry,         \* kMaxRetrySeconds
  MinInterval,      \* kMinIntervalSeconds
  MaxInterval,      \* kMaxIntervalSeconds
  DefaultInterval,  \* kDefaultIntervalSeconds
  MaxFails          \* bound: failures are counted up to here, where the delay is at its cap

ASSUME DelayAssumption == /\ FirstRetry \in Nat \ {0} /\ MaxRetry \in Nat
                          /\ FirstRetry <= MaxRetry
ASSUME IntervalAssumption == /\ MinInterval \in Nat \ {0} /\ MaxInterval \in Nat
                             /\ DefaultInterval \in MinInterval .. MaxInterval
ASSUME FailsAssumption == MaxFails \in Nat \ {0}

Smaller(a, b) == IF a <= b THEN a ELSE b
Horizon == IF MaxRetry <= MaxInterval THEN MaxInterval ELSE MaxRetry
Never == Horizon + 1
Later(age, d) == IF age = Never THEN Never ELSE Smaller(age + d, Horizon)

clampInterval(s) == IF s < MinInterval THEN MinInterval ELSE Smaller(s, MaxInterval)

\* The loop of retryDelaySeconds: doubled once a failure, and stopped before it
\* can pass the cap.
doubled[n \in Nat] ==
  IF n <= 1 THEN FirstRetry
  ELSE IF doubled[n - 1] >= MaxRetry \div 2 THEN MaxRetry ELSE 2 * doubled[n - 1]
retryDelay(fails) == IF fails <= 0 THEN 0 ELSE Smaller(doubled[fails], MaxRetry)

\* What the doubling comes to: longer after every failure, up to the cap.
ASSUME RetryAssumption ==
  \A n \in 1 .. MaxFails : /\ retryDelay(n) \in 1 .. MaxRetry
                           /\ \A m \in n .. MaxFails : retryDelay(n) <= retryDelay(m)

waitOf(st) == IF st.fails > 0 THEN retryDelay(st.fails) ELSE st.every

\* decide(): nothing for a reader that is off or unpaired; otherwise fetch when
\* our timer ended the sleep, when nobody ever asked, when the wait is over, or,
\* with no clock to tell, while nothing is failing.  Its timer is the rest of
\* the wait.
paired(st) == st.key # 0
eligible(st) == st.on /\ paired(st)
fetchNow(st, clock, fired) ==
  /\ eligible(st)
  /\ \/ fired
     \/ st.age = Never
     \/ IF clock THEN st.age >= waitOf(st) ELSE st.fails = 0
timerOf(st, clock, fired) ==
  IF ~eligible(st) THEN 0
  ELSE IF clock /\ ~fetchNow(st, clock, fired) THEN waitOf(st) - st.age ELSE waitOf(st)
=============================================================================
