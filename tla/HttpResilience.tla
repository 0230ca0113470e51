--------------------------- MODULE HttpResilience ---------------------------
(***************************************************************************)
(* HttpClientResilienceHandler: retries of transient failures and a        *)
(* circuit breaker, in front of every CMDBuild and Zabbix client of the    *)
(* three workers. What the handler does between two awaits is one action;  *)
(* the two fields of the breaker change under its lock. Callers may share  *)
(* a handler. Time is a clock that ticks, in seconds say; back-off delays  *)
(* are the waits between actions. The servers fail until OutageEnd only.   *)
(***************************************************************************)
EXTENDS Integers

CONSTANTS
    Callers,           \* users of one HttpClient
    MaxRetryAttempts,  \* attempts of one call
    Threshold,         \* CircuitBreakerFailureThreshold
    BreakTime,         \* CircuitBreakerBreakSeconds
    OutageEnd          \* bound: when the server has recovered

ASSUME ResilienceAssumption ==
    /\ MaxRetryAttempts \in Nat \ {0}
    /\ Threshold \in Nat \ {0}
    /\ BreakTime \in Nat \ {0}
    /\ OutageEnd \in Nat \ {0}

VARIABLES
    now,                  \* the clock
    consecutiveFailures,
    circuitOpenUntil,     \* 0 stands for null
    callPc,               \* program counter of each call of SendAsync
    callAttempt,          \* attempt number of each call
    responded             \* history: a response came since the circuit opened

httpVars == <<now, consecutiveFailures, circuitOpenUntil, callPc, callAttempt, responded>>

HttpInit ==
    /\ now = 1
    /\ consecutiveFailures = 0
    /\ circuitOpenUntil = 0
    /\ callPc = [c \in Callers |-> "idle"]
    /\ callAttempt = [c \in Callers |-> 1]
    /\ responded = FALSE

Goto(c, label) == callPc' = [callPc EXCEPT ![c] = label]
Outage == now < OutageEnd

-----------------------------------------------------------------------------
Tick ==
    /\ now < OutageEnd + BreakTime
    /\ now' = now + 1
    /\ UNCHANGED <<consecutiveFailures, circuitOpenUntil, callPc, callAttempt, responded>>

\* SendAsync is called.
Call(c) ==
    /\ callPc[c] = "idle"
    /\ Goto(c, "check")
    /\ callAttempt' = [callAttempt EXCEPT ![c] = 1]
    /\ UNCHANGED <<now, consecutiveFailures, circuitOpenUntil, responded>>

\* ThrowIfCircuitOpen finds the circuit closed: the attempt is sent.
Pass(c) ==
    /\ circuitOpenUntil = 0
    /\ Goto(c, "sending")
    /\ UNCHANGED <<consecutiveFailures, circuitOpenUntil>>

\* ThrowIfCircuitOpen finds the break over and closes the circuit.
Expire(c) ==
    /\ circuitOpenUntil # 0 /\ circuitOpenUntil <= now
    /\ circuitOpenUntil' = 0
    /\ consecutiveFailures' = 0
    /\ Goto(c, "sending")

(* ThrowIfCircuitOpen throws, outside the try block: the call fails at     *)
(* once, and neither as a failure nor as an attempt is it counted.         *)
FailFast(c) ==
    /\ circuitOpenUntil > now
    /\ Goto(c, "idle")
    /\ UNCHANGED <<consecutiveFailures, circuitOpenUntil>>

Check(c) ==
    /\ callPc[c] = "check"
    /\ Pass(c) \/ Expire(c) \/ FailFast(c)
    /\ UNCHANGED <<now, callAttempt, responded>>

\* A status that is not transient, success or not: ResetCircuit.
ResetCircuit(c) ==
    /\ callPc[c] = "sending"
    /\ consecutiveFailures' = 0
    /\ circuitOpenUntil' = 0
    /\ responded' = TRUE
    /\ Goto(c, "idle")
    /\ UNCHANGED <<now, callAttempt>>

\* A transient status, or a transient exception, with attempts left.
Retry(c) ==
    /\ callPc[c] = "sending" /\ Outage
    /\ callAttempt[c] < MaxRetryAttempts
    /\ callAttempt' = [callAttempt EXCEPT ![c] = @ + 1]
    /\ Goto(c, "check")
    /\ UNCHANGED <<now, consecutiveFailures, circuitOpenUntil, responded>>

ThresholdReached == consecutiveFailures + 1 >= Threshold

\* Mutant: a failure while the circuit is open adds to the break.
BreakEndAdded ==
    IF circuitOpenUntil > now THEN circuitOpenUntil + BreakTime ELSE now + BreakTime

BreakEnd == now + BreakTime

\* The last attempt has failed: RegisterFailure.
GiveUp(c) ==
    /\ callPc[c] = "sending" /\ Outage
    /\ callAttempt[c] = MaxRetryAttempts
    /\ IF ThresholdReached
       THEN /\ circuitOpenUntil' = BreakEnd
            /\ consecutiveFailures' = 0
            /\ responded' = FALSE
       ELSE /\ consecutiveFailures' = consecutiveFailures + 1
            /\ UNCHANGED <<circuitOpenUntil, responded>>
    /\ Goto(c, "idle")
    /\ UNCHANGED <<now, callAttempt>>

(* The server does not answer. RequestTimeoutMs is enforced above this     *)
(* handler, by HttpClient.Timeout or a linked token source, so that the    *)
(* handler's own token is cancelled: IsTransientException says no, and the *)
(* exception passes through without a retry or RegisterFailure.            *)
TimeOut(c) ==
    /\ callPc[c] \in {"check", "sending"} /\ Outage
    /\ Goto(c, "idle")
    /\ UNCHANGED <<now, consecutiveFailures, circuitOpenUntil, callAttempt, responded>>

HttpNext ==
    \/ Tick
    \/ \E c \in Callers :
         Call(c) \/ Check(c) \/ ResetCircuit(c) \/ Retry(c) \/ GiveUp(c) \/ TimeOut(c)

HttpSpec == HttpInit /\ [][HttpNext]_httpVars

-----------------------------------------------------------------------------
(* Type correctness of the breaker and of the calls under way; the count   *)
(* of failures stays below the threshold.                                  *)
CallsTypeOK ==
    /\ now \in 1 .. OutageEnd + BreakTime
    /\ consecutiveFailures \in 0 .. Threshold - 1
    /\ circuitOpenUntil \in 0 .. OutageEnd + BreakTime - 1
    /\ callPc \in [Callers -> {"idle", "check", "sending"}]
    /\ callAttempt \in [Callers -> 1 .. MaxRetryAttempts]
    /\ responded \in BOOLEAN

(* An open circuit is closed again by time or by a response, never by the  *)
(* failures of calls that were under way when it opened.                   *)
BreakIsKept ==
    [][(circuitOpenUntil > now /\ circuitOpenUntil' = 0) => responded']_httpVars

(* The breaker gives way within one break time of the server's recovery,   *)
(* however many calls failed or were still failing when it opened.         *)
OneBreakAfterOutage ==
    now >= OutageEnd + BreakTime => circuitOpenUntil <= now
=============================================================================
