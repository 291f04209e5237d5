------------------------------ MODULE RateLimit ------------------------------
(***************************************************************************)
(* The rate-limiting provider (ratelimit/ratelimit.go): callers of         *)
(* ChatStream wait until a sliding window of Minute ticks has room for one *)
(* more request (RPM) and holds fewer than Tpm tokens (TPM).  One pass of  *)
(* the loop of waitForBudget, which holds r.mu, is one step, and so is     *)
(* recordUsage; time passes and other callers act in between.              *)
(* A tick stands for the shortest wait, 10 ms.                             *)
(***************************************************************************)
EXTENDS Naturals, Integers, Sequences, FiniteSetsExt

CONSTANTS
    Callers,
    Rpm, Tpm,   \* the limits; 0 disables one
    Minute,     \* length of the window in ticks
    Usages,     \* token counts of responses
    MaxTime     \* bound on the clock

ASSUME RateAssumption == /\ Rpm \in Nat /\ Tpm \in Nat /\ Minute \in Nat \ {0}
                         /\ Usages \subseteq Nat /\ MaxTime \in Nat

VARIABLES
    now,
    rpmWindow,  \* times of admitted requests
    tpmWindow,  \* records [at, tokens]
    st,         \* of a caller: "idle", "waiting" or "inside" (the inner provider)
    wakeAt,     \* when the timer of a waiting caller fires
    log         \* history: the times of all admissions counted by RPM

vars == <<now, rpmWindow, tpmWindow, st, wakeAt, log>>

Init == /\ now = 0
        /\ rpmWindow = <<>> /\ tpmWindow = <<>>
        /\ st = [c \in Callers |-> "idle"]
        /\ wakeAt = [c \in Callers |-> 0]
        /\ log = <<>>

TypeOK == /\ now \in 0..MaxTime
          /\ rpmWindow \in Seq(0..MaxTime) /\ log \in Seq(0..MaxTime)
          /\ tpmWindow \in Seq([at : 0..MaxTime, tokens : Usages \ {0}])
          /\ st \in [Callers -> {"idle", "waiting", "inside"}]
          /\ wakeAt \in [Callers -> Nat]

-----------------------------------------------------------------------------
\* Mutant: an entry of exactly one minute's age is dropped as well.
IsPrunedEarly(at, i, w) ==
    /\ \A j \in 1..i : at[j] <= now - Minute
    /\ i < Len(at) => at[i + 1] > now - Minute
    /\ w = SubSeq(at, i + 1, Len(at))

\* w is what pruneTime leaves of the times at: the entries before the cutoff are
\* taken off the front, i of them.
IsPruned(at, i, w) ==
    /\ \A j \in 1..i : at[j] < now - Minute
    /\ i < Len(at) => at[i + 1] >= now - Minute
    /\ w = SubSeq(at, i + 1, Len(at))

At(window) == [i \in 1..Len(window) |-> window[i].at]

Tokens(window) == MapThenSumSet(LAMBDA i : window[i].tokens, 1..Len(window))

RpmOK(times)  == Rpm = 0 \/ Len(times) < Rpm

\* Mutant: the limit counts as room.
TpmOKAtLimit(window) == Tpm = 0 \/ Tokens(window) <= Tpm

TpmOK(window) == Tpm = 0 \/ Tokens(window) < Tpm

Expiry(at) == at + Minute - now     \* how long until an entry expires

\* Mutant: the wait is for the newest entry.
WaitNewest(times, window) ==
    LET byRpm == IF ~RpmOK(times) THEN Expiry(times[Len(times)]) ELSE 0
        byTpm == IF ~TpmOK(window) THEN Expiry(window[Len(window)].at) ELSE 0
        wait  == IF ~TpmOK(window) /\ (byRpm = 0 \/ byTpm < byRpm) THEN byTpm ELSE byRpm
    IN  IF wait <= 0 THEN 1 ELSE wait

\* The time until the oldest entry of a blocking window expires, the earlier one if
\* both block; at least the shortest wait.
Wait(times, window) ==
    LET byRpm == IF ~RpmOK(times) THEN Expiry(times[1]) ELSE 0
        byTpm == IF ~TpmOK(window) THEN Expiry(window[1].at) ELSE 0
        wait  == IF ~TpmOK(window) /\ (byRpm = 0 \/ byTpm < byRpm) THEN byTpm ELSE byRpm
    IN  IF wait <= 0 THEN 1 ELSE wait

\* One pass of waitForBudget, for a new call or after the timer.
Pass(c) ==
    /\ st[c] = "idle" \/ (st[c] = "waiting" /\ wakeAt[c] <= now)
    /\ \E i \in 0..Len(rpmWindow), k \in 0..Len(tpmWindow) :
         LET times  == SubSeq(rpmWindow, i + 1, Len(rpmWindow))
             window == SubSeq(tpmWindow, k + 1, Len(tpmWindow))
         IN  /\ IsPruned(rpmWindow, i, times)
             /\ IsPruned(At(tpmWindow), k, At(window))
             /\ tpmWindow' = window
             /\ IF RpmOK(times) /\ TpmOK(window)
                THEN /\ st' = [st EXCEPT ![c] = "inside"]
                     /\ rpmWindow' = IF Rpm > 0 THEN Append(times, now) ELSE times
                     /\ log' = IF Rpm > 0 THEN Append(log, now) ELSE log
                     /\ UNCHANGED wakeAt
                ELSE /\ st' = [st EXCEPT ![c] = "waiting"]
                     /\ wakeAt' = [wakeAt EXCEPT ![c] = now + Wait(times, window)]
                     /\ rpmWindow' = times
                     /\ UNCHANGED log
    /\ UNCHANGED now

\* The context of a waiting caller ends.
Cancel(c) == /\ st[c] = "waiting"
             /\ st' = [st EXCEPT ![c] = "idle"]
             /\ UNCHANGED <<now, rpmWindow, tpmWindow, wakeAt, log>>

\* Mutant: a response without tokens is entered too.
AnswerRecordsZero(c) ==
             /\ st[c] = "inside"
             /\ st' = [st EXCEPT ![c] = "idle"]
             /\ \E u \in Usages :
                  tpmWindow' = IF Tpm > 0 THEN Append(tpmWindow, [at |-> now, tokens |-> u])
                               ELSE tpmWindow
             /\ UNCHANGED <<now, rpmWindow, wakeAt, log>>

\* The inner provider answers; recordUsage enters its tokens.
Answer(c) == /\ st[c] = "inside"
             /\ st' = [st EXCEPT ![c] = "idle"]
             /\ \E u \in Usages :
                  tpmWindow' = IF Tpm > 0 /\ u > 0 THEN Append(tpmWindow, [at |-> now, tokens |-> u])
                               ELSE tpmWindow
             /\ UNCHANGED <<now, rpmWindow, wakeAt, log>>

\* The inner provider fails: nothing is recorded.
Fail(c) == /\ st[c] = "inside"
           /\ st' = [st EXCEPT ![c] = "idle"]
           /\ UNCHANGED <<now, rpmWindow, tpmWindow, wakeAt, log>>

\* Time passes, also past a timer whose caller has not run yet.
Tick == /\ now < MaxTime
        /\ now' = now + 1
        /\ UNCHANGED <<rpmWindow, tpmWindow, st, wakeAt, log>>

Next == Tick \/ \E c \in Callers : Pass(c) \/ Cancel(c) \/ Answer(c) \/ Fail(c)

Spec == Init /\ [][Next]_vars
-----------------------------------------------------------------------------
\* RPM: no window of a minute, both ends included, sees more than Rpm admissions,
\* wherever it begins: the request Rpm places later comes more than a minute later.
RpmHolds == Rpm > 0 => \A i \in 1..Len(log) : i + Rpm <= Len(log) => log[i + Rpm] - log[i] > Minute

Recent(window) == SelectSeq(window, LAMBDA e : e.at >= now - Minute)

Inside == {c \in Callers : st[c] = "inside"}

MaxUsage == Max(Usages)

\* TPM is a soft limit: what a window holds, plus what the requests under way may
\* still add, exceeds it by less than one response per caller.
TpmOvershoot == Tpm > 0 => Tokens(Recent(tpmWindow)) + Cardinality(Inside) * MaxUsage
                             < Tpm + Cardinality(Callers) * MaxUsage

\* A caller never sleeps through free budget: when a new call would be admitted at
\* once, every timer is due.
NoOversleep == LET live == SelectSeq(rpmWindow, LAMBDA t : t >= now - Minute) IN
    RpmOK(live) /\ TpmOK(Recent(tpmWindow)) =>
        \A c \in Callers : st[c] = "waiting" => wakeAt[c] <= now
=============================================================================
