--------------------------- MODULE CircuitBreaker ---------------------------
(***************************************************************************)
(* breakerAgent.Execute (network/supervisor.go): callers share one breaker *)
(* around a child agent.  Each of the two critical sections of Execute is  *)
(* one step; the child runs in between, with the lock free.                *)
(*                                                                         *)
(* Time is kept only as the time since openedAt, in ticks up to Cooldown,  *)
(* and fails only up to Threshold + 1: neither is compared with anything   *)
(* larger.  A child that panics leaves Execute without the second critical *)
(* section; the dispatcher above recovers and the breaker lives on.        *)
(***************************************************************************)
EXTENDS Naturals, FiniteSets

CONSTANTS
    Callers,
    Threshold, \* consecutive failures that open the circuit
    Cooldown   \* in ticks

ASSUME BreakerAssumption == Threshold \in Nat \ {0} /\ Cooldown \in Nat \ {0}

MaxFails == Threshold + 1

VARIABLES
    fails,
    sinceOpened, \* time since openedAt
    probing,
    call,        \* of a caller: "idle", "normal" or "probe" (its imProbing)
    sinceTrip,   \* history: time since fails last went from below Threshold to it
    lostProbe,   \* history: a probe has panicked
    healed       \* history: since the last probe began a call that was no probe succeeded

vars == <<fails, sinceOpened, probing, call, sinceTrip, lostProbe, healed>>

Init == /\ fails = 0
        /\ sinceOpened = Cooldown      \* the zero time.Time
        /\ probing = FALSE
        /\ call = [c \in Callers |-> "idle"]
        /\ sinceTrip = Cooldown
        /\ lostProbe = FALSE /\ healed = FALSE

TypeOK == /\ fails \in 0..MaxFails
          /\ sinceOpened \in 0..Cooldown /\ sinceTrip \in 0..Cooldown
          /\ probing \in BOOLEAN /\ lostProbe \in BOOLEAN /\ healed \in BOOLEAN
          /\ call \in [Callers -> {"idle", "normal", "probe"}]

Open == fails >= Threshold

-----------------------------------------------------------------------------
\* Mutant: every caller past the cooldown probes.
MayProbeTogether == sinceOpened = Cooldown

MayProbe == sinceOpened = Cooldown /\ ~probing

\* The first critical section lets the call through, as a probe if the circuit is
\* open; otherwise it returns ErrCircuitOpen and nothing changes.
Enter(c) ==
    /\ call[c] = "idle"
    /\ Open => MayProbe
    /\ call' = [call EXCEPT ![c] = IF Open THEN "probe" ELSE "normal"]
    /\ probing' = (probing \/ Open)
    /\ healed' = (healed /\ ~Open)
    /\ UNCHANGED <<fails, sinceOpened, sinceTrip, lostProbe>>

AddFail == fails' = IF fails < MaxFails THEN fails + 1 ELSE fails

\* sinceTrip starts afresh with every opening.
Trips == sinceTrip' = IF fails = Threshold - 1 THEN 0 ELSE sinceTrip

\* Mutant: the opening is timed one failure late.
OpensNowLate == fails = Threshold

\* if b.fails == b.threshold, after the increment
OpensNow == fails + 1 = Threshold

Succeed(c) ==
    /\ call[c] # "idle"
    /\ call' = [call EXCEPT ![c] = "idle"]
    /\ fails' = 0
    /\ probing' = (probing /\ call[c] # "probe")
    /\ healed' = (healed \/ call[c] # "probe")
    /\ UNCHANGED <<sinceOpened, sinceTrip, lostProbe>>

\* Mutant: b.probing is read again after the child has returned.
FailReadsFlag(c) ==
    /\ call[c] # "idle"
    /\ call' = [call EXCEPT ![c] = "idle"]
    /\ AddFail /\ Trips
    /\ probing' = FALSE
    /\ sinceOpened' = IF probing \/ OpensNow THEN 0 ELSE sinceOpened
    /\ UNCHANGED <<lostProbe, healed>>

\* Mutant: only a successful probe clears the flag.
FailKeepsFlag(c) ==
    /\ call[c] # "idle"
    /\ call' = [call EXCEPT ![c] = "idle"]
    /\ AddFail /\ Trips
    /\ sinceOpened' = IF call[c] = "probe" \/ OpensNow THEN 0 ELSE sinceOpened
    /\ UNCHANGED <<probing, lostProbe, healed>>

Fail(c) ==
    /\ call[c] # "idle"
    /\ call' = [call EXCEPT ![c] = "idle"]
    /\ AddFail /\ Trips
    /\ probing' = (probing /\ call[c] # "probe")
    /\ sinceOpened' = IF call[c] = "probe" \/ OpensNow THEN 0 ELSE sinceOpened
    /\ UNCHANGED <<lostProbe, healed>>

\* The child panics: the second critical section is not reached.
Panic(c) ==
    /\ call[c] # "idle"
    /\ call' = [call EXCEPT ![c] = "idle"]
    /\ lostProbe' = (lostProbe \/ call[c] = "probe")
    /\ UNCHANGED <<fails, sinceOpened, probing, sinceTrip, healed>>

Tick ==
    /\ sinceOpened < Cooldown \/ sinceTrip < Cooldown
    /\ sinceOpened' = IF sinceOpened < Cooldown THEN sinceOpened + 1 ELSE sinceOpened
    /\ sinceTrip' = IF sinceTrip < Cooldown THEN sinceTrip + 1 ELSE sinceTrip
    /\ UNCHANGED <<fails, probing, call, lostProbe, healed>>

Return(c) == Succeed(c) \/ Fail(c) \/ Panic(c)

Next == Tick \/ \E c \in Callers : Enter(c) \/ Return(c)

\* Time passes, callers call again, and children return.
Fairness == /\ WF_vars(Tick)
            /\ \A c \in Callers : WF_vars(Enter(c)) /\ WF_vars(Return(c))

Spec     == Init /\ [][Next]_vars
FairSpec == Spec /\ Fairness
-----------------------------------------------------------------------------
Probers == {c \in Callers : call[c] = "probe"}

\* "exactly one goroutine is executing a trial call": the flag is up exactly while
\* one caller probes, although normal calls that began earlier may end meanwhile.
ProbeHasOwner == IF probing THEN Cardinality(Probers) = 1 ELSE Probers = {}

\* That is so until a probe panics; and even then no two callers probe at a time.
SingleProbe == /\ ~lostProbe => ProbeHasOwner
               /\ \A c, d \in Probers : c = d

\* "All other goroutines must see ErrCircuitOpen until the prober reports": no call is
\* let through while one probes, with one exception that the comment does not make.  A
\* call from before the opening that succeeds during the probe sets fails to zero, and
\* from then on everybody is let through although the probe has not reported.
ProbeShields == [][\A c \in Callers : Probers # {} /\ call[c] = "idle" /\ call'[c] # "idle"
                                         => healed]_vars

\* However failures of concurrent calls interleave, an open circuit was timed when
\* it opened or later: the cooldown never counts from an older opening.
OpenIsTimed == Open => sinceOpened <= sinceTrip

\* An open circuit is tried again in the end, unless a probe was lost to a panic: some
\* caller gets through.
OpenIsProbed == Open ~> (~Open \/ Probers # {} \/ lostProbe)
=============================================================================
