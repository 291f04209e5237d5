------------------------ MODULE CircuitBreaker_proofs ------------------------
(***************************************************************************)
(* The circuit breaker for any set of callers, threshold and cooldown.     *)
(***************************************************************************)
EXTENDS CircuitBreaker, FiniteSetTheorems, TLAPS

TimeInv == TypeOK /\ OpenIsTimed

\* Whoever probes raised the flag and probes alone; while no probe was lost, the flag
\* is up only while somebody probes.
ProbeInv == /\ TypeOK
            /\ \A c \in Callers : call[c] = "probe" => probing
            /\ probing /\ ~lostProbe => \E c \in Callers : call[c] = "probe"
            /\ \A c, d \in Callers : call[c] = "probe" /\ call[d] = "probe" => c = d
-----------------------------------------------------------------------------
LEMMA InitTyped == Init => TypeOK
<1> SUFFICES ASSUME Init PROVE TypeOK
  OBVIOUS
<1>1. 0 \in 0..MaxFails /\ Cooldown \in 0..Cooldown
  BY BreakerAssumption DEF MaxFails
<1> QED
  BY <1>1 DEF Init, TypeOK

LEMMA NextTyped == TypeOK /\ [Next]_vars => TypeOK'
<1> SUFFICES ASSUME TypeOK, [Next]_vars PROVE TypeOK'
  OBVIOUS
<1> USE BreakerAssumption DEF TypeOK, MaxFails
<1>1. CASE Tick
  BY <1>1 DEF Tick
<1>2. ASSUME NEW c \in Callers, Enter(c) PROVE TypeOK'
  BY <1>2 DEF Enter, Open
<1>3. ASSUME NEW c \in Callers, Succeed(c) PROVE TypeOK'
  BY <1>3 DEF Succeed
<1>4. ASSUME NEW c \in Callers, Fail(c) PROVE TypeOK'
  BY <1>4 DEF Fail, AddFail, Trips, OpensNow
<1>5. ASSUME NEW c \in Callers, Panic(c) PROVE TypeOK'
  BY <1>5 DEF Panic
<1>6. CASE UNCHANGED vars
  BY <1>6 DEF vars
<1> QED
  BY <1>1, <1>2, <1>3, <1>4, <1>5, <1>6 DEF Next, Return

LEMMA TimeStep == TimeInv /\ [Next]_vars => OpenIsTimed'
<1> SUFFICES ASSUME TimeInv, [Next]_vars PROVE OpenIsTimed'
  OBVIOUS
<1> USE BreakerAssumption DEF TimeInv, TypeOK, MaxFails, OpenIsTimed, Open
<1>1. CASE Tick
  BY <1>1 DEF Tick
<1>2. ASSUME NEW c \in Callers, Enter(c) \/ Panic(c) PROVE OpenIsTimed'
  BY <1>2 DEF Enter, Panic
<1>3. ASSUME NEW c \in Callers, Succeed(c) PROVE OpenIsTimed'
  BY <1>3 DEF Succeed
<1>4. ASSUME NEW c \in Callers, Fail(c) PROVE OpenIsTimed'
  BY <1>4 DEF Fail, AddFail, Trips, OpensNow
<1>5. CASE UNCHANGED vars
  BY <1>5 DEF vars
<1> QED
  BY <1>1, <1>2, <1>3, <1>4, <1>5 DEF Next, Return

LEMMA ProbeStep == ASSUME ProbeInv, [Next]_vars PROVE ProbeInv'
<1>1. TypeOK'
  BY NextTyped DEF ProbeInv
<1> USE DEF ProbeInv, TypeOK
<1>2. CASE Tick \/ UNCHANGED vars
  BY <1>1, <1>2 DEF Tick, vars
<1>3. ASSUME NEW c \in Callers, Enter(c) PROVE ProbeInv'
  <2>1. CASE Open
    <3>1. /\ ~probing /\ probing' = TRUE /\ call' = [call EXCEPT ![c] = "probe"]
          /\ lostProbe' = lostProbe
      BY <1>3, <2>1 DEF Enter, MayProbe
    <3> QED
      BY <1>1, <3>1
  <2>2. CASE ~Open
    <3>1. /\ probing' = probing /\ call' = [call EXCEPT ![c] = "normal"] /\ call[c] = "idle"
          /\ lostProbe' = lostProbe
      BY <1>3, <2>2 DEF Enter
    <3> QED
      BY <1>1, <3>1
  <2> QED
    BY <2>1, <2>2
<1>4. ASSUME NEW c \in Callers, Succeed(c) \/ Fail(c) PROVE ProbeInv'
  <2>1. /\ probing' = (probing /\ call[c] # "probe") /\ call[c] # "idle"
        /\ call' = [call EXCEPT ![c] = "idle"] /\ lostProbe' = lostProbe
    BY <1>4 DEF Succeed, Fail
  <2> QED
    BY <1>1, <2>1
<1>5. ASSUME NEW c \in Callers, Panic(c) PROVE ProbeInv'
  <2>1. /\ probing' = probing /\ call' = [call EXCEPT ![c] = "idle"]
        /\ lostProbe' = (lostProbe \/ call[c] = "probe")
    BY <1>5 DEF Panic
  <2> QED
    BY <1>1, <2>1
<1> QED
  BY <1>2, <1>3, <1>4, <1>5 DEF Next, Return

\* While somebody probes, only the success of another call closes the circuit.
ShieldInv == ProbeInv /\ \A c \in Callers : call[c] = "probe" /\ ~Open => healed

LEMMA ShieldStep == ASSUME ShieldInv, [Next]_vars PROVE ShieldInv'
<1>1. ProbeInv'
  BY ProbeStep DEF ShieldInv
<1> USE BreakerAssumption DEF ShieldInv, ProbeInv, TypeOK, Open, MaxFails
<1> SUFFICES ASSUME NEW p \in Callers, call'[p] = "probe", ~Open' PROVE healed'
  BY <1>1 DEF ShieldInv
<1>2. CASE Tick \/ UNCHANGED vars
  BY <1>2 DEF Tick, vars
<1>3. ASSUME NEW c \in Callers, Enter(c) PROVE healed'
  BY <1>3 DEF Enter
<1>4. ASSUME NEW c \in Callers, Succeed(c) PROVE healed'
  <2>1. call[p] = "probe" /\ p # c
    BY <1>4 DEF Succeed
  <2> QED
    BY <1>4, <2>1 DEF Succeed
<1>5. ASSUME NEW c \in Callers, Fail(c) PROVE healed'
  BY <1>5 DEF Fail, AddFail
<1>6. ASSUME NEW c \in Callers, Panic(c) PROVE healed'
  BY <1>6 DEF Panic
<1> QED
  BY <1>2, <1>3, <1>4, <1>5, <1>6 DEF Next, Return

LEMMA ShieldEnter == ASSUME ShieldInv, [Next]_vars, NEW c \in Callers, NEW p \in Callers,
                            call[p] = "probe", call[c] = "idle", call'[c] # "idle"
                     PROVE  healed
<1> USE DEF ShieldInv, ProbeInv, TypeOK
<1>1. Enter(c)
  <2>1. ASSUME NEW d \in Callers, Return(d) PROVE FALSE
    BY <2>1 DEF Return, Succeed, Fail, Panic
  <2>2. ASSUME NEW d \in Callers, Enter(d) PROVE d = c
    BY <2>2 DEF Enter
  <2> QED
    BY <2>1, <2>2 DEF Next, Tick, vars
<1> QED
  BY <1>1 DEF Enter, MayProbe
-----------------------------------------------------------------------------
\* An open circuit is timed from its latest opening, whatever calls were under way.
THEOREM TimingCorrect == Spec => []OpenIsTimed
<1>1. Init => TimeInv
  BY InitTyped, BreakerAssumption DEF TimeInv, OpenIsTimed, Open, Init
<1>2. TimeInv /\ [Next]_vars => TimeInv'
  BY NextTyped, TimeStep DEF TimeInv
<1>3. TimeInv => OpenIsTimed
  BY DEF TimeInv
<1> QED
  BY <1>1, <1>2, <1>3, PTL DEF Spec

\* No two callers probe at a time, and until a probe panics the flag is up exactly
\* while one does.
THEOREM ProbesAlone == Spec => []SingleProbe
<1>1. Init => ProbeInv
  BY InitTyped DEF ProbeInv, Init
<1>2. ProbeInv /\ [Next]_vars => ProbeInv'
  BY ProbeStep
<1>3. ProbeInv => SingleProbe
  <2> SUFFICES ASSUME ProbeInv PROVE SingleProbe
    OBVIOUS
  <2>1. \A c, d \in Probers : c = d
    BY DEF ProbeInv, Probers
  <2>2. CASE probing /\ ~lostProbe
    <3>1. PICK c \in Callers : call[c] = "probe"
      BY <2>2 DEF ProbeInv
    <3>2. Probers = {c}
      BY <3>1 DEF ProbeInv, Probers
    <3>3. Cardinality({c}) = 1
      BY FS_Singleton
    <3> QED
      BY <2>1, <2>2, <3>2, <3>3 DEF SingleProbe, ProbeHasOwner
  <2>3. CASE ~probing
    BY <2>1, <2>3 DEF ProbeInv, Probers, SingleProbe, ProbeHasOwner
  <2> QED
    BY <2>1, <2>2, <2>3 DEF SingleProbe
<1> QED
  BY <1>1, <1>2, <1>3, PTL DEF Spec

\* No call is let through while another probes, until the success of a call from before
\* the opening has closed the circuit, for any number of callers.
THEOREM ProbeShielded == Spec => ProbeShields
<1>1. Init => ShieldInv
  BY InitTyped DEF ShieldInv, ProbeInv, Init
<1>2. ShieldInv /\ [Next]_vars => ShieldInv'
  BY ShieldStep
<1>3. ShieldInv /\ [Next]_vars =>
          [\A c \in Callers : Probers # {} /\ call[c] = "idle" /\ call'[c] # "idle" => healed]_vars
  BY ShieldEnter DEF Probers
<1> QED
  BY <1>1, <1>2, <1>3, PTL DEF Spec, ProbeShields
=============================================================================
