--------------------------- MODULE RateLimit_proofs ---------------------------
(***************************************************************************)
(* The request limit of RateLimit, proved for every limit and window       *)
(* length and any number of callers.                                       *)
(*                                                                         *)
(* RpmHolds speaks of the log of all admissions, the guard of Pass only of *)
(* the pruned window.  The strengthening says how the two are related:     *)
(* the window is the end of the log, and what has been cut off is older    *)
(* than a minute, and stays so as time passes.                             *)
(***************************************************************************)
EXTENDS RateLimit, SequenceTheorems, TLAPS

Types == /\ now \in Nat
         /\ rpmWindow \in Seq(Nat) /\ log \in Seq(Nat)

Cut == Len(log) - Len(rpmWindow)

\* The window is a suffix of the log.
IsSuffix == /\ Len(rpmWindow) <= Len(log)
            /\ \A i \in 1..Len(rpmWindow) : rpmWindow[i] = log[Cut + i]

\* What pruneTime has taken off is older than a minute.
CutExpired == \A i \in 1..Cut : log[i] + Minute < now

IInv == Types /\ IsSuffix /\ CutExpired /\ RpmHolds

\* pruneTime keeps the window a suffix of the log and cuts off expired entries only.
LEMMA Pruning ==
    ASSUME IInv, NEW i \in 0..Len(rpmWindow), NEW w, IsPruned(rpmWindow, i, w)
    PROVE  /\ w \in Seq(Nat) /\ Len(w) = Len(rpmWindow) - i
           /\ \A j \in 1..Len(w) : w[j] = log[Len(log) - Len(w) + j]
           /\ \A j \in 1..(Len(log) - Len(w)) : log[j] + Minute < now
<1>0. /\ now \in Nat /\ Minute \in Nat /\ Len(rpmWindow) \in Nat /\ Len(log) \in Nat /\ i \in Nat
      /\ i <= Len(rpmWindow) /\ Len(rpmWindow) <= Len(log)
  BY RateAssumption DEF IInv, Types, IsSuffix
<1>1. w \in Seq(Nat) /\ Len(w) = Len(rpmWindow) - i
  <2>1. w = SubSeq(rpmWindow, i + 1, Len(rpmWindow)) BY DEF IsPruned
  <2>2. i + 1 \in Int /\ Len(rpmWindow) \in Int BY <1>0
  <2>3. \A j \in (i + 1)..Len(rpmWindow) : rpmWindow[j] \in Nat
    BY <1>0 DEF IInv, Types
  <2>4. /\ SubSeq(rpmWindow, i + 1, Len(rpmWindow)) \in Seq(Nat)
        /\ Len(SubSeq(rpmWindow, i + 1, Len(rpmWindow)))
             = IF i + 1 <= Len(rpmWindow) THEN Len(rpmWindow) - (i + 1) + 1 ELSE 0
    BY <2>2, <2>3, SubSeqProperties
  <2> QED BY <2>1, <2>4, <1>0
<1>2. ASSUME NEW j \in 1..Len(w)
      PROVE  w[j] = log[Len(log) - Len(w) + j]
  <2>1. w[j] = rpmWindow[i + j]
    BY <1>0, <1>1 DEF IInv, Types, IsPruned
  <2>2. i + j \in 1..Len(rpmWindow)
    BY <1>0, <1>1
  <2>3. rpmWindow[i + j] = log[Cut + (i + j)]
    BY <2>2 DEF IInv, IsSuffix
  <2>4. Cut + (i + j) = Len(log) - Len(w) + j
    BY <1>0, <1>1 DEF Cut
  <2> QED BY <2>1, <2>3, <2>4
<1>3. ASSUME NEW j \in 1..(Len(log) - Len(w))
      PROVE  log[j] + Minute < now
  <2>1. CASE j \in 1..Cut
    BY <2>1 DEF IInv, CutExpired
  <2>2. CASE j \notin 1..Cut
    <3>1. j - Cut \in 1..i
      BY <1>0, <1>1, <2>2 DEF Cut
    <3>2. rpmWindow[j - Cut] < now - Minute
      BY <3>1 DEF IsPruned
    <3>3. j - Cut \in 1..Len(rpmWindow)
      BY <3>1, <1>0
    <3>4. rpmWindow[j - Cut] = log[Cut + (j - Cut)]
      BY <3>3 DEF IInv, IsSuffix
    <3>5. Cut + (j - Cut) = j
      BY <1>0 DEF Cut
    <3>6. log[j] < now - Minute
      BY <3>2, <3>4, <3>5
    <3>7. log[j] \in Nat
      BY <1>0, <1>1 DEF IInv, Types
    <3> QED BY <3>6, <3>7, <1>0
  <2> QED BY <2>1, <2>2
<1> QED BY <1>1, <1>2, <1>3

\* The invariant depends on now, rpmWindow and log only.
LEMMA Passive ==
    ASSUME IInv, now' = now, rpmWindow' = rpmWindow, log' = log
    PROVE  IInv'
BY DEF IInv, Types, IsSuffix, CutExpired, RpmHolds, Cut

\* A pass that finds a window full changes the window only.
LEMMA Blocked ==
    ASSUME IInv, NEW i \in 0..Len(rpmWindow), IsPruned(rpmWindow, i, rpmWindow'),
           now' = now, log' = log
    PROVE  IInv'
<1>1. Types' BY Pruning DEF IInv, Types
<1>2. IsSuffix'
  <2>1. Len(rpmWindow') <= Len(log)
    BY Pruning DEF IInv, IsSuffix, Types
  <2> QED BY Pruning, <2>1 DEF IsSuffix, Cut
<1>3. CutExpired' BY Pruning DEF CutExpired, Cut
<1>4. RpmHolds' BY DEF IInv, RpmHolds
<1> QED BY <1>1, <1>2, <1>3, <1>4 DEF IInv

\* Positions in a sequence of length n, and in one grown by an element.
LEMMA Positions ==
    ASSUME NEW n \in Nat, NEW m \in Nat, m <= n
    PROVE  /\ \A j \in 1..(m + 1) : j = m + 1 \/ j \in 1..m
           /\ \A j \in 1..(n - m) : j \in 1..n
           /\ \A j \in 1..m : (n - m) + j \in 1..n
           /\ \A r \in Nat, k \in 1..(n + 1) :
                  /\ k + r = n + 1 /\ m < r => k \in 1..(n - m)
                  /\ k + r <= n => k \in 1..n /\ k + r \in 1..n
                  /\ k + r <= n + 1 => k + r = n + 1 \/ k + r <= n
OBVIOUS

\* A log a of n times, whose entries r places apart are more than a minute apart, takes
\* the time t as well when all but its last m < r entries are older than a minute.
LEMMA Spacing ==
    ASSUME NEW a, NEW b, NEW n \in Nat, NEW m \in Nat, NEW r \in Nat, NEW t \in Nat,
           m <= n, m < r, b[n + 1] = t,
           \A j \in 1..n : a[j] \in Nat /\ b[j] = a[j],
           \A j \in 1..(n - m) : a[j] + Minute < t,
           \A k \in 1..n : k + r <= n => a[k + r] - a[k] > Minute
    PROVE  \A k \in 1..(n + 1) : k + r <= n + 1 => b[k + r] - b[k] > Minute
<1> SUFFICES ASSUME NEW k \in 1..(n + 1), k + r <= n + 1
             PROVE  b[k + r] - b[k] > Minute
  OBVIOUS
<1>1. CASE k + r = n + 1
  <2>1. k \in 1..(n - m) /\ k \in 1..n BY <1>1, Positions
  <2>2. a[k] \in Nat /\ b[k] = a[k] /\ b[k + r] = t /\ a[k] + Minute < t BY <1>1, <2>1
  <2> QED BY <2>2, RateAssumption
<1>2. CASE k + r <= n
  <2>1. k \in 1..n /\ k + r \in 1..n BY <1>2, Positions
  <2>2. b[k] = a[k] /\ b[k + r] = a[k + r] /\ a[k + r] - a[k] > Minute BY <1>2, <2>1
  <2> QED BY <2>2
<1> QED BY <1>1, <1>2, Positions

\* A pass that admits a request while RPM is in force.
LEMMA Admitted ==
    ASSUME IInv, NEW i \in 0..Len(rpmWindow), NEW w, IsPruned(rpmWindow, i, w),
           Rpm > 0, Len(w) < Rpm, rpmWindow' = Append(w, now), log' = Append(log, now), now' = now
    PROVE  IInv'
<1>0. /\ now \in Nat /\ Minute \in Nat /\ Rpm \in Nat /\ Len(log) \in Nat /\ log \in Seq(Nat)
      /\ w \in Seq(Nat) /\ Len(w) \in Nat /\ Len(w) <= Len(log)
  BY RateAssumption, Pruning DEF IInv, Types, IsSuffix
<1>1. /\ Len(log') = Len(log) + 1 /\ Len(rpmWindow') = Len(w) + 1
      /\ log'[Len(log) + 1] = now /\ rpmWindow'[Len(w) + 1] = now
      /\ \A j \in 1..Len(log) : log'[j] = log[j]
      /\ \A j \in 1..Len(w) : rpmWindow'[j] = w[j]
  BY <1>0
<1>2. Types' BY <1>0 DEF Types
<1>3. Cut' = Len(log) - Len(w)
  BY <1>0, <1>1 DEF Cut
<1>4. IsSuffix'
  <2>1. Len(rpmWindow') <= Len(log') BY <1>0, <1>1
  <2>2. ASSUME NEW j \in 1..Len(rpmWindow')
        PROVE  rpmWindow'[j] = log'[Cut' + j]
    <3>1. CASE j = Len(w) + 1
      BY <3>1, <1>0, <1>1, <1>3
    <3>2. CASE j \in 1..Len(w)
      <4>1. Cut' + j \in 1..Len(log) BY <3>2, <1>0, <1>3, Positions
      <4>2. w[j] = log[Cut' + j] BY <3>2, <1>3, Pruning
      <4> QED BY <3>2, <4>1, <4>2, <1>1
    <3>3. j = Len(w) + 1 \/ j \in 1..Len(w)
      <4>1. Len(rpmWindow') = Len(w) + 1 BY <1>1
      <4> QED BY <4>1, <1>0, Positions
    <3> QED BY <3>1, <3>2, <3>3
  <2> QED BY <2>1, <2>2 DEF IsSuffix
<1>5. CutExpired'
  <2>1. ASSUME NEW j \in 1..(Len(log) - Len(w))
        PROVE  log'[j] + Minute < now
    <3>1. j \in 1..Len(log) BY <1>0, Positions
    <3>2. log[j] + Minute < now BY Pruning
    <3> QED BY <3>1, <3>2, <1>1
  <2> QED BY <2>1, <1>3 DEF CutExpired
<1>6. RpmHolds'
  <2>1. \A j \in 1..Len(log) : log[j] \in Nat /\ log'[j] = log[j] BY <1>0, <1>1
  <2>2. \A j \in 1..(Len(log) - Len(w)) : log[j] + Minute < now BY Pruning
  <2>3. \A k \in 1..Len(log) : k + Rpm <= Len(log) => log[k + Rpm] - log[k] > Minute
    BY DEF IInv, RpmHolds
  <2>4. \A k \in 1..(Len(log) + 1) : k + Rpm <= Len(log) + 1 => log'[k + Rpm] - log'[k] > Minute
    BY <1>0, <1>1, <2>1, <2>2, <2>3, Spacing, ZenonT(60)
  <2> QED BY <1>1, <2>4 DEF RpmHolds
<1> QED BY <1>2, <1>4, <1>5, <1>6 DEF IInv

LEMMA Step == ASSUME IInv, [Next]_vars PROVE IInv'
<1>1. ASSUME NEW c \in Callers, Pass(c) PROVE IInv'
  <2>1. PICK i \in 0..Len(rpmWindow), k \in 0..Len(tpmWindow) :
          LET times  == SubSeq(rpmWindow, i + 1, Len(rpmWindow))
              window == SubSeq(tpmWindow, k + 1, Len(tpmWindow))
          IN  /\ IsPruned(rpmWindow, i, times)
              /\ \/ /\ RpmOK(times)
                    /\ rpmWindow' = (IF Rpm > 0 THEN Append(times, now) ELSE times)
                    /\ log' = (IF Rpm > 0 THEN Append(log, now) ELSE log)
                 \/ rpmWindow' = times /\ log' = log
    BY <1>1 DEF Pass
  <2>2. now' = now BY <1>1 DEF Pass
  <2> DEFINE times == SubSeq(rpmWindow, i + 1, Len(rpmWindow))
  <2>3. IsPruned(rpmWindow, i, times) BY <2>1
  <2>4. CASE rpmWindow' = times /\ log' = log
    BY <2>2, <2>3, <2>4, Blocked
  <2>5. CASE RpmOK(times) /\ Rpm > 0 /\ rpmWindow' = Append(times, now) /\ log' = Append(log, now)
    <3>1. Len(times) < Rpm BY <2>5, RateAssumption DEF RpmOK
    <3> HIDE DEF times
    <3> QED BY <2>2, <2>3, <2>5, <3>1, Admitted
  <2> QED BY <2>1, <2>4, <2>5
<1>2. ASSUME NEW c \in Callers, Cancel(c) \/ Answer(c) \/ Fail(c) PROVE IInv'
  BY <1>2, Passive DEF Cancel, Answer, Fail
<1>3. CASE Tick
  <2>1. now' = now + 1 /\ rpmWindow' = rpmWindow /\ log' = log BY <1>3 DEF Tick
  <2>2. Types' BY <2>1 DEF IInv, Types
  <2>3. IsSuffix' BY <2>1 DEF IInv, IsSuffix, Cut
  <2>4. CutExpired'
    <3>1. ASSUME NEW j \in 1..Cut PROVE log[j] + Minute < now + 1
      <4>1. log[j] \in Nat BY DEF IInv, Types, IsSuffix, Cut
      <4>2. log[j] + Minute < now BY DEF IInv, CutExpired
      <4> QED BY <4>1, <4>2, RateAssumption DEF IInv, Types
    <3> QED BY <2>1, <3>1 DEF CutExpired, Cut
  <2>5. RpmHolds' BY <2>1 DEF IInv, RpmHolds
  <2> QED BY <2>2, <2>3, <2>4, <2>5 DEF IInv
<1>4. CASE UNCHANGED vars
  BY <1>4, Passive DEF vars
<1> QED BY <1>1, <1>2, <1>3, <1>4 DEF Next

\* RPM: however the callers and the clock interleave, no two admissions that are Rpm
\* places apart lie within one minute of each other.
THEOREM RpmCorrect == Spec => []RpmHolds
<1>1. Init => IInv
  BY RateAssumption DEF Init, IInv, Types, IsSuffix, CutExpired, RpmHolds, Cut
<1>2. IInv /\ [Next]_vars => IInv' BY Step
<1>3. IInv => RpmHolds BY DEF IInv
<1> QED BY <1>1, <1>2, <1>3, PTL DEF Spec
=============================================================================
