---------------------------- MODULE AgentStream -----------------------------
(***************************************************************************)
(* Subscribe and the Stream it returns (agent/stream.go): one goroutine    *)
(* runs the agent and lets it write events into the channel ch, another    *)
(* (Stream.run) fans every event out to channel subscribers (Events) and   *)
(* callback subscribers (OnEvent), keeps the last ReplayLimit of them in a *)
(* ring for late subscribers, and ends the stream when ch is closed and    *)
(* the agent has returned.  Of the agent only what it does to ch is        *)
(* modelled: the run-start event of ExecuteWithSpan, later events, the     *)
(* close in finalizeRun, the scorers that run after it, and panics.        *)
(*                                                                         *)
(* Events are numbered in the order the agent emits them.  Sends to a      *)
(* subscriber are non-blocking; a reader may take an event from a full     *)
(* channel between the failed send and the warning that follows it.        *)
(***************************************************************************)
EXTENDS Naturals, Sequences, SequencesExt

CONSTANTS
    Readers,     \* channel subscribers
    Callbacks,   \* callback subscribers
    ReplayLimit, \* capacity of the replay ring
    BufSize,     \* capacity of a subscriber's channel (defaultSubscriberBufSize)
    SourceSize,  \* capacity of ch (defaultIterChBufSize)
    MaxEvents    \* bound on the number of events of the run

ASSUME StreamAssumption == {ReplayLimit, BufSize, SourceSize, MaxEvents} \subseteq Nat \ {0}

Warning == 0   \* EventStreamWarning{"subscriber-dropped"}

VARIABLES
    agent,    \* "starting", "running", "closed" (past finalizeRun) or "returned"
    sent,     \* events emitted so far
    source,   \* contents of ch
    chOpen,   \* ch is not closed
    crashed,  \* a channel was closed twice: the process is gone
    n,        \* events dispatched so far
    ring, head, \* Stream.replay and replayHead (0-based)
    ended,    \* Stream.closed
    sub,      \* of each subscriber: "none", "live", "dropped" or "closed"
    chan,     \* contents of each reader's channel
    got,      \* what each reader has received
    heard,    \* what each callback was called with
    since,    \* how many events had been dispatched when a callback subscribed
    warn,     \* dispatch: dropped subscribers still to be warned, under s.mu
    calls     \* dispatch: callbacks still to be called for event n, after s.mu

run  == <<agent, sent, source, chOpen, crashed>>
hub  == <<n, ring, head, ended>>
subs == <<sub, chan, got, heard, since>>
vars == <<agent, sent, source, chOpen, crashed, n, ring, head, ended,
          sub, chan, got, heard, since, warn, calls>>

Init == /\ agent = "starting" /\ sent = 0 /\ source = <<>> /\ chOpen = TRUE
        /\ crashed = FALSE
        /\ n = 0 /\ ring = <<>> /\ head = 0 /\ ended = FALSE
        /\ sub = [c \in Readers \cup Callbacks |-> "none"]
        /\ chan = [c \in Readers |-> <<>>] /\ got = [c \in Readers |-> <<>>]
        /\ heard = [c \in Callbacks |-> <<>>] /\ since = [c \in Callbacks |-> 0]
        /\ warn = {} /\ calls = {}

TypeOK == /\ agent \in {"starting", "running", "closed", "returned"}
          /\ sent \in 0..MaxEvents /\ n \in 0..MaxEvents
          /\ source \in Seq(1..MaxEvents) /\ Len(source) <= SourceSize
          /\ {chOpen, crashed, ended} \subseteq BOOLEAN
          /\ ring \in Seq(1..MaxEvents) /\ head \in 0..(ReplayLimit - 1)
          /\ sub \in [Readers \cup Callbacks -> {"none", "live", "dropped", "closed"}]
          /\ \A c \in Readers : chan[c] \in Seq(0..MaxEvents) /\ Len(chan[c]) <= BufSize
          /\ warn \subseteq Readers /\ calls \subseteq Callbacks

-----------------------------------------------------------------------------
\* The agent.

Send == /\ Len(source) < SourceSize
        /\ sent' = sent + 1
        /\ source' = Append(source, sent + 1)

\* ExecuteWithSpan sends run-start ...
RunStart == /\ agent = "starting" /\ Send
            /\ agent' = "running"
            /\ UNCHANGED <<chOpen, crashed, hub, subs, warn, calls>>

\* ... or finds the context ended and returns, leaving ch open.
GiveUpStart == /\ agent = "starting"
               /\ agent' = "returned"
               /\ UNCHANGED <<sent, source, chOpen, crashed, hub, subs, warn, calls>>

Emit == /\ agent = "running" /\ sent < MaxEvents /\ Send
        /\ UNCHANGED <<agent, chOpen, crashed, hub, subs, warn, calls>>

\* finalizeRun closes ch.
CloseCh == /\ agent = "running"
           /\ agent' = "closed" /\ chOpen' = FALSE
           /\ UNCHANGED <<sent, source, crashed, hub, subs, warn, calls>>

\* Scorers and middleware are through; Execute returns.
Return == /\ agent = "closed"
          /\ agent' = "returned"
          /\ UNCHANGED <<sent, source, chOpen, crashed, hub, subs, warn, calls>>

\* Mutant: the recover path only reports the panic.
PanicLeavesOpen == /\ agent = "running"
                   /\ agent' = "returned"
                   /\ UNCHANGED <<sent, source, chOpen, crashed, hub, subs, warn, calls>>

\* A panic below Execute: the recover path closes ch through its own sync.Once,
\* which knows nothing of the agent's close.
Panic == /\ agent \in {"running", "closed"}
         /\ agent' = "returned" /\ chOpen' = FALSE
         /\ crashed' = ~chOpen
         /\ UNCHANGED <<sent, source, hub, subs, warn, calls>>

-----------------------------------------------------------------------------
\* The dispatcher.

\* Mutant: once full, the ring is overwritten and its head stays.
RememberSameSlot(ev) ==
    IF Len(ring) < ReplayLimit
    THEN ring' = Append(ring, ev) /\ head' = head
    ELSE ring' = [ring EXCEPT ![head + 1] = ev] /\ head' = head

\* Mutant: the head is not taken back to zero at the end of the ring.
RememberRunsOff(ev) ==
    IF Len(ring) < ReplayLimit
    THEN ring' = Append(ring, ev) /\ head' = head
    ELSE ring' = [ring EXCEPT ![(head % ReplayLimit) + 1] = ev] /\ head' = head + 1

Remember(ev) ==
    IF Len(ring) < ReplayLimit
    THEN ring' = Append(ring, ev) /\ head' = head
    ELSE ring' = [ring EXCEPT ![head + 1] = ev] /\ head' = (head + 1) % ReplayLimit

\* Mutant: an event that does not fit is skipped and the subscriber stays.
FullKeepsSubscriber == {}

\* The subscribers whose channel cannot take another event.
Full == {c \in Readers : sub[c] = "live" /\ Len(chan[c]) = BufSize}

\* Mutant: the callbacks are collected only once the channel sends have succeeded.
CalledUnlessFull == IF Full # {} THEN {} ELSE {c \in Callbacks : sub[c] = "live"}

\* The callbacks collected under the lock.
Called == {c \in Callbacks : sub[c] = "live"}

\* dispatch, up to the collection of the dropped subscribers.
Dispatch ==
    /\ source # <<>> /\ warn = {} /\ calls = {}
    /\ LET ev == Head(source)
       IN  /\ Remember(ev)
           /\ chan' = [c \in Readers |-> IF sub[c] = "live" /\ Len(chan[c]) < BufSize
                                         THEN Append(chan[c], ev) ELSE chan[c]]
    /\ source' = Tail(source)
    /\ n' = n + 1
    /\ sub' = [c \in DOMAIN sub |-> IF c \in Full THEN "dropped" ELSE sub[c]]
    /\ warn' = Full
    /\ calls' = Called
    /\ UNCHANGED <<agent, sent, chOpen, crashed, ended, got, heard, since>>

\* dispatch: the warning is sent if there is room by now, and the channel closed.
Drop(c) ==
    /\ c \in warn
    /\ warn' = warn \ {c}
    /\ chan' = IF Len(chan[c]) < BufSize THEN [chan EXCEPT ![c] = Append(@, Warning)] ELSE chan
    /\ UNCHANGED <<run, hub, sub, got, heard, since, calls>>

\* dispatch, after s.mu.Unlock(): user code, one callback after the other.
Call(c) ==
    /\ warn = {} /\ c \in calls
    /\ calls' = calls \ {c}
    /\ heard' = [heard EXCEPT ![c] = Append(@, n)]
    /\ UNCHANGED <<run, hub, sub, chan, got, since, warn>>

\* for ev := range ch is over and resCh has the result.
MayEnd == agent = "returned" /\ ~chOpen /\ source = <<>>

\* finalize, and close(s.done).
Finalize ==
    /\ MayEnd /\ warn = {} /\ calls = {} /\ ~ended
    /\ ended' = TRUE
    /\ sub' = [c \in DOMAIN sub |-> IF sub[c] = "live" THEN "closed" ELSE sub[c]]
    /\ UNCHANGED <<run, n, ring, head, chan, got, heard, since, warn, calls>>

-----------------------------------------------------------------------------
\* The subscribers.

\* Mutant: the walk over the ring starts at its first slot.
ReplayFromSlotZero == ring

\* The ring from its oldest event to its newest.
Replay == [i \in 1..Len(ring) |-> ring[((head + i - 1) % Len(ring)) + 1]]

\* Events(): the replay goes into the new channel before anybody can read it.
Subscribe(c) ==
    /\ warn = {} /\ sub[c] = "none"
    /\ chan' = [chan EXCEPT ![c] = SubSeq(Replay, 1, IF Len(Replay) < BufSize THEN Len(Replay) ELSE BufSize)]
    /\ sub' = [sub EXCEPT ![c] = IF Len(Replay) > BufSize THEN "dropped"
                                 ELSE IF ended THEN "closed" ELSE "live"]
    /\ UNCHANGED <<run, hub, got, heard, since, warn, calls>>

\* OnEvent(): no replay; a stream that has ended never calls it.
OnEvent(c) ==
    /\ warn = {} /\ sub[c] = "none"
    /\ sub' = [sub EXCEPT ![c] = IF ended THEN "closed" ELSE "live"]
    /\ since' = [since EXCEPT ![c] = n]
    /\ UNCHANGED <<run, hub, chan, got, heard, warn, calls>>

Read(c) ==
    /\ chan[c] # <<>>
    /\ got' = [got EXCEPT ![c] = Append(@, Head(chan[c]))]
    /\ chan' = [chan EXCEPT ![c] = Tail(@)]
    /\ UNCHANGED <<run, hub, sub, heard, since, warn, calls>>

Agent == RunStart \/ GiveUpStart \/ Emit \/ CloseCh \/ Return \/ Panic
Dispatcher == Dispatch \/ Finalize \/ (\E c \in Readers : Drop(c)) \/ (\E c \in Callbacks : Call(c))
Client == \/ \E c \in Readers : Subscribe(c) \/ Read(c)
          \/ \E c \in Callbacks : OnEvent(c)

Next == ~crashed /\ (Agent \/ Dispatcher \/ Client)

\* The agent ends in finitely many events and the dispatcher goroutine runs.
Fairness == WF_vars(~crashed /\ Agent) /\ WF_vars(~crashed /\ Dispatcher)

Spec     == Init /\ [][Next]_vars
FairSpec == Spec /\ Fairness
-----------------------------------------------------------------------------
\* The ring holds the most recent events, oldest first, however often its head has
\* gone round.
RingIsRecent == LET k == Len(ring) IN
    /\ k = IF n < ReplayLimit THEN n ELSE ReplayLimit
    /\ \A i \in 1..k : Replay[i] = n - k + i

Seen(c) == got[c] \o chan[c]

\* A channel subscriber sees consecutive events, none twice, none out of order,
\* across replay and live delivery; only a final warning may follow.
NoGaps == \A c \in Readers : \A i \in 1..(Len(Seen(c)) - 1) :
              \/ Seen(c)[i + 1] = Seen(c)[i] + 1
              \/ Seen(c)[i + 1] = Warning /\ i + 1 = Len(Seen(c)) /\ sub[c] = "dropped"

\* A subscriber that is not dropped misses nothing, however slow the others are: the
\* last event it has is the last one dispatched, and once the stream has ended that is
\* the last one of the run.
NothingMissed == /\ \A c \in Readers : sub[c] \in {"live", "closed"} /\ n > 0 =>
                        Seen(c) # <<>> /\ Last(Seen(c)) = n
                 /\ ended => n = sent

\* A callback hears exactly the events dispatched after it was registered, in order.
CallbacksHearAll == \A c \in Callbacks : sub[c] # "none" /\ ~(c \in calls) =>
                        heard[c] = [i \in 1..(n - since[c]) |-> since[c] + i]

\* Result(), Done() and every subscriber's channel: the stream of a run that has begun
\* ends, whoever has stopped reading, when the agent finishes and when it panics before
\* finalizeRun has closed ch.  A panic after that close (a scorer) is left out here: it
\* takes the process down, against what the code says, see PanicIsSafe.
StreamEnds == []~crashed => ((agent = "running") ~> ended)

\* "onceClose lets us safely close ch from the recover path", "because ExecuteStream may
\* have already closed ch before the panic site" (agent/stream.go): closing ch on behalf
\* of a panicking agent never is the second close.
PanicIsSafe == ~crashed
=============================================================================
