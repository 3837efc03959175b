---------------------------- MODULE OrderEvents ----------------------------
(***************************************************************************)
(* How order messages reach process_paid and process_cancelled: the        *)
(* workers of the service are one consumer group over the partitions of    *)
(* two topics; each runs one loop that takes a message, awaits its handler *)
(* and takes the next, while the client commits the loop's positions by a  *)
(* timer of its own.  What the handlers do is CouponUsage.                 *)
(*                                                                         *)
(* The broker and the client library are modelled from how KafkaConsumer   *)
(* configures them (enable_auto_commit, auto_offset_reset="earliest").     *)
(***************************************************************************)
EXTENDS Naturals, FiniteSets, Sequences

CONSTANTS
    Worker,       \* worker processes
    Partition,    \* partitions of the topics paid and canceled
    MaxMessages,  \* bound: messages of each partition
    MaxFaults,    \* bound: crashes, stops, lost sessions, failed handlers and starts,
                  \* and malformed messages together
    Null

\* A message is well-formed, has a value that is not JSON, or a trace header that
\* is not UTF-8.
Content == {"good", "badValue", "badHeader"}
Fault == {"crash", "stop", "session", "handler", "start", "content"}

ASSUME EventsAssumption ==
    /\ IsFiniteSet(Partition) /\ IsFiniteSet(Worker)
    /\ Null \notin Worker \cup (Partition \X Nat)
    /\ MaxMessages \in [Partition -> Nat] /\ MaxFaults \in Nat

VARIABLES
    log,        \* the messages of each partition
    committed,  \* how many messages of a partition the group has committed
    owner,      \* the worker a partition is assigned to
    position,   \* how many messages of the partition its owner has taken
    loop,       \* the state of each worker's loop
    inflight,   \* the message a worker's handler is working on, <<partition, number>>
    begun,      \* ghost: how often each message's handler was begun
    handled,    \* ghost: the messages whose handler returned
    faults      \* how many faults of each kind there have been

groupVars == <<committed, owner, position>>
vars == <<log, groupVars, loop, inflight, begun, handled, faults>>

Message == UNION {{p} \X (1..MaxMessages[p]) : p \in Partition}
Produced == {m \in Message : m[2] <= Len(log[m[1]])}

FaultSum == faults.crash + faults.stop + faults.session + faults.handler + faults.start + faults.content
Fails(kind) == FaultSum < MaxFaults /\ faults' = [faults EXCEPT ![kind] = @ + 1]

Init ==
    /\ log = [p \in Partition |-> <<>>]
    /\ committed = [p \in Partition |-> 0]
    /\ owner = [p \in Partition |-> Null]
    /\ position = [p \in Partition |-> 0]
    /\ loop = [w \in Worker |-> "down"]
    /\ inflight = [w \in Worker |-> Null]
    /\ begun = [m \in Message |-> 0]
    /\ handled = {}
    /\ faults = [kind \in Fault |-> 0]

\* The order service sends a message, as a rule a well-formed one.
Produce(p) ==
    /\ Len(log[p]) < MaxMessages[p]
    /\ log' = [log EXCEPT ![p] = Append(@, "good")]
    /\ UNCHANGED <<groupVars, loop, inflight, begun, handled, faults>>

ProduceMalformed(p) ==
    /\ Len(log[p]) < MaxMessages[p] /\ Fails("content")
    /\ \E content \in Content \ {"good"} : log' = [log EXCEPT ![p] = Append(@, content)]
    /\ UNCHANGED <<groupVars, loop, inflight, begun, handled>>

-----------------------------------------------------------------------------
(* The consumer group. *)

\* MUTANT: the last commit is left to the timer.
PositionsGivenBackNot(live) == committed

\* A member that is asked to give up its partitions commits its positions first.
PositionsGivenBack(live) ==
    [p \in Partition |-> IF owner[p] \in live THEN position[p] ELSE committed[p]]

\* The group assigns all partitions anew; the members in live are told before.
Rebalance(live) ==
    /\ committed' = PositionsGivenBack(live)
    /\ owner' = [p \in Partition |-> Null]
    /\ UNCHANGED position

\* MUTANT: auto_offset_reset is "latest", the default.
StartLatest(p) == IF committed[p] = 0 THEN Len(log[p]) ELSE committed[p]

\* MUTANT: off by one, what is committed is taken for the last message.
StartAfterNext(p) == committed[p] + 1

\* Where the new owner of a partition starts: after what is committed, or with
\* the earliest message when nothing is.
StartPosition(p) == committed[p]

\* A member gets a partition; a loop that has died does not leave the group.
Assign(p) ==
    /\ owner[p] = Null
    /\ \E w \in Worker : loop[w] \in {"running", "dead"} /\ owner' = [owner EXCEPT ![p] = w]
    /\ position' = [position EXCEPT ![p] = StartPosition(p)]
    /\ UNCHANGED <<log, committed, loop, inflight, begun, handled, faults>>

\* The timer commits what the loop has taken, handled or not; it goes on when
\* the loop has died.
CommittedByTimer(w) == [p \in Partition |-> IF owner[p] = w THEN position[p] ELSE committed[p]]

AutoCommit(w) ==
    /\ loop[w] \in {"running", "dead"} /\ committed # CommittedByTimer(w)
    /\ committed' = CommittedByTimer(w)
    /\ UNCHANGED <<log, owner, position, loop, inflight, begun, handled, faults>>

-----------------------------------------------------------------------------
(* A worker. *)

\* start and the first line of _loop: the client joins the group ...
Start(w) ==
    /\ loop[w] = "down"
    /\ loop' = [loop EXCEPT ![w] = "running"]
    /\ Rebalance(Worker)
    /\ UNCHANGED <<log, inflight, begun, handled, faults>>

\* ... or raises, in a task nobody awaits: the worker serves requests without a loop.
StartFails(w) ==
    /\ loop[w] = "down" /\ Fails("start")
    /\ loop' = [loop EXCEPT ![w] = "unjoined"]
    /\ UNCHANGED <<log, groupVars, inflight, begun, handled>>

\* MUTANT: the handler is started as a task and not awaited.
CanTakeUnawaited(w, p) ==
    /\ loop[w] = "running"
    /\ owner[p] = w /\ position[p] < Len(log[p])

CanTake(w, p) ==
    /\ loop[w] = "running" /\ inflight[w] = Null
    /\ owner[p] = w /\ position[p] < Len(log[p])

\* The loop takes a message and calls its handler.
Begin(w, p) ==
    LET n == position[p] + 1
    IN  /\ CanTake(w, p) /\ log[p][n] = "good"
        /\ position' = [position EXCEPT ![p] = n]
        /\ inflight' = [inflight EXCEPT ![w] = <<p, n>>]
        /\ begun' = [begun EXCEPT ![<<p, n>>] = @ + 1]
        /\ UNCHANGED <<log, committed, owner, loop, handled, faults>>

\* The deserializer raises while the message is taken, or the trace formatter
\* before the try block, with the message taken: both end the loop for good.
LoopDies(w, p) ==
    LET n == position[p] + 1
    IN  /\ CanTake(w, p) /\ log[p][n] # "good"
        /\ loop' = [loop EXCEPT ![w] = "dead"]
        /\ position' = [position EXCEPT ![p] = IF log[p][n] = "badHeader" THEN n ELSE @]
        /\ UNCHANGED <<log, committed, owner, inflight, begun, handled, faults>>

HandlerReturns(w) ==
    /\ inflight[w] # Null
    /\ handled' = handled \cup {inflight[w]}
    /\ inflight' = [inflight EXCEPT ![w] = Null]
    /\ UNCHANGED <<log, groupVars, loop, begun, faults>>

\* MUTANT: the exception ends the loop.
HandlerRaisesOut(w) ==
    /\ inflight[w] # Null /\ Fails("handler")
    /\ inflight' = [inflight EXCEPT ![w] = Null]
    /\ loop' = [loop EXCEPT ![w] = "dead"]
    /\ UNCHANGED <<log, groupVars, begun, handled>>

\* parse_obj, the connection or the handler raises: it is logged, the loop goes on.
HandlerRaises(w) ==
    /\ inflight[w] # Null /\ Fails("handler")
    /\ inflight' = [inflight EXCEPT ![w] = Null]
    /\ UNCHANGED <<log, groupVars, loop, begun, handled>>

\* The worker's process dies; the others give back what they have.
Crash(w) ==
    /\ loop[w] # "down" /\ Fails("crash")
    /\ loop' = [loop EXCEPT ![w] = "down"]
    /\ inflight' = [inflight EXCEPT ![w] = Null]
    /\ Rebalance(Worker \ {w})
    /\ UNCHANGED <<log, begun, handled>>

\* consumer.stop: the client commits and leaves; nobody waits for the handler.
Stop(w) ==
    /\ loop[w] # "down" /\ Fails("stop")
    /\ loop' = [loop EXCEPT ![w] = "down"]
    /\ inflight' = [inflight EXCEPT ![w] = Null]
    /\ Rebalance(Worker)
    /\ UNCHANGED <<log, begun, handled>>

\* The group gives up a member that has been silent too long, whose handler may
\* well be working on; it joins again, without a last commit.
LoseSession(w) ==
    /\ loop[w] \in {"running", "dead"} /\ Fails("session")
    /\ Rebalance(Worker \ {w})
    /\ UNCHANGED <<log, loop, inflight, begun, handled>>

-----------------------------------------------------------------------------
Next ==
    \/ \E p \in Partition : Produce(p) \/ ProduceMalformed(p) \/ Assign(p)
    \/ \E w \in Worker, p \in Partition : Begin(w, p) \/ LoopDies(w, p)
    \/ \E w \in Worker :
        \/ AutoCommit(w) \/ Start(w) \/ StartFails(w)
        \/ HandlerReturns(w) \/ HandlerRaises(w)
        \/ Crash(w) \/ Stop(w) \/ LoseSession(w)

\* The broker assigns partitions, gunicorn starts a worker again that is down,
\* and the event loop goes on with a loop that has some message and with a handler
\* until it ends.
Fairness ==
    /\ \A p \in Partition : WF_vars(Assign(p))
    /\ \A w \in Worker : WF_vars(Start(w) \/ StartFails(w)) /\ WF_vars(HandlerReturns(w) \/ HandlerRaises(w))
    /\ \A w \in Worker : WF_vars(\E p \in Partition : Begin(w, p) \/ LoopDies(w, p))

Spec == Init /\ [][Next]_vars
FairSpec == Spec /\ Fairness

-----------------------------------------------------------------------------
TypeOK ==
    /\ log \in [Partition -> Seq(Content)] /\ \A p \in Partition : Len(log[p]) <= MaxMessages[p]
    /\ committed \in [Partition -> Nat] /\ position \in [Partition -> Nat]
    /\ \A p \in Partition : committed[p] <= Len(log[p]) /\ position[p] <= Len(log[p])
    /\ owner \in [Partition -> Worker \cup {Null}]
    /\ loop \in [Worker -> {"down", "running", "dead", "unjoined"}]
    /\ inflight \in [Worker -> Produced \cup {Null}]
    /\ begun \in [Message -> Nat]
    /\ handled \subseteq Produced
    /\ faults \in [Fault -> Nat]

WellFormed == {m \in Produced : log[m[1]][m[2]] = "good"}
Committed == {m \in WellFormed : m[2] <= committed[m[1]]}

\* No message is passed over: what the group has committed has been given to a
\* handler at least once, whoever crashed, joined or lost its session meanwhile.
CommittedWasBegun == \A m \in Committed : begun[m] > 0

\* A message comes again only for a worker that died or lost its session without
\* a last commit; stopping, joining and failing handlers repeat nothing.
RedeliveriesBounded == \A m \in Message : begun[m] <= 1 + faults.crash + faults.session

\* A message that is committed and neither handled nor being handled is lost.
\* Each failing handler, crash and stop loses one at most, as a loop has only one
\* message in flight: that is the price of committing by a timer.
Lost == {m \in Committed : m \notin handled /\ \A w \in Worker : inflight[w] # m}
LossBounded == Cardinality(Lost) <= faults.handler + faults.crash + faults.stop

\* All messages but those end up handled, the ones a crashed worker had taken and
\* not committed too: nothing but a malformed message, or a failed start of every
\* worker, keeps the group from its messages for ever.
Poisoned == Produced # WellFormed
NoneJoined == \A w \in Worker : loop[w] = "unjoined"
EventuallyHandled ==
    []<>(\/ Poisoned \/ NoneJoined
         \/ Cardinality(Produced \ handled) <= faults.handler + faults.crash + faults.stop)
=============================================================================
