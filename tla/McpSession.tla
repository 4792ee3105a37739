----------------------------- MODULE McpSession -----------------------------
(***************************************************************************)
(* One MCP session of `elasticctl mcp`: the frames it reads and writes, the *)
(* lifecycle gate, the tool calls with their permits, deadlines and         *)
(* cancellation, the shared capability probe and the retries of the         *)
(* transport underneath.                                                    *)
(*                                                                          *)
(* The session runs on a current-thread runtime, so a poll of a task is one *)
(* step.  Elastic answers when and how it likes, or never.  Argument and    *)
(* result shapes are abstracted: a call is its id and the kind of its tool. *)
(***************************************************************************)
EXTENDS Naturals, FiniteSets, Sequences, SequencesExt

CONSTANTS
    Calls,          \* ids of the tool calls, in the order the client sends them
    Permits,        \* permits of the semaphore (4 in the code)
    MaxAttempts,    \* attempts of a retrying transport (3 in the code)
    AllowQueryTools \* started with the query tools

ASSUME SessionAssumption ==
    /\ Calls \in SUBSET Nat /\ IsFiniteSet(Calls)
    /\ Permits \in Nat \ {0}
    /\ MaxAttempts \in Nat \ {0}
    /\ AllowQueryTools \in BOOLEAN

VARIABLES
    life,       \* "first" frame to come, "open" to requests, "awaiting" an
                \* initialize behind a bare ping, or "rejected"
    receiver,   \* the receive loop: "reading", or "replying" to a bad frame
    eof,        \* the client has closed the input and no one has seen it yet
    root,       \* the root cancellation token is cancelled
    session,    \* "serving", "closing" or "closed"
    free,       \* permits left in the semaphore
    op,         \* where the operation of each call is
    left,       \* attempts left for the request under way
    late,       \* running calls whose deadline has passed
    ct,         \* running calls whose own token the client cancelled
    outbox,     \* answers handed to the SDK and not yet written
    known,      \* the capability cell: "unknown", "supported", "unsupported"
    queue       \* calls at the cell: the head probes, the others wait

sessionVars == <<life, receiver, eof, root, session>>
callVars    == <<free, op, left, late, ct, outbox, known, queue>>
vars        == <<sessionVars, callVars>>

\* What the tools of each adapter go through before their requests: those over
\* an API that needs a recent stack are gated by the shared probe, the query
\* tools send one request on a transport that never retries.
RulesTools      == {"gated", "plain"}
TriageTools     == {"plain"}
ContentTools    == {"gated", "plain"}
FleetTools      == {"gated"}
ExceptionsTools == {"gated"}
QueryTools      == {"query"}
StackTools      == {"plain"}
\* The arguments of a call may not decode, and its name may be no tool's; so is
\* a request whose metadata the current lifecycle does not accept.
Tools == RulesTools \cup TriageTools \cup ContentTools \cup FleetTools
         \cup ExceptionsTools \cup QueryTools \cup StackTools \cup {"invalid", "unknown"}
\* What a reply says: a result, or an error of any kind.
Answers == {"success", "error"}
Reply(c, how) == [call |-> c, answer |-> how]
Steps   == {"new", "queued", "probing", "probe_backoff",
            "failing", "requesting", "querying", "backoff", "over"}

Sending    == {"probing", "requesting", "querying"}
Asleep     == {"probe_backoff", "backoff"}
Running(c) == op[c] \notin {"new", "over"}
RunningCalls == {c \in Calls : Running(c)}
Probing    == {"probing", "probe_backoff"}
ProbingCalls == {c \in Calls : op[c] \in Probing}
WaitingCalls == {c \in Calls : op[c] = "queued"}

\* The token of a request is a child of the root token.
Cancelled(c) == c \in ct \/ root

Init ==
    /\ life = "first" /\ receiver = "reading"
    /\ eof = FALSE /\ root = FALSE /\ session = "serving"
    /\ free = Permits
    /\ op = [c \in Calls |-> "new"]
    /\ left = [c \in Calls |-> 0]
    /\ late = {} /\ ct = {}
    /\ outbox = {}
    /\ known = "unknown" /\ queue = <<>>

-----------------------------------------------------------------------------
(* Frames in.                                                               *)

CanReceive == receiver = "reading" /\ ~eof /\ ~root /\ session = "serving"

\* The first frame chooses the lifecycle.  A request with complete metadata is
\* the current one and an initialize the handshake of the SDK: both are open to
\* requests; a bare ping is the legacy gate; anything else fails the startup and
\* ends the session.
FirstFrame ==
    /\ life = "first" /\ CanReceive
    /\ \/ life' \in {"open", "awaiting"} /\ UNCHANGED session
       \/ session' = "closed" /\ UNCHANGED life
    /\ UNCHANGED <<receiver, eof, root, callVars>>

\* An initialize behind a bare ping opens the gate unless it was rejected.
LegacyInitialize ==
    /\ life = "awaiting" /\ CanReceive
    /\ life' = "open"
    /\ UNCHANGED <<receiver, eof, root, session, callVars>>

\* The client cancels a call that runs.
CancelNotice(c) ==
    /\ CanReceive /\ Running(c) /\ c \notin ct
    /\ ct' = ct \cup {c}
    /\ UNCHANGED <<sessionVars, free, op, left, late, outbox, known, queue>>

\* A frame that is JSON but no message: the receive loop itself writes the
\* protocol error and reads nothing until that write has ended.
BadFrame ==
    /\ CanReceive /\ receiver' = "replying"
    /\ UNCHANGED <<life, eof, root, session, callVars>>

ProtocolErrorRead ==
    /\ receiver = "replying" /\ ~root
    /\ receiver' = "reading"
    /\ UNCHANGED <<life, eof, root, session, callVars>>

\* End of input, or a line over the limit, seen by a loop that reads, cancels
\* the root.
EndOfInput ==
    /\ receiver = "reading" /\ eof /\ ~root /\ session = "serving"
    /\ root' = TRUE /\ eof' = FALSE
    /\ UNCHANGED <<life, receiver, session, callVars>>

\* Without a first frame there is no service yet: the session just returns.
StartupCut ==
    /\ life = "first" /\ root /\ session = "serving"
    /\ session' = "closed"
    /\ UNCHANGED <<life, receiver, eof, root, callVars>>

-----------------------------------------------------------------------------
(* The operation of a call.                                                 *)

\* Mutant: nobody takes over a probe that was dropped.
NoNextProber(c) == {}

\* What the operation of a call held of the cell goes to the next waiter.
Leave(c) ==
    IF c \notin ToSet(queue) THEN queue
    ELSE LET place == CHOOSE i \in DOMAIN queue : queue[i] = c
         IN  [i \in 1..(Len(queue) - 1) |-> queue[IF i < place THEN i ELSE i + 1]]
NextProber(c) == IF op[c] \in Probing /\ Leave(c) # <<>>
                 THEN {Head(Leave(c))} ELSE {}

\* Mutant: the select may still prefer the outcome behind the deadline.
AnyOutcome(c, how) == how

\* An outcome that is ready at or behind the deadline is late.
Outcome(c, how) == IF c \in late THEN "error" ELSE how

\* Mutant: the permit of a cancelled operation is leaked.
EndKeepsPermit(c, how) ==
    /\ outbox' = outbox \cup (IF Cancelled(c) THEN {} ELSE {Reply(c, Outcome(c, how))})
    /\ free' = IF Cancelled(c) THEN free ELSE free + 1
    /\ queue' = Leave(c)
    /\ op' = [x \in Calls |-> IF x = c THEN "over"
                             ELSE IF x \in NextProber(c) THEN "probing" ELSE op[x]]
    /\ left' = [x \in Calls |-> IF x = c THEN 0
                               ELSE IF x \in NextProber(c) THEN MaxAttempts ELSE left[x]]
    /\ late' = late \ {c} /\ ct' = ct \ {c}

\* The handler returns: the operation is dropped and with it the permit and
\* any claim on the cell; the SDK sends the answer unless the token of the
\* request is cancelled.
End(c, how) ==
    /\ outbox' = outbox \cup (IF Cancelled(c) THEN {} ELSE {Reply(c, Outcome(c, how))})
    /\ free' = free + 1
    /\ queue' = Leave(c)
    /\ op' = [x \in Calls |-> IF x = c THEN "over"
                             ELSE IF x \in NextProber(c) THEN "probing" ELSE op[x]]
    /\ left' = [x \in Calls |-> IF x = c THEN 0
                               ELSE IF x \in NextProber(c) THEN MaxAttempts ELSE left[x]]
    /\ late' = late \ {c} /\ ct' = ct \ {c}

\* The operation goes on.
Stays == UNCHANGED <<free, late, ct, outbox>>

\* A request and its attempts; the query tools have a transport of their own
\* that makes only one.
Request(c, at, attempts) ==
    /\ op' = [op EXCEPT ![c] = at]
    /\ left' = [left EXCEPT ![c] = attempts]

\* A call that is answered without ever holding a permit.
Refuse(c) ==
    /\ op' = [op EXCEPT ![c] = "over"]
    /\ outbox' = outbox \cup {Reply(c, "error")}
    /\ UNCHANGED <<free, left, late, ct, known, queue>>

\* The arguments of an admitted call do not decode, or its feature is known to
\* be missing: it ends in its first poll.
EndAtOnce(c) ==
    /\ op' = [op EXCEPT ![c] = "over"]
    /\ outbox' = outbox \cup {Reply(c, "error")}
    /\ UNCHANGED <<free, left, late, ct, known, queue>>

\* The first poll of an admitted operation: validate, require the feature, and
\* issue the first request, of the probe or of the tool.
Start(c, t) ==
    /\ free' = free - 1
    /\ IF t = "gated" /\ known = "unknown"
       THEN /\ queue' = Append(queue, c)
            /\ IF queue = <<>> THEN Request(c, "probing", MaxAttempts)
               ELSE Request(c, "queued", 0)
       ELSE /\ IF t = "query" THEN Request(c, "querying", 1)
               ELSE Request(c, "requesting", MaxAttempts)
            /\ UNCHANGED queue
    /\ UNCHANGED <<late, ct, outbox, known>>

\* Mutant: an operation starts without a free permit.
CallToolUnbounded(c, t) ==
    IF t = "unknown" \/ (t = "query" /\ ~AllowQueryTools) THEN Refuse(c)
    ELSE IF t = "invalid" \/ (t = "gated" /\ known = "unsupported") THEN EndAtOnce(c)
    ELSE Start(c, t)

\* The tool is resolved, then a permit is tried once and never waited for.
CallTool(c, t) ==
    IF \/ t = "unknown"
       \/ t = "query" /\ ~AllowQueryTools
       \/ free = 0
    THEN Refuse(c)
    ELSE IF t = "invalid" \/ (t = "gated" /\ known = "unsupported") THEN EndAtOnce(c)
    ELSE Start(c, t)

\* A tools/call request.  The legacy gate lets nothing pass before an initialize
\* and, once it has refused a request, never again.
ReceiveCall(c, t) ==
    /\ life # "first" /\ CanReceive /\ op[c] = "new"
    /\ \A b \in Calls : b < c => op[b] # "new"
    /\ life' = IF life = "awaiting" THEN "rejected" ELSE life
    /\ IF life' = "rejected" THEN Refuse(c) ELSE CallTool(c, t)
    /\ UNCHANGED <<receiver, eof, root, session>>

\* The probe answers.  The cell is set for good and its waiters are released.
ProbeOk(c) ==
    /\ op[c] = "probing"
    /\ known' \in {"supported", "unsupported"}
    /\ queue' = <<>>
    /\ IF known' = "supported" THEN Request(c, "requesting", MaxAttempts) /\ Stays
       ELSE /\ op' = [op EXCEPT ![c] = "failing"]
            /\ UNCHANGED left /\ Stays
    /\ UNCHANGED sessionVars

\* A feature the stack does not have ends the call in the same poll.
FeatureRefused(c) ==
    /\ op[c] = "failing"
    /\ End(c, "error")
    /\ UNCHANGED <<sessionVars, known>>

\* A waiter that finds the cell set.
WaiterWakes(c) ==
    /\ op[c] = "queued" /\ known # "unknown"
    /\ IF known = "supported"
       THEN Request(c, "requesting", MaxAttempts) /\ Stays /\ UNCHANGED queue
       ELSE End(c, "error")
    /\ UNCHANGED <<sessionVars, known>>

\* A request of the tool succeeds: a further page, or the result.
RequestOk(c) ==
    /\ op[c] \in {"requesting", "querying"}
    /\ \/ /\ op[c] = "requesting"
          /\ Request(c, "requesting", MaxAttempts) /\ Stays /\ UNCHANGED queue
       \/ End(c, "success")
    /\ UNCHANGED <<sessionVars, known>>

\* A 429 or 5xx is tried again behind a backoff while attempts are left.
Transient(c) ==
    /\ op[c] \in Sending
    /\ IF left[c] > 1
       THEN /\ op' = [op EXCEPT ![c] = IF @ = "probing" THEN "probe_backoff" ELSE "backoff"]
            /\ Stays /\ UNCHANGED <<left, queue>>
       ELSE End(c, "error")
    /\ UNCHANGED <<sessionVars, known>>

BackoffEnds(c) ==
    /\ op[c] \in Asleep
    /\ op' = [op EXCEPT ![c] = IF @ = "backoff" THEN "requesting" ELSE "probing"]
    /\ left' = [left EXCEPT ![c] = @ - 1]
    /\ Stays /\ UNCHANGED <<sessionVars, known, queue>>

\* Any other status, a timeout, a broken connection or a body over the limit.
RequestFails(c) ==
    /\ op[c] \in Sending
    /\ End(c, "error")
    /\ UNCHANGED <<sessionVars, known>>

\* Time reaches the deadline of a call, and the handler is polled for it.
DeadlinePasses(c) ==
    /\ Running(c) /\ c \notin late
    /\ late' = late \cup {c}
    /\ UNCHANGED <<sessionVars, free, op, left, ct, outbox, known, queue>>

\* Mutant: only a request on the wire is under the deadline, not a wait.
DeadlineSeenInRequest(c) ==
    /\ op[c] \in Sending /\ c \in late
    /\ End(c, "error")
    /\ UNCHANGED <<sessionVars, known>>

DeadlineSeen(c) ==
    /\ Running(c) /\ c \in late
    /\ End(c, "error")
    /\ UNCHANGED <<sessionVars, known>>

\* The other arm of the select: the token is cancelled.
CancelSeen(c) ==
    /\ Running(c) /\ Cancelled(c)
    /\ End(c, "error")
    /\ UNCHANGED <<sessionVars, known>>

-----------------------------------------------------------------------------
(* Frames out and the end of the session.                                   *)

\* A write ends when the client reads it, which it may never do; a cancelled
\* root interrupts every send.
Write(r) ==
    /\ ~root
    /\ outbox' = outbox \ {r}
    /\ UNCHANGED <<sessionVars, free, op, left, late, ct, known, queue>>

\* The client closes its end of the input.
CloseInput ==
    /\ ~eof /\ ~root /\ session = "serving" /\ eof' = TRUE
    /\ UNCHANGED <<life, receiver, root, session, callVars>>

\* A signal, or the caller dropping the public future.
Interrupt ==
    /\ ~root /\ session = "serving" /\ root' = TRUE
    /\ UNCHANGED <<life, receiver, eof, session, callVars>>

\* Mutant: the close waits for every answer to be written.
ServiceEndsFlushed ==
    /\ root /\ session = "serving" /\ life # "first" /\ outbox = {}
    /\ session' = "closing"
    /\ UNCHANGED <<life, receiver, eof, root, callVars>>

\* The service loop ends on the root token and closes the transport; the close
\* waits at most two seconds for a writer that is blocked.
ServiceEnds ==
    /\ root /\ session = "serving" /\ life # "first"
    /\ session' = "closing"
    /\ UNCHANGED <<life, receiver, eof, root, callVars>>

\* Then the runtime is shut down, which drops whatever still runs.
RuntimeEnds ==
    /\ session = "closing" /\ session' = "closed"
    /\ op' = [c \in Calls |-> IF Running(c) THEN "over" ELSE op[c]]
    /\ free' = Permits
    /\ outbox' = {} /\ queue' = <<>>  /\ late' = {} /\ ct' = {}
    /\ UNCHANGED <<life, receiver, eof, root, left, known>>

Call(c) ==
    \/ \E t \in Tools : ReceiveCall(c, t)
    \/ CancelNotice(c)
    \/ ProbeOk(c) \/ FeatureRefused(c) \/ WaiterWakes(c)
    \/ RequestOk(c) \/ Transient(c) \/ BackoffEnds(c) \/ RequestFails(c)
    \/ DeadlinePasses(c) \/ DeadlineSeen(c) \/ CancelSeen(c)

Next ==
    \/ \E c \in Calls : session # "closed" /\ Call(c)
    \/ \E r \in outbox : Write(r)
    \/ FirstFrame \/ LegacyInitialize \/ BadFrame \/ ProtocolErrorRead
    \/ EndOfInput \/ StartupCut \/ CloseInput \/ Interrupt
    \/ ServiceEnds \/ RuntimeEnds

\* Timers fire, a task that is ready is polled, and the loop sees what has
\* happened to its input.  Nothing is assumed of Elastic or of the client.
Fairness ==
    /\ \A c \in Calls :
        /\ WF_vars(DeadlinePasses(c)) /\ WF_vars(DeadlineSeen(c))
        /\ WF_vars(CancelSeen(c))
    /\ WF_vars(EndOfInput) /\ WF_vars(StartupCut)
    /\ WF_vars(ServiceEnds) /\ WF_vars(RuntimeEnds)

Spec == Init /\ [][Next]_vars /\ Fairness

-----------------------------------------------------------------------------
FlagsTypeOK == eof \in BOOLEAN /\ root \in BOOLEAN

CallsTypeOK ==
    /\ free \in 0..Permits
    /\ op \in [Calls -> Steps]
    /\ left \in [Calls -> 0..MaxAttempts]
    /\ late \subseteq Calls /\ ct \subseteq Calls
    /\ outbox \subseteq {Reply(c, a) : c \in Calls, a \in Answers}
    /\ known \in {"unknown", "supported", "unsupported"}
    /\ queue \in Seq(Calls)

\* Every variable has its type.
TypeOK ==
    /\ life \in {"first", "open", "awaiting", "rejected"}
    /\ receiver \in {"reading", "replying"}
    /\ session \in {"serving", "closing", "closed"}
    /\ FlagsTypeOK /\ CallsTypeOK

\* However a call ends - result, failure, deadline, cancellation or shutdown -
\* its permit comes back exactly once, so the semaphore and the running calls
\* always add up (server.rs call_tool: the permit lives in the operation); and
\* the capability cell never loses its owner: while a call waits for it another
\* is probing, and exactly one (transport.rs capabilities: get_or_try_init).
PermitsAddUp ==
    /\ free + Cardinality(RunningCalls) = Permits
    /\ Cardinality(ProbingCalls) <= 1
    /\ known = "unknown" => /\ WaitingCalls # {} => ProbingCalls # {}
                            /\ ToSet(queue) = ProbingCalls \cup WaitingCalls
    /\ known # "unknown" => ProbingCalls = {} /\ queue = <<>>

\* No success is handed to the SDK behind the deadline of its call, and a call
\* whose token was cancelled while it ran is never answered
\* (server.rs call_tool and the reply filter of the SDK).
AnswersAreTimely ==
    [][\A r \in outbox' \ outbox :
         /\ r.call \notin ct
         /\ r.answer = "success" => r.call \notin late]_vars

\* Every call ends, although Elastic may never answer and the client may never
\* read: the deadline alone is enough.  And it ends as it should: in time, or with
\* an error, or unanswered when it was cancelled.
CallsEnd ==
    /\ \A c \in Calls : Running(c) ~> ~Running(c)
    /\ AnswersAreTimely

\* A signal or a dropped caller ends the session, a stalled client included.
SessionEnds == root ~> session = "closed"

=============================================================================
