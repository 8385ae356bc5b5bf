---------------------------- MODULE MemoryClient ----------------------------
(***************************************************************************)
(* The client of the ICM memory service: its circuit breaker, the shared   *)
(* MCP connection and the fallback to the command line                     *)
(* (crates/hzr-memory/src/circuit.rs, client.rs, mcp.rs and                *)
(* http_transport.rs).                                                     *)
(*                                                                         *)
(* Calls of recall, store and health run concurrently, and the future of   *)
(* any of them can be dropped wherever it waits: the daemon awaits two     *)
(* recalls with try_join!, and drops a handler whose client has gone.      *)
(***************************************************************************)
EXTENDS Integers, Sequences, FiniteSets

LOCAL INSTANCE SequencesExt

CONSTANTS
    Calls,          \* calls of recall, store or health
    Kinds,          \* the operations among them
    NoCall,         \* nobody holds the connection
    Transport,      \* "Http" or "StdioMcp"
    CliFallback,    \* "yes" or "no"
    Threshold,      \* circuit_failure_threshold
    MaxFailures     \* bound: how often ICM fails or is restarted

ASSUME MemoryAssumption ==
    /\ NoCall \notin Calls
    /\ Kinds \subseteq {"recall", "store", "health"}
    /\ Transport \in {"Http", "StdioMcp"}
    /\ CliFallback \in {"yes", "no"}
    /\ Threshold \in Nat \ {0}
    /\ MaxFailures \in Nat

\* circuit.rs State.  The failures of an open circuit are not kept.
Circuit == [status: {"Closed", "Open", "HalfOpen"}, failures: Nat, generation: Nat]

\* How an attempt over the transport ended: with an answer; with an answer of
\* the wrong number of memories; with an answer that says nothing about
\* availability (a 4xx, a tool error, a JSON-RPC error); with a failure before
\* anything was sent; with a failure after which the request may have been
\* carried out (a timeout, a broken pipe, a 5xx, a garbled answer).
Verdicts == {"none", "ok", "unexpected", "rejected", "unsent", "ambiguous"}

Stages == {"new", "permitted", "sent", "settling", "fallback", "done"}

VARIABLES
    circuit,    \* the breaker
    elapsed,    \* "yes" when the reset timeout of an open circuit has passed
    kind,       \* which operation each call is
    stage,      \* where each call is
    permit,     \* the generation of its permit
    verdict,    \* how its attempt ended
    outcome,    \* what it returned: "none", "ok", "error", or "dropped"
    holder,     \* the call that holds the mutex of the connection
    conn,       \* the MCP connection: how far it is set up, and its next_id
    requests,   \* what ICM has to read, in order
    replies,    \* what ICM has written and nobody has read
    commits,    \* how often ICM stored the memory of a call
    failures    \* how often ICM failed or was restarted

vars == <<circuit, elapsed, kind, stage, permit, verdict, outcome, holder, conn,
          requests, replies, commits, failures>>
wire == <<holder, conn, requests, replies>>

TypeOK ==
    /\ circuit \in Circuit /\ circuit.failures < Threshold
    /\ elapsed \in {"yes", "no"}
    /\ kind \in [Calls -> Kinds]
    /\ stage \in [Calls -> Stages]
    /\ permit \in [Calls -> Nat]
    /\ verdict \in [Calls -> Verdicts]
    /\ outcome \in [Calls -> {"none", "ok", "error", "dropped"}]
    /\ holder \in Calls \cup {NoCall}
    /\ conn \in [state: {"closed", "fresh", "open"}, next_id: Nat]
    /\ requests \in Seq([id: Nat, call: Calls])
    /\ replies \in Seq([id: Nat, call: Calls, says: Verdicts])
    /\ commits \in [Calls -> Nat]
    /\ failures \in Nat

Init ==
    /\ circuit = [status |-> "Closed", failures |-> 0, generation |-> 0]
    /\ elapsed = "no"
    /\ kind \in [Calls -> Kinds]
    /\ stage = [c \in Calls |-> "new"]
    /\ permit = [c \in Calls |-> 0]
    /\ verdict = [c \in Calls |-> "none"]
    /\ outcome = [c \in Calls |-> "none"]
    /\ holder = NoCall
    /\ conn = [state |-> "closed", next_id |-> 1]
    /\ requests = <<>> /\ replies = <<>>
    /\ commits = [c \in Calls |-> 0]
    /\ failures = 0

-----------------------------------------------------------------------------
(* The circuit breaker *)

\* Reset timeout of an open circuit.
Elapse ==
    /\ circuit.status = "Open" /\ elapsed = "no"
    /\ elapsed' = "yes"
    /\ UNCHANGED <<circuit, kind, stage, permit, verdict, outcome, wire, commits, failures>>

Finish(c, result) ==
    /\ stage' = [stage EXCEPT ![c] = "done"]
    /\ outcome' = [outcome EXCEPT ![c] = result]

\* A call goes to the command line, if it may.
FallBack(c) ==
    IF CliFallback = "yes"
    THEN stage' = [stage EXCEPT ![c] = "fallback"] /\ UNCHANGED outcome
    ELSE Finish(c, "error")

\* Over stdio a recall is a CLI command, and health asks no permit.
UsesCircuit(c) == kind[c] = "store" \/ (Transport = "Http" /\ kind[c] = "recall")

\* recall over stdio, and health over either transport
WithoutPermit(c) ==
    /\ stage[c] = "new" /\ ~UsesCircuit(c)
    /\ stage' = [stage EXCEPT ![c] = IF kind[c] = "health" THEN "permitted" ELSE "fallback"]
    /\ UNCHANGED <<circuit, elapsed, kind, permit, verdict, outcome, wire, commits, failures>>

\* Mutant: a half-open circuit lets every request through.
AdmitsWhileProbing ==
    circuit.status = "Closed" \/ circuit.status = "HalfOpen" \/ elapsed = "yes"

Admits == circuit.status = "Closed" \/ (circuit.status = "Open" /\ elapsed = "yes")

\* before_request
BeforeRequest(c) ==
    /\ stage[c] = "new" /\ UsesCircuit(c)
    /\ IF Admits
       THEN /\ circuit' = IF circuit.status = "Open"
                          THEN [circuit EXCEPT !.status = "HalfOpen"] ELSE circuit
            /\ permit' = [permit EXCEPT ![c] = circuit.generation]
            /\ stage' = [stage EXCEPT ![c] = "permitted"]
            /\ UNCHANGED outcome
       ELSE FallBack(c) /\ UNCHANGED <<circuit, permit>>
    /\ UNCHANGED <<elapsed, kind, verdict, wire, commits, failures>>

\* Mutant: the result of a permit of an older generation counts as well.
SuccessOfAnyGeneration(c) ==
    [circuit EXCEPT !.status = "Closed", !.failures = 0]

\* record_success
RecordSuccess(c) ==
    IF permit[c] # circuit.generation \/ circuit.status = "Open" THEN circuit
    ELSE IF circuit.status = "Closed" THEN [circuit EXCEPT !.failures = 0]
    ELSE [status |-> "Closed", failures |-> 0, generation |-> circuit.generation + 1]

Opened == [status |-> "Open", failures |-> 0, generation |-> circuit.generation + 1]

\* Mutant: the breaker opens one failure late.
RecordFailureLate(c) ==
    IF permit[c] # circuit.generation \/ circuit.status = "Open" THEN circuit
    ELSE IF circuit.status = "HalfOpen" \/ circuit.failures + 1 > Threshold THEN Opened
    ELSE [circuit EXCEPT !.failures = @ + 1]

\* record_failure
RecordFailure(c) ==
    IF permit[c] # circuit.generation \/ circuit.status = "Open" THEN circuit
    ELSE IF circuit.status = "HalfOpen" \/ circuit.failures + 1 >= Threshold THEN Opened
    ELSE [circuit EXCEPT !.failures = @ + 1]

\* Mutant: a store falls back whenever ICM is unavailable, as a recall does.
StoreRetries(c) == verdict[c] \in {"unsent", "ambiguous"}

\* safe_recall_fallback, safe_store_fallback, and McpUnavailable of store_mcp
SafeFallback(c) ==
    \/ verdict[c] = "unsent" /\ kind[c] # "health"
    \/ verdict[c] = "ambiguous" /\ kind[c] = "recall"

\* What the circuit hears of a result
Heard(c) ==
    IF ~UsesCircuit(c) \/ verdict[c] = "rejected" THEN circuit
    ELSE IF verdict[c] \in {"ok", "unexpected"} THEN RecordSuccess(c)
    ELSE RecordFailure(c)

\* The end of recall, store, store_mcp and health: the circuit hears of the
\* result and the call returns or falls back.
Settle(c) ==
    /\ stage[c] = "settling"
    /\ circuit' = Heard(c)
    /\ elapsed' = IF circuit' # circuit THEN "no" ELSE elapsed
    /\ IF SafeFallback(c) THEN FallBack(c)
       ELSE Finish(c, IF verdict[c] = "ok" THEN "ok" ELSE "error")
    /\ UNCHANGED <<kind, permit, verdict, wire, commits, failures>>

-----------------------------------------------------------------------------
(* The transports *)

Conclude(c, v) ==
    /\ stage' = [stage EXCEPT ![c] = "settling"]
    /\ verdict' = [verdict EXCEPT ![c] = v]

CanFail ==
    /\ failures < MaxFailures
    /\ failures' = failures + 1

Committed(c) == IF kind[c] = "store" THEN [commits EXCEPT ![c] = @ + 1] ELSE commits

\* post_json, get_json: one HTTP exchange per call, over a connection of its own
HttpSend(c) ==
    /\ Transport = "Http" /\ stage[c] = "permitted"
    /\ requests' = Append(requests, [id |-> 0, call |-> c])
    /\ stage' = [stage EXCEPT ![c] = "sent"]
    /\ UNCHANGED <<circuit, elapsed, kind, permit, verdict, outcome, holder, conn, replies,
                   commits, failures>>

HttpConnectFails(c) ==
    /\ Transport = "Http" /\ stage[c] = "permitted" /\ CanFail
    /\ Conclude(c, "unsent")
    /\ UNCHANGED <<circuit, elapsed, kind, permit, outcome, wire, commits>>

\* decode_response of the reply of this call, wherever it is among the replies
HttpReceive(c) ==
    /\ Transport = "Http" /\ stage[c] = "sent"
    /\ \E i \in DOMAIN replies :
          /\ replies[i].call = c
          /\ Conclude(c, replies[i].says)
          /\ replies' = RemoveAt(replies, i)
    /\ UNCHANGED <<circuit, elapsed, kind, permit, outcome, holder, conn, requests, commits, failures>>

\* The request timeout, or a connection lost after the request was sent
HttpFails(c) ==
    /\ Transport = "Http" /\ stage[c] = "sent" /\ CanFail
    /\ Conclude(c, "ambiguous")
    /\ UNCHANGED <<circuit, elapsed, kind, permit, outcome, wire, commits>>

\* mcp::request takes the mutex of the connection.  Without a connection it
\* returns McpUnavailable; else it writes the request under the next id.
McpSend(c) ==
    /\ Transport = "StdioMcp" /\ stage[c] = "permitted" /\ holder = NoCall
    /\ IF conn.state = "closed"
       THEN Conclude(c, "unsent") /\ UNCHANGED <<holder, conn, requests>>
       ELSE /\ requests' = Append(requests, [id |-> conn.next_id, call |-> c])
            /\ conn' = [conn EXCEPT !.next_id = @ + 1]
            /\ holder' = c
            /\ stage' = [stage EXCEPT ![c] = "sent"]
            /\ UNCHANGED verdict
    /\ UNCHANGED <<circuit, elapsed, kind, permit, outcome, replies, commits, failures>>

\* *guard = None: both pipes go with the connection.
McpBroken(c) ==
    /\ Conclude(c, "ambiguous")
    /\ conn' = [conn EXCEPT !.state = "closed"]
    /\ holder' = NoCall

\* Mutant: the id of the response is not compared with that of the request.
AnyReplyAnswers(c, reply) == TRUE

\* response.id == id
Answers(c, reply) == reply.id = conn.next_id - 1

\* McpConnection::request reads one line and compares its id.
McpRead(c) ==
    /\ stage[c] = "sent" /\ holder = c /\ replies # <<>>
    /\ replies' = Tail(replies)
    /\ IF Answers(c, Head(replies)) /\ Head(replies).says # "ambiguous"
       THEN Conclude(c, Head(replies).says) /\ holder' = NoCall /\ UNCHANGED conn
       ELSE McpBroken(c)
    /\ UNCHANGED <<circuit, elapsed, kind, permit, outcome, requests, commits, failures>>

\* The timeout around the request, a broken pipe, or the end of ICM's stdout
McpFails(c) ==
    /\ stage[c] = "sent" /\ holder = c /\ CanFail
    /\ McpBroken(c)
    /\ UNCHANGED <<circuit, elapsed, kind, permit, outcome, requests, replies, commits>>

\* The supervisor attaches a fresh process where there is no connection; what an
\* old process had not read is lost with it.  attach takes the mutex three
\* times: from here on calls may come before its initialize.
Attach ==
    /\ Transport = "StdioMcp" /\ holder = NoCall /\ conn.state = "closed"
    /\ conn' = [state |-> "fresh", next_id |-> 1]
    /\ requests' = <<>> /\ replies' = <<>>
    /\ UNCHANGED <<circuit, elapsed, kind, stage, permit, verdict, outcome, holder, commits, failures>>

\* attach disconnects: the handshake timed out, broke the pipe or failed.
AttachFails == conn' = [conn EXCEPT !.state = "closed"]

\* attach, the initialize request: it reads the next line as every request does,
\* and the answer to a dropped call before it breaks the connection.  The
\* notification that follows has no answer; if it fails, so did the handshake.
Initialize ==
    /\ holder = NoCall /\ conn.state = "fresh"
    /\ \/ /\ requests = <<>> /\ replies = <<>>
          /\ conn' = [state |-> "open", next_id |-> conn.next_id + 1]
          /\ UNCHANGED failures
       \/ /\ requests # <<>> \/ replies # <<>>
          /\ AttachFails
          /\ UNCHANGED failures
       \/ AttachFails /\ CanFail
    /\ UNCHANGED <<circuit, elapsed, kind, stage, permit, verdict, outcome, holder, requests,
                   replies, commits>>

-----------------------------------------------------------------------------
(* ICM *)

\* ICM carries out a request and answers, or refuses it, or answers what the
\* client cannot use (a 5xx, a body that is no JSON).  Over stdio it reads in
\* order; HTTP requests are handled in any order.
Serve ==
    \E i \in DOMAIN requests :
        LET c == requests[i].call
            Reply(v) == replies' = Append(replies, [id |-> requests[i].id, call |-> c, says |-> v])
        IN /\ Transport = "StdioMcp" => i = 1
           /\ requests' = RemoveAt(requests, i)
           /\ \/ Reply("ok") /\ commits' = Committed(c) /\ UNCHANGED failures
              \/ Reply("rejected") /\ kind[c] # "health" /\ CanFail /\ UNCHANGED commits
              \/ Reply("unexpected") /\ Transport = "Http" /\ kind[c] = "store"
                 /\ CanFail /\ commits' = Committed(c)
              \/ Reply("ambiguous") /\ CanFail /\ commits' \in {commits, Committed(c)}
           /\ UNCHANGED <<circuit, elapsed, kind, stage, permit, verdict, outcome, holder, conn>>

\* recall_cli, store_cli: a command on the same database.  A failed one may
\* have stored before it failed or was killed at its timeout.
Cli(c) ==
    /\ stage[c] = "fallback"
    /\ \/ Finish(c, "ok") /\ commits' = Committed(c) /\ UNCHANGED failures
       \/ Finish(c, "error") /\ CanFail /\ commits' \in {commits, Committed(c)}
    /\ UNCHANGED <<circuit, elapsed, kind, permit, verdict, wire>>

\* Mutant: a dropped call leaves the connection taken.
DropKeepsGuard(c) ==
    /\ stage[c] \in {"permitted", "sent", "fallback"} /\ CanFail
    /\ Finish(c, "dropped")
    /\ UNCHANGED <<circuit, elapsed, kind, permit, verdict, wire, commits>>

\* The future of a call is dropped where it waits.  Its mutex guard goes with
\* it, the connection and an unread reply stay; the command of a fallback is
\* killed, which may come after it stored.
Drop(c) ==
    /\ stage[c] \in {"permitted", "sent", "fallback"} /\ CanFail
    /\ Finish(c, "dropped")
    /\ holder' = IF holder = c THEN NoCall ELSE holder
    /\ commits' \in (IF stage[c] = "fallback" THEN {commits, Committed(c)} ELSE {commits})
    /\ UNCHANGED <<circuit, elapsed, kind, permit, verdict, conn, requests, replies>>

-----------------------------------------------------------------------------
(* Specification *)

Progress(c) ==
    \/ WithoutPermit(c) \/ BeforeRequest(c) \/ Settle(c) \/ Cli(c)
    \/ HttpSend(c) \/ HttpReceive(c)
    \/ McpSend(c) \/ McpRead(c)

Trouble(c) == HttpConnectFails(c) \/ HttpFails(c) \/ McpFails(c) \/ Drop(c)

Next ==
    \/ \E c \in Calls : Progress(c) \/ Trouble(c)
    \/ Elapse \/ Attach \/ Initialize \/ Serve

Spec == Init /\ [][Next]_vars

\* A future that is polled makes progress; an await on the mutex is served in
\* turn; ICM answers or the timeout does: MaxFailures bounds only how often it
\* does so out of turn.  Time passes.  Nothing makes the supervisor restart ICM.
LiveSpec ==
    /\ Spec
    /\ \A c \in Calls : WF_vars(Progress(c)) /\ SF_vars(McpSend(c))
    /\ WF_vars(Serve) /\ WF_vars(Elapse)

-----------------------------------------------------------------------------
(* Properties *)

\* ICM stores the memory of one call at most once, whatever is retried, timed
\* out or dropped: store falls back to the command line only when nothing was
\* sent (safe_store_fallback, McpUnavailable).
StoreAtMostOnce == \A c \in Calls : commits[c] <= 1

\* A store that returned its receipt is in the memory, although a reply to a
\* dropped call may be waiting in the pipe before its own.
ReceiptIsStored ==
    \A c \in Calls : (kind[c] = "store" /\ outcome[c] = "ok") => commits[c] >= 1

\* The calls whose result the breaker would still take into account
Counted == {c \in Calls : /\ UsesCircuit(c) /\ permit[c] = circuit.generation
                          /\ stage[c] \in {"permitted", "sent", "settling"}}

\* An open breaker waits for nobody, and at most one request probes ICM while
\* it is half open, whatever older requests are still in flight ("the circuit
\* breaker serializes half-open probes", crates/hzr-memory/README.md:84).
OneProbe ==
    /\ circuit.status = "Open" => Counted = {}
    /\ circuit.status = "HalfOpen" => \A c, d \in Counted : c = d

\* An answer to a request that was sent before the breaker opened does not
\* close it: only the probe does.
ReclosedByProbe ==
    [][circuit.status # "Closed" /\ circuit'.status = "Closed"
          => circuit.status = "HalfOpen" /\ \E c \in Counted : verdict[c] \in {"ok", "unexpected"}]_vars

\* Every call returns.
CallsEnd == \A c \in Calls : <>(stage[c] = "done")

\* A half-open breaker refuses requests with "circuit breaker is open for
\* another" reset timeout (crates/hzr-memory/src/error.rs:120) while its probe is
\* out: without a probe no later call can ever get through, because only the
\* result of a probe moves it on.
ProbeIsOut == circuit.status = "HalfOpen" => Counted # {}

=============================================================================
