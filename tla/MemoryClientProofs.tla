------------------------- MODULE MemoryClientProofs -------------------------
(***************************************************************************)
(* Proofs about MemoryClient, for any number of calls, any threshold and   *)
(* either transport: the breaker serializes its probes, only a probe       *)
(* closes it, a store is carried out at most once, and one that returned   *)
(* its receipt was carried out.                                            *)
(***************************************************************************)
EXTENDS MemoryClient, SequenceTheorems, TLAPS

LOCAL INSTANCE SequencesExt

-----------------------------------------------------------------------------
(* The breaker *)

\* What the breaker needs: permits are of this generation or of an older one.
BreakerInv ==
    /\ circuit \in Circuit
    /\ stage \in [Calls -> Stages]
    /\ permit \in [Calls -> Nat]
    /\ \A c \in Calls : permit[c] <= circuit.generation
    /\ OneProbe

\* A step that leaves the breaker alone preserves the invariant if it brings no
\* call under the breaker's eyes.
LEMMA BreakerFrame ==
    ASSUME BreakerInv, circuit' = circuit, permit' = permit,
           stage' \in [Calls -> Stages], Counted' \subseteq Counted
    PROVE  BreakerInv'
BY DEF BreakerInv, OneProbe

\* The steps between the two visits to the breaker
Between(c) ==
    \/ WithoutPermit(c) \/ Cli(c) \/ Drop(c)
    \/ HttpSend(c) \/ HttpConnectFails(c) \/ HttpReceive(c) \/ HttpFails(c)
    \/ McpSend(c) \/ McpRead(c) \/ McpFails(c)

\* They leave the breaker alone, and move one call, which is not a new one
\* unless it uses no permit.
LEMMA BetweenSteps ==
    ASSUME BreakerInv, NEW c \in Calls, Between(c)
    PROVE  /\ circuit' = circuit /\ permit' = permit /\ kind' = kind
           /\ \E s \in Stages : stage' = [stage EXCEPT ![c] = s]
           /\ stage[c] = "new" => ~UsesCircuit(c)
           /\ stage[c] \in {"new", "permitted", "sent", "fallback"}
           /\ stage[c] = "fallback" => stage'[c] = "done"
<1>s. stage \in [Calls -> Stages]
  BY DEF BreakerInv
<1>1. CASE WithoutPermit(c)
  BY <1>1, <1>s DEF WithoutPermit, Stages
<1>2. CASE Cli(c)
  BY <1>2, <1>s DEF Cli, Finish, Stages
<1>3. CASE Drop(c)
  BY <1>3, <1>s DEF Drop, Finish, Stages
<1>4. CASE HttpSend(c)
  BY <1>4, <1>s DEF HttpSend, Stages
<1>5. CASE HttpConnectFails(c)
  BY <1>5, <1>s DEF HttpConnectFails, Conclude, Stages
<1>6. CASE HttpReceive(c)
  BY <1>6, <1>s DEF HttpReceive, Conclude, Stages
<1>7. CASE HttpFails(c)
  BY <1>7, <1>s DEF HttpFails, Conclude, Stages
<1>8. CASE McpSend(c)
  BY <1>8, <1>s DEF McpSend, Conclude, Stages
<1>9. CASE McpRead(c)
  BY <1>9, <1>s DEF McpRead, McpBroken, Conclude, Stages
<1>10. CASE McpFails(c)
  BY <1>10, <1>s DEF McpFails, McpBroken, Conclude, Stages
<1> QED BY <1>1, <1>2, <1>3, <1>4, <1>5, <1>6, <1>7, <1>8, <1>9, <1>10 DEF Between

\* What Settle can do to the breaker: nothing, count in its closed state, or
\* enter a new generation.
LEMMA SettleSteps ==
    ASSUME BreakerInv, NEW c \in Calls, Settle(c)
    PROVE  /\ permit' = permit /\ kind' = kind /\ verdict' = verdict
           /\ stage[c] = "settling"
           /\ \E s \in {"fallback", "done"} : stage' = [stage EXCEPT ![c] = s]
           /\ \/ circuit' = circuit
              \/ /\ circuit' \in Circuit /\ circuit.status = "Closed"
                 /\ circuit'.status = "Closed" /\ circuit'.generation = circuit.generation
              \/ /\ circuit' \in Circuit /\ circuit'.generation = circuit.generation + 1
                 /\ circuit'.status = "Closed" =>
                      /\ circuit.status = "HalfOpen" /\ permit[c] = circuit.generation
                      /\ verdict[c] \in {"ok", "unexpected"} /\ UsesCircuit(c)
<1>t. circuit \in Circuit /\ stage \in [Calls -> Stages]
  BY DEF BreakerInv
<1>1. /\ permit' = permit /\ kind' = kind /\ verdict' = verdict /\ stage[c] = "settling"
      /\ circuit' = Heard(c)
  BY DEF Settle
<1>2. \E s \in {"fallback", "done"} : stage' = [stage EXCEPT ![c] = s]
  BY DEF Settle, FallBack, Finish
<1>3. CASE Heard(c) = circuit
  BY <1>1, <1>2, <1>3
<1>4. CASE Heard(c) = RecordSuccess(c) /\ verdict[c] \in {"ok", "unexpected"} /\ UsesCircuit(c)
  <2>1. CASE permit[c] # circuit.generation \/ circuit.status = "Open"
    BY <1>1, <1>2, <1>4, <2>1 DEF RecordSuccess
  <2>2. CASE permit[c] = circuit.generation /\ circuit.status = "Closed"
    <3>1. circuit' = [circuit EXCEPT !.failures = 0]
      BY <1>1, <1>4, <2>2 DEF RecordSuccess
    <3>2. /\ circuit' \in Circuit /\ circuit'.status = "Closed"
          /\ circuit'.generation = circuit.generation
      BY <1>t, <2>2, <3>1 DEF Circuit
    <3> QED BY <1>1, <1>2, <2>2, <3>2
  <2>3. CASE permit[c] = circuit.generation /\ circuit.status = "HalfOpen"
    <3>1. circuit' = [status |-> "Closed", failures |-> 0,
                      generation |-> circuit.generation + 1]
      BY <1>1, <1>4, <2>3 DEF RecordSuccess
    <3>2. circuit' \in Circuit /\ circuit'.generation = circuit.generation + 1
      BY <1>t, <3>1 DEF Circuit
    <3> QED BY <1>1, <1>2, <1>4, <2>3, <3>2
  <2> QED BY <1>t, <2>1, <2>2, <2>3 DEF Circuit
<1>5. CASE Heard(c) = RecordFailure(c)
  <2>1. CASE circuit' = circuit
    BY <1>1, <1>2, <2>1
  <2>2. CASE circuit' = Opened
    <3>1. /\ circuit' \in Circuit /\ circuit'.status = "Open"
          /\ circuit'.generation = circuit.generation + 1
      BY <1>t, <2>2 DEF Opened, Circuit
    <3> QED BY <1>1, <1>2, <3>1
  <2>3. CASE circuit' = [circuit EXCEPT !.failures = @ + 1] /\ circuit.status = "Closed"
    <3>1. /\ circuit' \in Circuit /\ circuit'.status = "Closed"
          /\ circuit'.generation = circuit.generation
      BY <1>t, <2>3 DEF Circuit
    <3> QED BY <1>1, <1>2, <2>3, <3>1
  <2>4. circuit.status \in {"Closed", "Open", "HalfOpen"}
    BY <1>t DEF Circuit
  <2> QED BY <1>1, <1>5, <2>1, <2>2, <2>3, <2>4 DEF RecordFailure
<1> QED BY <1>3, <1>4, <1>5 DEF Heard

LEMMA BreakerNext == BreakerInv /\ [Next]_vars => BreakerInv'
<1> SUFFICES ASSUME BreakerInv, [Next]_vars PROVE BreakerInv'
  OBVIOUS
<1>t. /\ circuit \in Circuit /\ stage \in [Calls -> Stages] /\ permit \in [Calls -> Nat]
      /\ \A c \in Calls : permit[c] <= circuit.generation
  BY DEF BreakerInv
<1>1. ASSUME NEW c \in Calls, Between(c) PROVE BreakerInv'
  <2>1. /\ circuit' = circuit /\ permit' = permit /\ kind' = kind
        /\ stage[c] = "new" => ~UsesCircuit(c)
        /\ stage[c] \in {"new", "permitted", "sent", "fallback"}
        /\ stage[c] = "fallback" => stage'[c] = "done"
    BY <1>1, BetweenSteps
  <2>2. PICK s \in Stages : stage' = [stage EXCEPT ![c] = s]
    BY <1>1, BetweenSteps
  <2>3. Counted' \subseteq Counted
    BY <1>t, <2>1, <2>2 DEF Counted, UsesCircuit
  <2> QED BY <1>t, <2>1, <2>2, <2>3, BreakerFrame
<1>2. ASSUME NEW c \in Calls, Settle(c) PROVE BreakerInv'
  <2>1. permit' = permit /\ kind' = kind /\ stage[c] = "settling"
    BY <1>2, SettleSteps
  <2>2. PICK s \in {"fallback", "done"} : stage' = [stage EXCEPT ![c] = s]
    BY <1>2, SettleSteps
  <2>3. stage' \in [Calls -> Stages]
    BY <1>t, <2>2 DEF Stages
  <2>4. CASE circuit' = circuit
    <3>1. Counted' \subseteq Counted
      BY <1>t, <2>1, <2>2, <2>4 DEF Counted, UsesCircuit
    <3> QED BY <2>1, <2>3, <2>4, <3>1, BreakerFrame
  <2>5. CASE /\ circuit' \in Circuit /\ circuit'.status = "Closed"
             /\ circuit'.generation = circuit.generation
    BY <1>t, <2>1, <2>3, <2>5 DEF BreakerInv, OneProbe
  <2>6. CASE circuit' \in Circuit /\ circuit'.generation = circuit.generation + 1
    <3>1. \A d \in Calls : permit'[d] < circuit'.generation
      BY <1>t, <2>1, <2>6 DEF Circuit
    <3>2. Counted' = {}
      BY <3>1, <2>1, <1>t DEF Counted
    <3>3. \A d \in Calls : permit'[d] <= circuit'.generation
      BY <3>1, <2>1, <1>t, <2>6 DEF Circuit
    <3> QED BY <1>t, <2>1, <2>3, <2>6, <3>2, <3>3 DEF BreakerInv, OneProbe
  <2> QED BY <1>2, <2>4, <2>5, <2>6, SettleSteps
<1>3. ASSUME NEW c \in Calls, BeforeRequest(c) PROVE BreakerInv'
  <2>1. stage[c] = "new" /\ kind' = kind /\ UsesCircuit(c)
    BY <1>3 DEF BeforeRequest
  <2>2. CASE Admits
    <3>1. /\ circuit' = IF circuit.status = "Open"
                        THEN [circuit EXCEPT !.status = "HalfOpen"] ELSE circuit
          /\ permit' = [permit EXCEPT ![c] = circuit.generation]
          /\ stage' = [stage EXCEPT ![c] = "permitted"]
      BY <1>3, <2>2 DEF BeforeRequest
    <3>2. /\ circuit' \in Circuit /\ circuit'.generation = circuit.generation
          /\ stage' \in [Calls -> Stages] /\ permit' \in [Calls -> Nat]
          /\ \A d \in Calls : permit'[d] <= circuit'.generation
      BY <1>t, <3>1 DEF Circuit, Stages
    <3>3. CASE circuit.status = "Open"
      <4>1. Counted = {} /\ circuit'.status = "HalfOpen"
        BY <1>t, <3>1, <3>3 DEF BreakerInv, OneProbe, Circuit
      <4>2. Counted' \subseteq {c}
        BY <1>t, <2>1, <3>1, <3>2, <4>1 DEF Counted, UsesCircuit
      <4> QED BY <3>2, <4>1, <4>2 DEF BreakerInv, OneProbe
    <3>4. CASE circuit.status = "Closed"
      BY <3>1, <3>2, <3>4 DEF BreakerInv, OneProbe
    <3> QED BY <2>2, <3>3, <3>4 DEF Admits
  <2>3. CASE ~Admits
    <3>1. circuit' = circuit /\ permit' = permit
      BY <1>3, <2>3 DEF BeforeRequest
    <3>2. \E s \in {"fallback", "done"} : stage' = [stage EXCEPT ![c] = s]
      BY <1>3, <2>3 DEF BeforeRequest, FallBack, Finish
    <3>3. Counted' \subseteq Counted
      BY <1>t, <2>1, <3>1, <3>2 DEF Counted, UsesCircuit
    <3>4. stage' \in [Calls -> Stages]
      BY <1>t, <3>2 DEF Stages
    <3> QED BY <3>1, <3>3, <3>4, BreakerFrame
  <2> QED BY <2>2, <2>3
<1>4. ASSUME Elapse \/ Attach \/ Initialize \/ Serve \/ UNCHANGED vars PROVE BreakerInv'
  <2>1. circuit' = circuit /\ permit' = permit /\ kind' = kind /\ stage' = stage
    BY <1>4 DEF Elapse, Attach, Initialize, Serve, vars
  <2> QED BY <1>t, <2>1, BreakerFrame DEF Counted, UsesCircuit
<1> QED BY <1>1, <1>2, <1>3, <1>4 DEF Next, Progress, Trouble, Between

LEMMA BreakerInit == Init => BreakerInv
BY DEF Init, BreakerInv, OneProbe, Circuit, Stages

\* The breaker serializes its probes: while it is open no result counts, and
\* while it is half open at most one request in flight can change it, however
\* many slow requests of older generations are answered, fail or are dropped.
THEOREM ProbesSerialized == Spec => []OneProbe
<1>1. BreakerInv => OneProbe
  BY DEF BreakerInv
<1> QED BY BreakerInit, BreakerNext, <1>1, PTL DEF Spec

\* The breaker closes only on the answer to its probe.
THEOREM ClosedByProbeOnly == Spec => ReclosedByProbe
<1> DEFINE A == circuit.status # "Closed" /\ circuit'.status = "Closed" =>
                  /\ circuit.status = "HalfOpen"
                  /\ \E c \in Counted : verdict[c] \in {"ok", "unexpected"}
<1>1. ASSUME BreakerInv, Next PROVE A
  <2>t. circuit \in Circuit
    BY <1>1 DEF BreakerInv
  <2>1. ASSUME NEW c \in Calls, Between(c) PROVE A
    BY <1>1, <2>1, BetweenSteps
  <2>2. ASSUME NEW c \in Calls, Settle(c) PROVE A
    <3>1. SUFFICES ASSUME circuit.status # "Closed", circuit'.status = "Closed"
                   PROVE  circuit.status = "HalfOpen"
                          /\ \E d \in Counted : verdict[d] \in {"ok", "unexpected"}
      OBVIOUS
    <3>2. /\ circuit.status = "HalfOpen" /\ permit[c] = circuit.generation
          /\ verdict[c] \in {"ok", "unexpected"} /\ UsesCircuit(c) /\ stage[c] = "settling"
      BY <1>1, <2>2, <3>1, SettleSteps
    <3> QED BY <3>2 DEF Counted
  <2>3. ASSUME NEW c \in Calls, BeforeRequest(c) PROVE A
    BY <2>3, <2>t DEF BeforeRequest, Circuit
  <2>4. ASSUME Elapse \/ Attach \/ Initialize \/ Serve PROVE A
    BY <2>4 DEF Elapse, Attach, Initialize, Serve
  <2> QED BY <1>1, <2>1, <2>2, <2>3, <2>4 DEF Next, Progress, Trouble, Between
<1>2. BreakerInv /\ [Next]_vars => [A]_vars
  BY <1>1
<1> QED BY BreakerInit, BreakerNext, <1>2, PTL DEF Spec, ReclosedByProbe

-----------------------------------------------------------------------------
(* A store is carried out at most once *)

Connection == [state: {"closed", "fresh", "open"}, next_id: Nat]
Request == [id: Nat, call: Calls]
Reply == [id: Nat, call: Calls, says: Verdicts \ {"unsent"}]

\* The requests of a call that ICM has not read
InPipe(c) == {i \in DOMAIN requests : requests[i].call = c}

\* Nothing of the call has been sent.
Untouched(c) == InPipe(c) = {} /\ commits[c] = 0

\* A call is untouched until it sends, and still when it may fall back with a
\* store; what it has sent is waiting or carried out, never both.
Once(c) ==
    /\ stage[c] \in {"new", "permitted"} => Untouched(c)
    /\ stage[c] = "settling" /\ verdict[c] = "unsent" => Untouched(c)
    /\ stage[c] = "fallback" /\ kind[c] = "store" => Untouched(c)
    /\ commits[c] \in {0, 1}
    /\ commits[c] = 1 => InPipe(c) = {}
    /\ kind[c] # "store" => commits[c] = 0
    /\ \A i, j \in InPipe(c) : i = j

OnceInv ==
    /\ stage \in [Calls -> Stages] /\ verdict \in [Calls -> Verdicts]
    /\ commits \in [Calls -> Nat]
    /\ requests \in Seq(Request) /\ conn \in Connection
    /\ replies \in Seq(Reply)
    /\ \A c \in Calls : Once(c)

\* What is left of a sequence without its element i
LEMMA WithoutElement ==
    ASSUME NEW S, NEW s \in Seq(S), NEW i \in DOMAIN s
    PROVE  /\ RemoveAt(s, i) \in Seq(S)
           /\ DOMAIN RemoveAt(s, i) = 1..(Len(s) - 1)
           /\ \A j \in 1..(Len(s) - 1) :
                RemoveAt(s, i)[j] = IF j < i THEN s[j] ELSE s[j + 1]
<1> DEFINE a == SubSeq(s, 1, i - 1)
           b == SubSeq(s, i + 1, Len(s))
<1>1. i \in 1..Len(s) /\ Len(s) \in Nat
  OBVIOUS
<1>2. /\ a \in Seq(S) /\ Len(a) = i - 1
      /\ \A j \in 1..(i - 1) : a[j] = s[j]
  BY <1>1
<1>3. /\ b \in Seq(S) /\ Len(b) = Len(s) - i
      /\ \A j \in 1..(Len(s) - i) : b[j] = s[i + j]
  BY <1>1
<1>4. RemoveAt(s, i) = a \o b
  BY DEF RemoveAt
<1> HIDE DEF a, b
<1>5. /\ a \o b \in Seq(S) /\ Len(a \o b) = Len(s) - 1
      /\ \A j \in 1..(Len(s) - 1) : (a \o b)[j] = IF j < i THEN a[j] ELSE b[j - (i - 1)]
  <2>1. a \o b \in Seq(S) /\ Len(a \o b) = Len(a) + Len(b)
    BY <1>2, <1>3, ConcatProperties
  <2>2. \A j \in 1..(Len(a) + Len(b)) :
            (a \o b)[j] = IF j <= Len(a) THEN a[j] ELSE b[j - Len(a)]
    BY <1>2, <1>3, ConcatProperties
  <2>3. Len(a) + Len(b) = Len(s) - 1
    BY <1>1, <1>2, <1>3
  <2>4. \A j \in 1..(Len(s) - 1) : (a \o b)[j] = IF j < i THEN a[j] ELSE b[j - (i - 1)]
    BY <1>1, <1>2, <2>2, <2>3
  <2> QED BY <2>1, <2>3, <2>4
<1>6. \A j \in 1..(Len(s) - 1) : (a \o b)[j] = IF j < i THEN s[j] ELSE s[j + 1]
  <2>1. ASSUME NEW j \in 1..(Len(s) - 1), j < i PROVE (a \o b)[j] = s[j]
    BY <1>1, <1>2, <1>5, <2>1
  <2>2. ASSUME NEW j \in 1..(Len(s) - 1), ~(j < i) PROVE (a \o b)[j] = s[j + 1]
    <3>1. j - (i - 1) \in 1..(Len(s) - i) /\ i + (j - (i - 1)) = j + 1
      BY <1>1, <2>2
    <3> QED BY <1>3, <1>5, <2>2, <3>1
  <2> QED BY <2>1, <2>2
<1>7. DOMAIN (a \o b) = 1..(Len(s) - 1)
  BY <1>5, LenProperties
<1> DEFINE r == RemoveAt(s, i)
<1>8. r = a \o b
  BY <1>4
<1> HIDE DEF r
<1>9. r \in Seq(S) /\ DOMAIN r = 1..(Len(s) - 1)
  BY <1>5, <1>7, <1>8
<1>10. \A j \in 1..(Len(s) - 1) : r[j] = IF j < i THEN s[j] ELSE s[j + 1]
  BY <1>6, <1>8
<1> QED BY <1>9, <1>10 DEF r

\* A call whose own state and requests are untouched keeps Once.
LEMMA OnceFrame ==
    ASSUME NEW c \in Calls, Once(c), InPipe(c)' = InPipe(c), commits'[c] = commits[c],
           kind' = kind, stage'[c] = stage[c], verdict'[c] = verdict[c]
    PROVE  Once(c)'
BY DEF Once, Untouched

\* A step that moves call c and leaves what was sent and the memory alone
LEMMA OnceMove ==
    ASSUME OnceInv, NEW c \in Calls, UNCHANGED <<requests, commits, kind>>,
           replies' \in Seq(Reply), conn' \in Connection,
           NEW t \in Stages, stage' = [stage EXCEPT ![c] = t],
           NEW v \in Verdicts, verdict' = [verdict EXCEPT ![c] = v],
           \/ Untouched(c)
           \/ t \in {"sent", "done"}
           \/ t = "settling" /\ v # "unsent"
           \/ t = "fallback" /\ kind[c] # "store"
    PROVE  OnceInv'
<1>1. /\ stage' \in [Calls -> Stages] /\ verdict' \in [Calls -> Verdicts]
      /\ commits' \in [Calls -> Nat] /\ requests' \in Seq(Request) /\ conn' \in Connection
      /\ replies' \in Seq(Reply)
  BY DEF OnceInv
<1>2. ASSUME NEW d \in Calls PROVE InPipe(d)' = InPipe(d)
  BY DEF InPipe
<1>3. ASSUME NEW d \in Calls, d # c PROVE Once(d)'
  <2>1. stage'[d] = stage[d] /\ verdict'[d] = verdict[d] /\ commits'[d] = commits[d]
    BY <1>3 DEF OnceInv
  <2> QED BY <1>2, <2>1, OnceFrame DEF OnceInv
<1>4. Once(c)'
  <2>1. stage'[c] = t /\ verdict'[c] = v
    BY DEF OnceInv
  <2>2. Once(c)
    BY DEF OnceInv
  <2>3. InPipe(c)' = InPipe(c)
    BY <1>2
  <2> QED BY <2>1, <2>2, <2>3 DEF Once, Untouched
<1> QED BY <1>1, <1>3, <1>4 DEF OnceInv

\* A step that sends the request of an untouched call
LEMMA OnceSend ==
    ASSUME OnceInv, NEW c \in Calls, stage[c] = "permitted",
           UNCHANGED <<replies, commits, kind, verdict>>,
           NEW n \in Nat, requests' = Append(requests, [id |-> n, call |-> c]),
           conn' \in Connection, stage' = [stage EXCEPT ![c] = "sent"]
    PROVE  OnceInv'
<1> DEFINE m == [id |-> n, call |-> c]
<1>1. m \in Request /\ m.call = c
  BY DEF Request
<1>2. /\ requests' \in Seq(Request) /\ Len(requests') = Len(requests) + 1
      /\ \A i \in 1..Len(requests) : requests'[i] = requests[i]
      /\ requests'[Len(requests) + 1] = m
  <2> HIDE DEF m
  <2>1. requests \in Seq(Request) /\ requests' = Append(requests, m)
    BY DEF OnceInv, m
  <2> QED BY <1>1, <2>1, AppendProperties
<1>l. Len(requests) \in Nat /\ DOMAIN requests = 1..Len(requests)
      /\ DOMAIN requests' = 1..(Len(requests) + 1)
  BY <1>2 DEF OnceInv
<1>3. /\ stage' \in [Calls -> Stages] /\ verdict' \in [Calls -> Verdicts]
      /\ commits' \in [Calls -> Nat]
      /\ replies' \in Seq(Reply)
  BY DEF OnceInv, Stages
<1>4. ASSUME NEW d \in Calls, d # c PROVE Once(d)'
  <2>1. stage'[d] = stage[d] /\ verdict'[d] = verdict[d] /\ commits'[d] = commits[d]
    BY <1>4 DEF OnceInv
  <2>2. InPipe(d)' = InPipe(d)
    BY <1>1, <1>2, <1>l, <1>4 DEF InPipe
  <2> QED BY <2>1, <2>2, OnceFrame DEF OnceInv
<1>5. Once(c)'
  <2>1. Untouched(c) /\ kind' = kind /\ commits' = commits
    BY DEF OnceInv, Once
  <2>2. InPipe(c)' \subseteq {Len(requests) + 1}
    BY <1>1, <1>2, <1>l, <2>1 DEF Untouched, InPipe
  <2>3. stage'[c] = "sent"
    BY DEF OnceInv
  <2> QED BY <2>1, <2>2, <2>3 DEF Once, Untouched
<1> QED BY <1>2, <1>3, <1>4, <1>5 DEF OnceInv

\* ICM reads a request and perhaps carries it out.
LEMMA OnceServe ==
    ASSUME OnceInv, Serve
    PROVE  OnceInv'
<1>1. PICK i \in DOMAIN requests :
        /\ requests' = RemoveAt(requests, i)
        /\ commits' \in {commits, Committed(requests[i].call)}
        /\ \E v \in Verdicts \ {"unsent"} :
             replies' = Append(replies, [id |-> requests[i].id, call |-> requests[i].call, says |-> v])
        /\ UNCHANGED <<kind, stage, verdict, conn>>
  BY DEF Serve, Verdicts
<1>r. requests[i] \in Request
  <2>1. requests \in Seq(Request)
    BY DEF OnceInv
  <2> QED BY <2>1
<1>2. PICK c \in Calls : c = requests[i].call
  BY <1>r DEF Request
<1>3. /\ requests' \in Seq(Request) /\ DOMAIN requests' = 1..(Len(requests) - 1)
      /\ \A j \in 1..(Len(requests) - 1) :
            requests'[j] = IF j < i THEN requests[j] ELSE requests[j + 1]
      /\ DOMAIN requests = 1..Len(requests) /\ Len(requests) \in Nat
  <2>1. requests \in Seq(Request)
    BY DEF OnceInv
  <2> QED BY <1>1, <2>1, WithoutElement
<1>4. replies' \in Seq(Reply)
  <2>1. PICK v \in Verdicts \ {"unsent"} :
          replies' = Append(replies, [id |-> requests[i].id, call |-> c, says |-> v])
    BY <1>1, <1>2
  <2>2. [id |-> requests[i].id, call |-> c, says |-> v]
          \in Reply
    BY <1>r DEF Request, Reply
  <2> QED BY <2>1, <2>2 DEF OnceInv
<1>5. /\ commits' \in [Calls -> Nat] /\ \A d \in Calls : d # c => commits'[d] = commits[d]
      /\ commits'[c] \in {commits[c], IF kind[c] = "store" THEN commits[c] + 1 ELSE commits[c]}
  <2>1. commits \in [Calls -> Nat]
    BY DEF OnceInv
  <2>2. commits' = commits \/ (kind[c] = "store" /\ commits' = [commits EXCEPT ![c] = @ + 1])
    BY <1>1, <1>2 DEF Committed
  <2> QED BY <2>1, <2>2
<1>6. ASSUME NEW d \in Calls, NEW j \in InPipe(d)'
      PROVE  /\ j \in Nat
             /\ IF j < i THEN j \in InPipe(d) ELSE j + 1 \in InPipe(d)
  BY <1>3, <1>6 DEF InPipe
<1>7. ASSUME NEW d \in Calls, d # c PROVE Once(d)'
  <2>1. stage'[d] = stage[d] /\ verdict'[d] = verdict[d] /\ commits'[d] = commits[d] /\ kind' = kind
    BY <1>1, <1>5, <1>7
  <2>2. InPipe(d) = {} => InPipe(d)' = {}
    BY <1>6
  <2>3. \A j, k \in InPipe(d) : j = k
    BY DEF OnceInv, Once
  <2>4. i \notin InPipe(d) /\ i \in Nat
    BY <1>2, <1>3, <1>7 DEF InPipe
  <2>5. \A j, k \in InPipe(d)' : j = k
    <3>1. SUFFICES ASSUME NEW j \in InPipe(d)', NEW k \in InPipe(d)' PROVE j = k
      OBVIOUS
    <3>2. /\ j \in Nat /\ k \in Nat
          /\ IF j < i THEN j \in InPipe(d) ELSE j + 1 \in InPipe(d)
          /\ IF k < i THEN k \in InPipe(d) ELSE k + 1 \in InPipe(d)
      BY <1>6
    <3> QED BY <2>3, <2>4, <3>2
  <2> QED BY <2>1, <2>2, <2>5 DEF Once, Untouched, OnceInv
<1>8. Once(c)'
  <2>1. i \in InPipe(c) /\ i \in Nat
    BY <1>2, <1>3 DEF InPipe
  <2>2. Once(c)
    BY DEF OnceInv
  <2>3. commits[c] = 0 /\ ~Untouched(c) /\ InPipe(c) \subseteq {i}
    BY <2>1, <2>2 DEF Once, Untouched
  <2>4. InPipe(c)' = {}
    BY <1>6, <2>1, <2>3
  <2>5. commits'[c] \in {0, 1} /\ (kind[c] # "store" => commits'[c] = 0)
    BY <1>5, <2>3
  <2>6. stage' = stage /\ verdict' = verdict /\ kind' = kind
    BY <1>1
  <2> QED BY <2>2, <2>3, <2>4, <2>5, <2>6 DEF Once
<1> QED BY <1>1, <1>3, <1>4, <1>5, <1>7, <1>8 DEF OnceInv

\* The fallback of a store, or of a recall, on the command line
LEMMA OnceCli ==
    ASSUME OnceInv, NEW c \in Calls, Cli(c) \/ (Drop(c) /\ stage[c] = "fallback")
    PROVE  OnceInv'
<1>t. /\ stage \in [Calls -> Stages] /\ commits \in [Calls -> Nat]
      /\ stage[c] = "fallback"
  BY DEF OnceInv, Cli
<1>1. /\ UNCHANGED <<requests, replies, conn, kind, verdict>>
      /\ stage' = [stage EXCEPT ![c] = "done"]
  BY DEF Cli, Drop, Finish, wire
<1>2. commits' = commits \/ (kind[c] = "store" /\ commits' = [commits EXCEPT ![c] = @ + 1])
  BY <1>t DEF Cli, Drop, Committed
<1>3. /\ commits' \in [Calls -> Nat] /\ stage' \in [Calls -> Stages]
      /\ stage'[c] = "done"
      /\ \A d \in Calls : d # c => commits'[d] = commits[d] /\ stage'[d] = stage[d]
  BY <1>t, <1>1, <1>2 DEF Stages
<1>4. \A d \in Calls : InPipe(d)' = InPipe(d)
  BY <1>1 DEF InPipe
<1>5. ASSUME NEW d \in Calls, d # c PROVE Once(d)'
  BY <1>1, <1>3, <1>4, <1>5, OnceFrame DEF OnceInv
<1>6. Once(c)'
  <2>1. Once(c) /\ InPipe(c)' = InPipe(c) /\ kind' = kind
    BY <1>1, <1>4 DEF OnceInv
  <2>2. CASE commits' = commits
    BY <1>3, <2>1, <2>2 DEF Once
  <2>3. CASE kind[c] = "store" /\ commits' = [commits EXCEPT ![c] = @ + 1]
    <3>1. InPipe(c) = {} /\ commits'[c] = 1
      BY <1>t, <2>1, <2>3 DEF Once, Untouched
    <3> QED BY <1>3, <2>1, <2>3, <3>1 DEF Once
  <2> QED BY <1>2, <2>2, <2>3
<1> QED BY <1>1, <1>3, <1>5, <1>6 DEF OnceInv

LEMMA OnceNext == OnceInv /\ [Next]_vars => OnceInv'
<1> SUFFICES ASSUME OnceInv, [Next]_vars PROVE OnceInv'
  OBVIOUS
<1>t. /\ stage \in [Calls -> Stages] /\ verdict \in [Calls -> Verdicts]
      /\ conn \in Connection
      /\ replies \in Seq(Reply)
      /\ \A i \in DOMAIN replies : replies[i].says \in Verdicts \ {"unsent"}
  <2>1. replies \in Seq(Reply)
    BY DEF OnceInv
  <2>2. \A i \in DOMAIN replies : replies[i] \in Reply
    BY <2>1
  <2>3. \A m \in Reply : m.says \in Verdicts \ {"unsent"}
    BY DEF Reply
  <2> QED BY <2>1, <2>2, <2>3 DEF OnceInv
<1>u. \A c \in Calls : stage[c] \in {"new", "permitted"} => Untouched(c)
  BY DEF OnceInv, Once
\* Moves that leave the requests alone
<1>m. ASSUME NEW c \in Calls, UNCHANGED <<requests, commits, kind>>,
             replies' \in Seq(Reply), conn' \in Connection,
             NEW t \in Stages, stage' = [stage EXCEPT ![c] = t],
             verdict' = verdict \/ (\E v \in Verdicts : verdict' = [verdict EXCEPT ![c] = v]),
             \/ Untouched(c)
             \/ t \in {"sent", "done"}
             \/ t = "settling" /\ verdict'[c] # "unsent"
             \/ t = "fallback" /\ kind[c] # "store"
      PROVE  OnceInv'
  <2>1. PICK v \in Verdicts : verdict' = [verdict EXCEPT ![c] = v] /\ verdict'[c] = v
    BY <1>t, <1>m
  <2> QED BY <1>t, <1>m, <2>1, OnceMove
<1>1. ASSUME NEW c \in Calls, WithoutPermit(c) \/ BeforeRequest(c) PROVE OnceInv'
  <2>1. UNCHANGED <<requests, replies, commits, kind, conn, verdict>> /\ stage[c] = "new"
    BY <1>1 DEF WithoutPermit, BeforeRequest, wire
  <2>2. \E t \in Stages : stage' = [stage EXCEPT ![c] = t]
    BY <1>1 DEF WithoutPermit, BeforeRequest, FallBack, Finish, Stages
  <2> QED BY <1>t, <1>m, <1>u, <2>1, <2>2
<1>2. ASSUME NEW c \in Calls, Settle(c) PROVE OnceInv'
  <2>1. UNCHANGED <<requests, replies, commits, kind, conn, verdict>> /\ stage[c] = "settling"
    BY <1>2 DEF Settle, wire
  <2>2. CASE SafeFallback(c)
    <3>1. \E t \in Stages : stage' = [stage EXCEPT ![c] = t] /\ t \in {"fallback", "done"}
      BY <1>2, <2>2 DEF Settle, FallBack, Finish, Stages
    <3>2. Untouched(c) \/ kind[c] # "store"
      BY <2>1, <2>2 DEF SafeFallback, OnceInv, Once
    <3> QED BY <1>t, <1>m, <2>1, <3>1, <3>2
  <2>3. CASE ~SafeFallback(c)
    <3>1. stage' = [stage EXCEPT ![c] = "done"]
      BY <1>2, <2>3 DEF Settle, Finish
    <3>2. "done" \in Stages
      BY DEF Stages
    <3> QED BY <1>t, <1>m, <2>1, <3>1, <3>2
  <2> QED BY <2>2, <2>3
<1>3. ASSUME NEW c \in Calls, HttpSend(c) PROVE OnceInv'
  BY <1>3, <1>t, OnceSend DEF HttpSend
<1>4. ASSUME NEW c \in Calls, McpSend(c) PROVE OnceInv'
  <2>1. UNCHANGED <<replies, commits, kind>> /\ stage[c] = "permitted"
    BY <1>4 DEF McpSend
  <2>2. CASE conn.state = "closed"
    <3>1. /\ stage' = [stage EXCEPT ![c] = "settling"]
          /\ verdict' = [verdict EXCEPT ![c] = "unsent"] /\ UNCHANGED <<requests, conn>>
      BY <1>4, <2>2 DEF McpSend, Conclude
    <3>2. "settling" \in Stages /\ "unsent" \in Verdicts
      BY DEF Stages, Verdicts
    <3> QED BY <1>t, <1>m, <1>u, <2>1, <3>1, <3>2
  <2>3. CASE conn.state # "closed"
    <3>1. /\ requests' = Append(requests, [id |-> conn.next_id, call |-> c])
          /\ conn' = [conn EXCEPT !.next_id = @ + 1] /\ verdict' = verdict
          /\ stage' = [stage EXCEPT ![c] = "sent"]
      BY <1>4, <2>3 DEF McpSend
    <3>2. conn.next_id \in Nat /\ conn' \in Connection
      BY <1>t, <3>1 DEF Connection
    <3> QED BY <1>t, <2>1, <3>1, <3>2, OnceSend
  <2> QED BY <2>2, <2>3
<1>5. ASSUME NEW c \in Calls, HttpConnectFails(c) \/ HttpFails(c) \/ McpFails(c) PROVE OnceInv'
  <2>1. /\ UNCHANGED <<requests, replies, commits, kind>> /\ conn' \in Connection
        /\ stage' = [stage EXCEPT ![c] = "settling"]
    BY <1>t, <1>5 DEF HttpConnectFails, HttpFails, McpFails, McpBroken, Conclude, wire, Connection
  <2>2. \/ verdict' = [verdict EXCEPT ![c] = "ambiguous"]
        \/ verdict' = [verdict EXCEPT ![c] = "unsent"] /\ stage[c] = "permitted"
    BY <1>5 DEF HttpConnectFails, HttpFails, McpFails, McpBroken, Conclude
  <2>3. "settling" \in Stages /\ "unsent" \in Verdicts /\ "ambiguous" \in Verdicts
    BY DEF Stages, Verdicts
  <2>4. CASE verdict' = [verdict EXCEPT ![c] = "ambiguous"]
    <3>1. verdict'[c] # "unsent"
      BY <1>t, <2>4
    <3> QED BY <1>t, <1>m, <2>1, <2>3, <2>4, <3>1
  <2>5. CASE verdict' = [verdict EXCEPT ![c] = "unsent"] /\ stage[c] = "permitted"
    BY <1>t, <1>m, <1>u, <2>1, <2>3, <2>5
  <2> QED BY <2>2, <2>4, <2>5
<1>6. ASSUME NEW c \in Calls, HttpReceive(c) \/ McpRead(c) PROVE OnceInv'
  <2>1. /\ UNCHANGED <<requests, commits, kind>> /\ conn' \in Connection
        /\ stage' = [stage EXCEPT ![c] = "settling"]
    BY <1>t, <1>6 DEF HttpReceive, McpRead, McpBroken, Conclude, Connection
  <2>2. replies' \in Seq(Reply)
    <3>1. CASE HttpReceive(c)
      <4>1. PICK i \in DOMAIN replies : replies' = RemoveAt(replies, i)
        BY <3>1 DEF HttpReceive
      <4> QED BY <1>t, <4>1, WithoutElement
    <3>2. CASE McpRead(c)
      BY <1>t, <3>2, HeadTailProperties DEF McpRead
    <3> QED BY <1>6, <3>1, <3>2
  <2>3. \E v \in Verdicts \ {"unsent"} : verdict' = [verdict EXCEPT ![c] = v]
    <3>1. CASE HttpReceive(c)
      BY <1>t, <3>1 DEF HttpReceive, Conclude
    <3>2. CASE McpRead(c)
      <4>1. replies # <<>> => Head(replies) = replies[1] /\ 1 \in DOMAIN replies
        BY <1>t
      <4>2. "ambiguous" \in Verdicts
        BY DEF Verdicts
      <4> QED BY <1>t, <3>2, <4>1, <4>2 DEF McpRead, McpBroken, Conclude
    <3> QED BY <1>6, <3>1, <3>2
  <2>4. verdict'[c] # "unsent"
    BY <1>t, <2>3
  <2>5. "settling" \in Stages
    BY DEF Stages
  <2> QED BY <1>m, <2>1, <2>2, <2>3, <2>4, <2>5
<1>7. ASSUME NEW c \in Calls, Drop(c), stage[c] # "fallback" PROVE OnceInv'
  <2>1. /\ UNCHANGED <<requests, replies, commits, kind, verdict, conn>>
        /\ stage' = [stage EXCEPT ![c] = "done"]
    BY <1>7 DEF Drop, Finish
  <2>2. "done" \in Stages
    BY DEF Stages
  <2> QED BY <1>t, <1>m, <2>1, <2>2
<1>8. ASSUME Attach PROVE OnceInv'
  <2>1. /\ UNCHANGED <<kind, stage, verdict, commits>> /\ conn' \in Connection
        /\ requests' = <<>> /\ replies' = <<>>
    BY <1>8 DEF Attach, Connection
  <2>2. requests' \in Seq(Request) /\ replies' \in Seq(Reply)
    BY <2>1
  <2>3. \A c \in Calls : InPipe(c)' = {}
    BY <2>1 DEF InPipe
  <2>4. \A c \in Calls : Once(c)'
    BY <2>1, <2>3 DEF OnceInv, Once, Untouched
  <2> QED BY <2>1, <2>2, <2>4 DEF OnceInv
<1>9. ASSUME Elapse \/ Initialize \/ UNCHANGED vars PROVE OnceInv'
  <2>1. UNCHANGED <<kind, stage, verdict, commits, requests, replies>> /\ conn' \in Connection
    <3>1. CASE Initialize
      BY <1>t, <3>1 DEF Initialize, AttachFails, Connection
    <3>2. CASE Elapse \/ UNCHANGED vars
      BY <1>t, <3>2 DEF Elapse, vars, wire
    <3> QED BY <1>9, <3>1, <3>2
  <2>2. \A c \in Calls : Once(c)'
    BY <2>1 DEF OnceInv, Once, Untouched, InPipe
  <2> QED BY <2>1, <2>2 DEF OnceInv
<1> QED
  BY <1>1, <1>2, <1>3, <1>4, <1>5, <1>6, <1>7, <1>8, <1>9, OnceCli, OnceServe
  DEF Next, Progress, Trouble

LEMMA OnceInit == Init => OnceInv
<1> SUFFICES ASSUME Init PROVE OnceInv
  OBVIOUS
<1>1. \A c \in Calls : InPipe(c) = {}
  BY DEF Init, InPipe
<1>2. \A c \in Calls : Once(c)
  BY <1>1 DEF Init, Once, Untouched
<1>3. requests \in Seq(Request) /\ replies \in Seq(Reply)
  BY DEF Init
<1> QED BY <1>2, <1>3 DEF Init, OnceInv, Stages, Verdicts, Connection

\* ICM stores the memory of a call at most once, over either transport, with or
\* without the fallback, for any number of concurrent calls, timeouts, dropped
\* futures and restarts of ICM.
THEOREM StoredAtMostOnce == Spec => []StoreAtMostOnce
<1>1. OnceInv => StoreAtMostOnce
  BY DEF OnceInv, Once, StoreAtMostOnce
<1> QED BY OnceInit, OnceNext, <1>1, PTL DEF Spec

-----------------------------------------------------------------------------
(* The rest of the type invariant *)

\* What the breaker and the requests do not say about the types
RestInv ==
    /\ circuit.failures < Threshold
    /\ elapsed \in {"yes", "no"}
    /\ kind \in [Calls -> Kinds]
    /\ outcome \in [Calls -> {"none", "ok", "error", "dropped"}]
    /\ holder \in Calls \cup {NoCall}
    /\ failures \in Nat

\* A failure below the threshold is counted, and any other opens the circuit.
LEMMA FailuresBounded ==
    ASSUME BreakerInv, RestInv, NEW c \in Calls, Settle(c)
    PROVE  circuit'.failures < Threshold
<1>t. /\ circuit \in Circuit /\ circuit.failures < Threshold
      /\ Threshold \in Nat \ {0} /\ circuit.failures \in Nat
  BY MemoryAssumption DEF BreakerInv, RestInv, Circuit
<1>1. circuit' = Heard(c)
  BY DEF Settle
<1>2. RecordSuccess(c).failures < Threshold
  <2>1. RecordSuccess(c) = circuit \/ RecordSuccess(c).failures = 0
    BY <1>t DEF RecordSuccess, Circuit
  <2> QED BY <1>t, <2>1
<1>3. RecordFailure(c).failures < Threshold
  <2>1. \/ RecordFailure(c) = circuit
        \/ RecordFailure(c).failures = 0
        \/ /\ RecordFailure(c).failures = circuit.failures + 1
           /\ ~(circuit.failures + 1 >= Threshold)
    BY <1>t DEF RecordFailure, Opened, Circuit
  <2> QED BY <1>t, <2>1
<1> QED BY <1>t, <1>1, <1>2, <1>3 DEF Heard

\* What a step may return to the caller of c: an error, or that the call was
\* dropped, or a success of the transport or of the command line.
LEMMA OutcomeSteps ==
    ASSUME RestInv, NEW c \in Calls, Progress(c) \/ Trouble(c)
    PROVE  \/ outcome' = outcome
           \/ \E r \in {"error", "dropped"} : outcome' = [outcome EXCEPT ![c] = r]
           \/ /\ outcome' = [outcome EXCEPT ![c] = "ok"]
              /\ \/ Cli(c) /\ commits' = Committed(c)
                 \/ Settle(c) /\ verdict[c] = "ok"
<1>1. CASE WithoutPermit(c) \/ BeforeRequest(c) \/ HttpSend(c) \/ HttpReceive(c)
  BY <1>1 DEF WithoutPermit, BeforeRequest, FallBack, Finish, HttpSend, HttpReceive
<1>2. CASE McpSend(c) \/ McpRead(c) \/ HttpConnectFails(c) \/ HttpFails(c) \/ McpFails(c)
  BY <1>2 DEF McpSend, McpRead, HttpConnectFails, HttpFails, McpFails
<1>3. CASE Settle(c)
  BY <1>3 DEF Settle, FallBack, Finish
<1>4. CASE Cli(c)
  BY <1>4 DEF Cli, Finish
<1>5. CASE Drop(c)
  BY <1>5 DEF Drop, Finish
<1> QED BY <1>1, <1>2, <1>3, <1>4, <1>5 DEF Progress, Trouble

\* Every step keeps them.
LEMMA RestNext == BreakerInv /\ RestInv /\ [Next]_vars => RestInv'
<1> SUFFICES ASSUME BreakerInv, RestInv, [Next]_vars PROVE RestInv'
  OBVIOUS
<1>t. /\ circuit \in Circuit /\ failures \in Nat /\ holder \in Calls \cup {NoCall}
      /\ outcome \in [Calls -> {"none", "ok", "error", "dropped"}]
      /\ elapsed \in {"yes", "no"} /\ kind \in [Calls -> Kinds]
      /\ circuit.failures < Threshold
  BY DEF BreakerInv, RestInv
<1>1. ASSUME NEW c \in Calls, Progress(c) \/ Trouble(c) PROVE RestInv'
  <2>1. kind' = kind /\ (Settle(c) \/ BeforeRequest(c) \/ circuit' = circuit)
    BY <1>1, BetweenSteps DEF Settle, BeforeRequest, Progress, Trouble, Between
  <2>2. circuit'.failures < Threshold
    <3>1. CASE BeforeRequest(c)
      <4>1. circuit' = circuit \/ circuit' = [circuit EXCEPT !.status = "HalfOpen"]
        BY <3>1 DEF BeforeRequest
      <4> QED BY <1>t, <4>1 DEF Circuit
    <3> QED BY <1>t, <2>1, <3>1, FailuresBounded
  <2>3. outcome' \in [Calls -> {"none", "ok", "error", "dropped"}]
    BY <1>1, <1>t, OutcomeSteps
  <2>4. elapsed' \in {"yes", "no"}
    <3>1. elapsed' = elapsed \/ elapsed' = "no"
      BY <1>1 DEF Progress, Trouble, WithoutPermit, BeforeRequest, Settle, Cli, HttpSend,
                  HttpReceive, McpSend, McpRead, HttpConnectFails, HttpFails, McpFails, Drop
    <3> QED BY <1>t, <3>1
  <2>5. holder' \in Calls \cup {NoCall}
    <3>1. holder' \in {holder, c, NoCall}
      BY <1>1 DEF Progress, Trouble, WithoutPermit, BeforeRequest, Settle, Cli, HttpSend, wire,
                  HttpReceive, McpSend, McpRead, HttpConnectFails, HttpFails, McpFails, Drop,
                  McpBroken
    <3> QED BY <1>t, <3>1
  <2>6. failures' \in Nat
    <3>1. failures' \in {failures, failures + 1}
      BY <1>1 DEF Progress, Trouble, WithoutPermit, BeforeRequest, Settle, Cli, HttpSend, CanFail,
                  HttpReceive, McpSend, McpRead, HttpConnectFails, HttpFails, McpFails, Drop
    <3> QED BY <1>t, <3>1
  <2> QED BY <1>t, <2>1, <2>2, <2>3, <2>4, <2>5, <2>6 DEF RestInv
<1>2. ASSUME Elapse \/ Attach \/ Initialize \/ Serve \/ UNCHANGED vars PROVE RestInv'
  <2>1. /\ UNCHANGED <<circuit, kind, outcome, holder>> /\ elapsed' \in {elapsed, "yes"}
        /\ failures' \in {failures, failures + 1}
    BY <1>2 DEF Elapse, Attach, Initialize, Serve, CanFail, vars, wire
  <2> QED BY <1>t, <2>1 DEF RestInv
<1> QED BY <1>1, <1>2 DEF Next

\* The initial states.
LEMMA RestInit == Init => RestInv
BY MemoryAssumption DEF Init, RestInv

\* The types of the client's state; the failures a closed breaker counts stay
\* below its threshold (State::Closed of circuit.rs).
THEOREM TypeCorrect == Spec => []TypeOK
<1>1. BreakerInv /\ OnceInv /\ RestInv => TypeOK
  <2> SUFFICES ASSUME BreakerInv, OnceInv, RestInv PROVE TypeOK
    OBVIOUS
  <2>1. replies \in Seq([id: Nat, call: Calls, says: Verdicts])
    <3>1. Reply \subseteq [id: Nat, call: Calls, says: Verdicts]
      BY DEF Reply
    <3>2. replies \in Seq(Reply)
      BY DEF OnceInv
    <3>3. /\ \A i \in 1..Len(replies) : replies[i] \in Reply
          /\ Len(replies) \in Nat /\ replies = [i \in 1..Len(replies) |-> replies[i]]
      BY <3>2
    <3>4. [i \in 1..Len(replies) |-> replies[i]]
            \in Seq([id: Nat, call: Calls, says: Verdicts])
      BY <3>1, <3>3, IsASeq
    <3> QED BY <3>3, <3>4
  <2> QED BY <2>1 DEF BreakerInv, OnceInv, RestInv, TypeOK, Connection, Request
<1> QED BY BreakerInit, BreakerNext, OnceInit, OnceNext, RestInit, RestNext, <1>1, PTL DEF Spec

-----------------------------------------------------------------------------
(* A receipt means that the memory is stored *)

Sent == {requests[i] : i \in DOMAIN requests}
Answered == {replies[i] : i \in DOMAIN replies}

\* The ids of one connection are not reused: under the newest id there is, while
\* a call holds the connection, only what belongs to that call.
IdInv ==
    /\ Transport = "Http" => holder = NoCall
    /\ conn.next_id > 0
    /\ \A m \in Sent \cup Answered :
          /\ m.id < conn.next_id
          /\ holder # NoCall /\ m.id = conn.next_id - 1 => m.call = holder

\* A success that was answered, read or returned is of a memory that is stored.
StoredInv ==
    /\ \A m \in Answered : m.says = "ok" /\ kind[m.call] = "store" => commits[m.call] >= 1
    /\ \A c \in Calls : stage[c] = "settling" /\ verdict[c] = "ok" /\ kind[c] = "store"
                            => commits[c] >= 1
    /\ ReceiptIsStored

\* A request that is written joins what is sent, and a reply what is answered.
LEMMA AppendRange ==
    ASSUME NEW S, NEW s \in Seq(S), NEW m \in S
    PROVE  \A j \in DOMAIN Append(s, m) : Append(s, m)[j] \in {s[i] : i \in DOMAIN s} \cup {m}
<1>1. /\ Append(s, m) \in Seq(S) /\ Len(Append(s, m)) = Len(s) + 1
      /\ \A j \in 1..Len(s) : Append(s, m)[j] = s[j]
      /\ Append(s, m)[Len(s) + 1] = m
  BY AppendProperties
<1>2. DOMAIN s = 1..Len(s) /\ Len(s) \in Nat /\ DOMAIN Append(s, m) = 1..(Len(s) + 1)
  BY <1>1, LenProperties
<1> QED BY <1>1, <1>2

\* Nothing else is left when an element is taken out.
LEMMA RemoveRange ==
    ASSUME NEW S, NEW s \in Seq(S), NEW i \in DOMAIN s
    PROVE  \A j \in DOMAIN RemoveAt(s, i) : RemoveAt(s, i)[j] \in {s[k] : k \in DOMAIN s}
<1> DEFINE r == RemoveAt(s, i)
<1>1. /\ DOMAIN r = 1..(Len(s) - 1)
      /\ \A j \in 1..(Len(s) - 1) : r[j] = IF j < i THEN s[j] ELSE s[j + 1]
  BY WithoutElement
<1>2. DOMAIN s = 1..Len(s) /\ Len(s) \in Nat
  BY LenProperties
<1> HIDE DEF r
<1>3. \A j \in DOMAIN r : r[j] \in {s[k] : k \in DOMAIN s}
  BY <1>1, <1>2
<1> QED BY <1>3 DEF r

\* What the messages in the pipes are
LEMMA Messages ==
    ASSUME OnceInv
    PROVE  /\ \A m \in Sent : m.id \in Nat /\ m.call \in Calls
           /\ \A m \in Answered : m.id \in Nat /\ m.call \in Calls /\ m.says \in Verdicts
<1>1. requests \in Seq(Request) /\ replies \in Seq(Reply)
  BY DEF OnceInv
<1>2. \A i \in DOMAIN requests : requests[i] \in Request
  BY <1>1
<1>3. \A i \in DOMAIN replies : replies[i] \in Reply
  BY <1>1
<1> QED BY <1>2, <1>3 DEF Sent, Answered, Request, Reply

\* What a step does to the pipes and the connection.  Reading, timing out and
\* dropping a call only take away; sending adds a request under a new id, or over
\* HTTP one of nobody who waits for the connection; serving moves an id and its
\* call from the requests to the replies; attaching empties both pipes, and its
\* handshake takes an id of its own while nobody holds the connection.
LEMMA PipeCases ==
    ASSUME OnceInv, [Next]_vars
    PROVE  \/ /\ Sent' \subseteq Sent /\ Answered' \subseteq Answered
              /\ conn'.next_id = conn.next_id /\ holder' \in {holder, NoCall}
           \/ \E c \in Calls :
                /\ Sent' \subseteq Sent \cup {[id |-> 0, call |-> c]}
                /\ Answered' = Answered /\ conn' = conn /\ holder' = holder
                /\ Transport = "Http"
           \/ \E c \in Calls :
                /\ Sent' \subseteq Sent \cup {[id |-> conn.next_id, call |-> c]}
                /\ Answered' = Answered /\ conn'.next_id = conn.next_id + 1
                /\ holder' = c /\ Transport = "StdioMcp"
           \/ Sent' = {} /\ Answered' = {} /\ conn'.next_id = 1 /\ holder' = holder
           \/ /\ Sent' = Sent /\ Answered' = Answered /\ holder' = NoCall
              /\ conn'.next_id \in {conn.next_id, conn.next_id + 1}
           \/ /\ Serve /\ Sent' \subseteq Sent /\ conn' = conn /\ holder' = holder
              /\ \E m \in Sent, v \in Verdicts :
                   Answered' \subseteq Answered \cup {[id |-> m.id, call |-> m.call, says |-> v]}
<1>t. requests \in Seq(Request) /\ replies \in Seq(Reply) /\ conn \in Connection
  BY DEF OnceInv
<1>1. ASSUME NEW c \in Calls,
             \/ WithoutPermit(c) \/ BeforeRequest(c) \/ Settle(c) \/ Cli(c)
             \/ HttpConnectFails(c) \/ HttpFails(c)
      PROVE  Sent' = Sent /\ Answered' = Answered /\ conn' = conn /\ holder' = holder
  <2>1. UNCHANGED wire
    BY <1>1 DEF WithoutPermit, BeforeRequest, Settle, Cli, HttpConnectFails, HttpFails
  <2> QED BY <2>1 DEF wire, Sent, Answered
<1>2. ASSUME NEW c \in Calls, McpFails(c) \/ Drop(c)
      PROVE  /\ Sent' = Sent /\ Answered' = Answered
             /\ conn'.next_id = conn.next_id /\ holder' \in {holder, NoCall}
  <2>1. /\ UNCHANGED <<requests, replies>> /\ holder' \in {holder, NoCall}
        /\ conn' = conn \/ conn' = [conn EXCEPT !.state = "closed"]
    BY <1>2 DEF McpFails, McpBroken, Drop
  <2> QED BY <1>t, <2>1 DEF Sent, Answered, Connection
<1>3. ASSUME NEW c \in Calls, HttpReceive(c)
      PROVE  Sent' = Sent /\ Answered' \subseteq Answered /\ conn' = conn /\ holder' = holder
  <2>1. PICK i \in DOMAIN replies : replies' = RemoveAt(replies, i)
    BY <1>3 DEF HttpReceive
  <2>2. \A j \in DOMAIN replies' : replies'[j] \in {replies[k] : k \in DOMAIN replies}
    BY <1>t, <2>1, RemoveRange
  <2>3. UNCHANGED <<requests, conn, holder>>
    BY <1>3 DEF HttpReceive
  <2> QED BY <2>2, <2>3 DEF Sent, Answered
<1>4. ASSUME NEW c \in Calls, McpRead(c)
      PROVE  /\ Sent' = Sent /\ Answered' \subseteq Answered
             /\ conn'.next_id = conn.next_id /\ holder' = NoCall
  <2>1. /\ requests' = requests /\ holder' = NoCall
        /\ conn' = conn \/ conn' = [conn EXCEPT !.state = "closed"]
        /\ replies # <<>> /\ replies' = Tail(replies)
    BY <1>4 DEF McpRead, McpBroken
  <2>2. \A j \in DOMAIN replies' : j + 1 \in DOMAIN replies /\ replies'[j] = replies[j + 1]
    BY <1>t, <2>1, HeadTailProperties
  <2> QED BY <1>t, <2>1, <2>2 DEF Sent, Answered, Connection
<1>5. ASSUME NEW c \in Calls, NEW n \in Nat,
             requests' = Append(requests, [id |-> n, call |-> c])
      PROVE  Sent' \subseteq Sent \cup {[id |-> n, call |-> c]}
  <2>1. PICK m \in Request : m = [id |-> n, call |-> c]
    BY DEF Request
  <2>2. \A j \in DOMAIN requests' : requests'[j] \in {requests[i] : i \in DOMAIN requests} \cup {m}
    BY <1>t, <1>5, <2>1, AppendRange
  <2> QED BY <2>1, <2>2 DEF Sent
<1>6. ASSUME NEW c \in Calls, HttpSend(c)
      PROVE  /\ Sent' \subseteq Sent \cup {[id |-> 0, call |-> c]}
             /\ Answered' = Answered /\ conn' = conn /\ holder' = holder
             /\ Transport = "Http"
  BY <1>5, <1>6 DEF HttpSend, Answered
<1>7. ASSUME NEW c \in Calls, McpSend(c), conn.state # "closed"
      PROVE  /\ Sent' \subseteq Sent \cup {[id |-> conn.next_id, call |-> c]}
             /\ Answered' = Answered /\ conn'.next_id = conn.next_id + 1
             /\ holder' = c /\ Transport = "StdioMcp"
  <2>1. /\ requests' = Append(requests, [id |-> conn.next_id, call |-> c])
        /\ conn' = [conn EXCEPT !.next_id = @ + 1] /\ holder' = c /\ replies' = replies
        /\ Transport = "StdioMcp"
    BY <1>7 DEF McpSend
  <2>2. conn.next_id \in Nat /\ conn'.next_id = conn.next_id + 1
    BY <1>t, <2>1 DEF Connection
  <2> QED BY <1>5, <2>1, <2>2 DEF Answered
<1>8. ASSUME NEW c \in Calls, McpSend(c), conn.state = "closed"
      PROVE  Sent' = Sent /\ Answered' = Answered /\ conn' = conn /\ holder' = holder
  BY <1>8 DEF McpSend, Sent, Answered
<1>9. ASSUME Attach
      PROVE  Sent' = {} /\ Answered' = {} /\ conn'.next_id = 1 /\ holder' = holder
  BY <1>9 DEF Attach, Sent, Answered
<1>10. ASSUME Serve
       PROVE  /\ Sent' \subseteq Sent /\ conn' = conn /\ holder' = holder
              /\ \E m \in Sent, v \in Verdicts :
                   Answered' \subseteq Answered \cup {[id |-> m.id, call |-> m.call, says |-> v]}
  <2>1. PICK i \in DOMAIN requests :
          /\ requests' = RemoveAt(requests, i) /\ UNCHANGED <<conn, holder>>
          /\ \E v \in Verdicts \ {"unsent"} :
               replies' = Append(replies, [id |-> requests[i].id, call |-> requests[i].call,
                                           says |-> v])
    BY <1>10 DEF Serve, Verdicts
  <2>2. \A j \in DOMAIN requests' : requests'[j] \in {requests[k] : k \in DOMAIN requests}
    BY <1>t, <2>1, RemoveRange
  <2>3. requests[i] \in Sent
    BY DEF Sent
  <2>4. PICK v \in Verdicts \ {"unsent"} :
          replies' = Append(replies, [id |-> requests[i].id, call |-> requests[i].call,
                                      says |-> v])
    BY <2>1
  <2>5. PICK a \in Reply : a = [id |-> requests[i].id, call |-> requests[i].call, says |-> v]
    BY <2>3, Messages DEF Reply
  <2>6. \A j \in DOMAIN replies' : replies'[j] \in {replies[k] : k \in DOMAIN replies} \cup {a}
    BY <1>t, <2>4, <2>5, AppendRange
  <2>7. Answered' \subseteq
          Answered \cup {[id |-> requests[i].id, call |-> requests[i].call, says |-> v]}
    BY <2>5, <2>6 DEF Answered
  <2>8. Sent' \subseteq Sent
    BY <2>2 DEF Sent
  <2> QED BY <2>1, <2>3, <2>7, <2>8
<1>11. ASSUME Elapse \/ UNCHANGED vars
       PROVE  Sent' = Sent /\ Answered' = Answered /\ conn' = conn /\ holder' = holder
  BY <1>11 DEF Elapse, vars, wire, Sent, Answered
<1>12. ASSUME Initialize
       PROVE  /\ Sent' = Sent /\ Answered' = Answered /\ holder' = NoCall
              /\ conn'.next_id \in {conn.next_id, conn.next_id + 1}
  BY <1>t, <1>12 DEF Initialize, AttachFails, Sent, Answered, Connection
<1>p. CASE \E c \in Calls : Progress(c)
  BY <1>p, <1>1, <1>3, <1>4, <1>6, <1>7, <1>8 DEF Progress
<1>q. CASE \E c \in Calls : Trouble(c)
  BY <1>q, <1>1, <1>2 DEF Trouble
<1>r. CASE Elapse \/ UNCHANGED vars
  BY <1>r, <1>11
<1> QED BY <1>9, <1>10, <1>12, <1>p, <1>q, <1>r DEF Next

\* A new id is larger than every id in the pipes.
LEMMA IdNext == OnceInv /\ RestInv /\ IdInv /\ [Next]_vars => IdInv'
<1> SUFFICES ASSUME OnceInv, RestInv, IdInv, [Next]_vars PROVE IdInv'
  OBVIOUS
<1>t. /\ conn.next_id \in Nat /\ conn.next_id > 0 /\ (Transport = "Http" => holder = NoCall)
      /\ \A m \in Sent \cup Answered : m.id \in Nat /\ m.id < conn.next_id
      /\ \A m \in Sent \cup Answered :
            holder # NoCall /\ m.id = conn.next_id - 1 => m.call = holder
  BY Messages DEF OnceInv, IdInv, Connection
<1>1. CASE /\ Sent' \subseteq Sent /\ Answered' \subseteq Answered
           /\ conn'.next_id = conn.next_id /\ holder' \in {holder, NoCall}
  BY <1>t, <1>1 DEF IdInv
<1>2. ASSUME NEW c \in Calls,
             /\ Sent' \subseteq Sent \cup {[id |-> 0, call |-> c]}
             /\ Answered' = Answered /\ conn' = conn /\ holder' = holder
             /\ Transport = "Http"
      PROVE  IdInv'
  BY <1>t, <1>2 DEF IdInv
<1>3. ASSUME NEW c \in Calls,
             /\ Sent' \subseteq Sent \cup {[id |-> conn.next_id, call |-> c]}
             /\ Answered' = Answered /\ conn'.next_id = conn.next_id + 1
             /\ holder' = c /\ Transport = "StdioMcp"
      PROVE  IdInv'
  <2>1. ASSUME NEW m \in Sent' \cup Answered'
        PROVE  /\ m.id < conn'.next_id
               /\ m.id = conn'.next_id - 1 => m.call = c
    <3>1. CASE m \in Sent \cup Answered
      <4>1. m.id \in Nat /\ m.id < conn.next_id
        BY <1>t, <3>1
      <4> QED BY <1>t, <1>3, <4>1
    <3>2. CASE m = [id |-> conn.next_id, call |-> c]
      BY <1>t, <1>3, <3>2
    <3> QED BY <1>3, <2>1, <3>1, <3>2
  <2> QED BY <1>t, <1>3, <2>1 DEF IdInv
<1>4. CASE Sent' = {} /\ Answered' = {} /\ conn'.next_id = 1 /\ holder' = holder
  BY <1>t, <1>4 DEF IdInv
<1>5. CASE /\ Sent' \subseteq Sent /\ conn' = conn /\ holder' = holder
           /\ \E m \in Sent, v \in Verdicts :
                Answered' \subseteq Answered \cup {[id |-> m.id, call |-> m.call, says |-> v]}
  <2>1. PICK m \in Sent, v \in Verdicts :
          Answered' \subseteq Answered \cup {[id |-> m.id, call |-> m.call, says |-> v]}
    BY <1>5
  <2>2. ASSUME NEW a \in Sent' \cup Answered'
        PROVE  \E b \in Sent \cup Answered : a.id = b.id /\ a.call = b.call
    BY <1>5, <2>1, <2>2
  <2> QED BY <1>t, <1>5, <2>2 DEF IdInv
<1>6. CASE /\ Sent' = Sent /\ Answered' = Answered /\ holder' = NoCall
           /\ conn'.next_id \in {conn.next_id, conn.next_id + 1}
  BY <1>t, <1>6 DEF IdInv
<1> QED BY <1>1, <1>2, <1>3, <1>4, <1>5, <1>6, PipeCases

\* The initial states.
LEMMA IdInit == Init => IdInv
BY DEF Init, IdInv, Sent, Answered

\* ICM never forgets what it stored.
LEMMA CommitsGrow ==
    ASSUME OnceInv, [Next]_vars
    PROVE  \A c \in Calls : commits'[c] \in Nat /\ commits'[c] >= commits[c]
<1>t. commits \in [Calls -> Nat]
  BY DEF OnceInv
<1>1. commits' = commits \/ \E c : commits' = Committed(c)
  BY DEF Next, Progress, Trouble, WithoutPermit, BeforeRequest, Settle, Cli, HttpSend,
         HttpReceive, McpSend, McpRead, HttpConnectFails, HttpFails, McpFails, Drop, Serve,
         Elapse, Attach, Initialize, vars
<1> QED BY <1>t, <1>1 DEF Committed

\* An answer to be read that says "ok" is of a memory ICM has stored.
LEMMA AnswersNext ==
    ASSUME OnceInv, StoredInv, [Next]_vars
    PROVE  \A m \in Answered' :
             m.says = "ok" /\ kind'[m.call] = "store" => commits'[m.call] >= 1
<1>t. /\ commits \in [Calls -> Nat]
      /\ \A m \in Answered : m.call \in Calls
      /\ \A m \in Answered : m.says = "ok" /\ kind[m.call] = "store" => commits[m.call] >= 1
  BY Messages DEF OnceInv, StoredInv
<1>k. kind' = kind
  BY DEF Next, Progress, Trouble, WithoutPermit, BeforeRequest, Settle, Cli, HttpSend,
         HttpReceive, McpSend, McpRead, HttpConnectFails, HttpFails, McpFails, Drop, Serve,
         Elapse, Attach, Initialize, vars
<1>1. CASE Answered' \subseteq Answered
  BY <1>t, <1>k, <1>1, CommitsGrow
<1>2. CASE Serve
  <2>1. PICK i \in DOMAIN requests, v \in Verdicts :
          /\ replies' = Append(replies, [id |-> requests[i].id, call |-> requests[i].call,
                                         says |-> v])
          /\ v = "ok" => commits' = Committed(requests[i].call)
          /\ v # "unsent"
    BY <1>2 DEF Serve, Verdicts
  <2>2. requests[i].id \in Nat /\ requests[i].call \in Calls
    BY Messages DEF Sent
  <2>3. PICK a \in Reply : a = [id |-> requests[i].id, call |-> requests[i].call, says |-> v]
    BY <2>1, <2>2 DEF Reply
  <2>4. \A j \in DOMAIN replies' : replies'[j] \in {replies[k] : k \in DOMAIN replies} \cup {a}
    <3>1. replies \in Seq(Reply)
      BY DEF OnceInv
    <3> QED BY <2>1, <2>3, <3>1, AppendRange
  <2>5. Answered' \subseteq Answered \cup {a}
    BY <2>4 DEF Answered
  <2>6. a.says = "ok" /\ kind[a.call] = "store" => commits'[a.call] >= 1
    BY <1>t, <2>1, <2>2, <2>3 DEF Committed
  <2> QED BY <1>t, <1>k, <2>5, <2>6, CommitsGrow
<1> QED BY <1>1, <1>2, PipeCases

\* A call that reads "ok" reads it from an answer to its own request: over HTTP
\* the exchange is its own, over stdio the id is.
LEMMA ReadsItsOwn ==
    ASSUME OnceInv, RestInv, IdInv, NEW c \in Calls, HttpReceive(c) \/ McpRead(c)
    PROVE  \/ verdict' = [verdict EXCEPT ![c] = "ambiguous"]
           \/ \E m \in Answered : m.call = c /\ verdict' = [verdict EXCEPT ![c] = m.says]
<1>1. CASE HttpReceive(c)
  BY <1>1 DEF HttpReceive, Conclude, Answered
<1>2. CASE McpRead(c)
  <2>1. holder = c /\ holder # NoCall
    BY <1>2, MemoryAssumption DEF McpRead
  <2>2. Head(replies) \in Answered
    <3>1. replies \in Seq(Reply) /\ replies # <<>>
      BY <1>2 DEF McpRead, OnceInv
    <3> QED BY <3>1 DEF Answered
  <2>3. CASE Answers(c, Head(replies)) /\ Head(replies).says # "ambiguous"
    <3>1. Head(replies).call = c
      BY <2>1, <2>2, <2>3 DEF IdInv, Answers
    <3>2. verdict' = [verdict EXCEPT ![c] = Head(replies).says]
      BY <1>2, <2>3 DEF McpRead, Conclude
    <3> QED BY <2>2, <3>1, <3>2
  <2>4. CASE ~(Answers(c, Head(replies)) /\ Head(replies).says # "ambiguous")
    BY <1>2, <2>4 DEF McpRead, McpBroken, Conclude
  <2> QED BY <2>3, <2>4
<1> QED BY <1>1, <1>2

\* A call that is about to return a success has its memory stored.
LEMMA SettlingNext ==
    ASSUME BreakerInv, OnceInv, RestInv, IdInv, StoredInv, [Next]_vars, NEW c \in Calls,
           stage'[c] = "settling", verdict'[c] = "ok", kind'[c] = "store"
    PROVE  commits'[c] >= 1
<1>t. /\ stage \in [Calls -> Stages] /\ verdict \in [Calls -> Verdicts]
      /\ commits \in [Calls -> Nat] /\ commits'[c] \in Nat /\ commits'[c] >= commits[c]
  BY CommitsGrow DEF OnceInv
<1>1. CASE stage'[c] = stage[c] /\ verdict'[c] = verdict[c] /\ kind' = kind
  BY <1>t, <1>1 DEF StoredInv
<1>2. ASSUME NEW d \in Calls, HttpReceive(d) \/ McpRead(d) PROVE commits'[c] >= 1
  <2>1. kind' = kind /\ stage' = [stage EXCEPT ![d] = "settling"]
    BY <1>2 DEF HttpReceive, McpRead, McpBroken, Conclude
  <2>2. CASE d = c
    <3>1. \E m \in Answered : m.call = c /\ m.says = "ok"
      BY <1>t, <1>2, <2>2, ReadsItsOwn
    <3> QED BY <1>t, <2>1, <3>1 DEF StoredInv
  <2>3. CASE d # c
    <3>1. stage'[c] = stage[c] /\ verdict'[c] = verdict[c]
      BY <1>t, <1>2, <2>1, <2>3, ReadsItsOwn
    <3> QED BY <1>1, <2>1, <3>1
  <2> QED BY <2>2, <2>3
<1>3. ASSUME NEW d \in Calls,
             McpSend(d) \/ HttpConnectFails(d) \/ HttpFails(d) \/ McpFails(d)
      PROVE  commits'[c] >= 1
  <2>1. /\ kind' = kind
        /\ \E s \in {"sent", "settling"} : stage' = [stage EXCEPT ![d] = s]
        /\ \/ verdict' = verdict /\ stage' = [stage EXCEPT ![d] = "sent"]
           \/ \E v \in {"unsent", "ambiguous"} : verdict' = [verdict EXCEPT ![d] = v]
    BY <1>3 DEF McpSend, HttpConnectFails, HttpFails, McpFails, McpBroken, Conclude
  <2>2. d # c
    BY <1>t, <2>1
  <2>3. stage'[c] = stage[c] /\ verdict'[c] = verdict[c]
    BY <1>t, <2>1, <2>2
  <2> QED BY <1>1, <2>1, <2>3
<1>4. ASSUME NEW d \in Calls,
             \/ WithoutPermit(d) \/ BeforeRequest(d) \/ Settle(d) \/ Cli(d) \/ HttpSend(d)
             \/ Drop(d)
      PROVE  commits'[c] >= 1
  <2>1. /\ kind' = kind /\ verdict' = verdict
        /\ \E s \in {"permitted", "fallback", "done", "sent"} : stage' = [stage EXCEPT ![d] = s]
    BY <1>4 DEF WithoutPermit, BeforeRequest, Settle, Cli, HttpSend, Drop, FallBack, Finish
  <2>2. stage'[c] = stage[c]
    BY <1>t, <2>1
  <2> QED BY <1>1, <2>1, <2>2
<1>5. ASSUME Elapse \/ Attach \/ Initialize \/ Serve \/ UNCHANGED vars PROVE commits'[c] >= 1
  <2>1. UNCHANGED <<kind, stage, verdict>>
    BY <1>5 DEF Elapse, Attach, Initialize, Serve, vars
  <2> QED BY <1>1, <2>1
<1> QED BY <1>2, <1>3, <1>4, <1>5 DEF Next, Progress, Trouble

\* A call that has returned a success has its memory stored.
LEMMA ReceiptNext ==
    ASSUME OnceInv, RestInv, StoredInv, [Next]_vars, NEW c \in Calls,
           kind'[c] = "store", outcome'[c] = "ok"
    PROVE  commits'[c] >= 1
<1>t. /\ commits \in [Calls -> Nat] /\ commits'[c] \in Nat /\ commits'[c] >= commits[c]
      /\ outcome \in [Calls -> {"none", "ok", "error", "dropped"}]
  BY CommitsGrow DEF OnceInv, RestInv
<1>k. kind' = kind
  BY DEF Next, Progress, Trouble, WithoutPermit, BeforeRequest, Settle, Cli, HttpSend,
         HttpReceive, McpSend, McpRead, HttpConnectFails, HttpFails, McpFails, Drop, Serve,
         Elapse, Attach, Initialize, vars
<1>1. CASE outcome[c] = "ok"
  BY <1>t, <1>k, <1>1 DEF StoredInv, ReceiptIsStored
<1>2. ASSUME NEW d \in Calls, Progress(d) \/ Trouble(d), outcome[c] # "ok"
      PROVE  commits'[c] >= 1
  <2>1. /\ d = c
        /\ \/ Cli(c) /\ commits' = Committed(c)
           \/ Settle(c) /\ verdict[c] = "ok"
    BY <1>t, <1>2, OutcomeSteps
  <2>2. CASE commits' = Committed(c)
    BY <1>t, <1>k, <2>2 DEF Committed
  <2>3. CASE Settle(c) /\ verdict[c] = "ok"
    BY <1>t, <1>k, <2>3 DEF Settle, StoredInv
  <2> QED BY <2>1, <2>2, <2>3
<1>3. CASE Elapse \/ Attach \/ Initialize \/ Serve \/ UNCHANGED vars
  <2>1. outcome' = outcome
    BY <1>3 DEF Elapse, Attach, Initialize, Serve, vars
  <2> QED BY <1>1, <2>1
<1> QED BY <1>1, <1>2, <1>3 DEF Next

\* Every step.
LEMMA StoredNext ==
    BreakerInv /\ OnceInv /\ RestInv /\ IdInv /\ StoredInv /\ [Next]_vars => StoredInv'
BY AnswersNext, SettlingNext, ReceiptNext DEF StoredInv, ReceiptIsStored

\* The initial states.
LEMMA StoredInit == Init => StoredInv
BY DEF Init, StoredInv, ReceiptIsStored, Answered

\* A store that returned its receipt is in the memory: whatever replies of dropped
\* calls are waiting in the pipe, a call takes none of them for its own, and a
\* fallback that succeeds has stored (McpConnection::request, store, store_mcp).
THEOREM ReceiptsAreStored == Spec => []ReceiptIsStored
<1>1. StoredInv => ReceiptIsStored
  BY DEF StoredInv
<1> QED
  BY BreakerInit, BreakerNext, OnceInit, OnceNext, RestInit, RestNext, IdInit, IdNext,
     StoredInit, StoredNext, <1>1, PTL DEF Spec

=============================================================================
