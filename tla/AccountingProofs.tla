------------------------- MODULE AccountingProofs -------------------------
(***************************************************************************)
(* No accounting receipt is lost but by the rejection of its journal, no   *)
(* journal is rotated under an append, and the orphan pass takes nothing   *)
(* from a registered command, for any number of commands, processes,       *)
(* receipts and faults.                                                    *)
(***************************************************************************)
EXTENDS Accounting, TLAPS

-----------------------------------------------------------------------------
(* The inductive invariant *)

\* The part of TypeOK that the argument is about.
Shapes ==
    /\ corr \in [Processes -> Correlations \cup {None}]
    /\ journal \in [Correlations -> [Files -> SUBSET Receipts]]
    /\ rows \in [Receipts -> [Attributions -> Nat]]
    /\ batch \subseteq Receipts /\ left \subseteq Receipts
    /\ call \in [Correlations -> [pc : {"none", "run", "record", "ack", "over"},
                                  batch : SUBSET Receipts, left : SUBSET Receipts]]
    /\ written \subseteq Receipts /\ overwritten \subseteq Receipts
    /\ rejected \in [Correlations -> [Files -> SUBSET Receipts]]

\* A process has a correlation from its start on, and counts only what fits the bound.
Processing ==
    /\ pc \in [Processes -> {"idle", "running", "writing", "signalling", "exited"}]
    /\ next \in [Processes -> Nat]
    /\ \A p \in Processes : pc[p] = "idle" <=> corr[p] = None
    /\ \A p \in Processes : pc[p] = "writing" => next[p] \in 0 .. MaxReceipts - 1

\* A receipt anywhere on its way is one of a process that was started.
Held(r) ==
    \/ InJournal(r) \/ r \in batch \/ r \in written \/ HasRow(r)
    \/ \E c \in Correlations : r \in call[c].batch

\* So its key is settled: Start gives a process its correlation once.
Started == \A r \in Receipts : Held(r) => corr[r[1]] # None

\* What a drain handed out and is not left to record has its row: a batch that is
\* acknowledged with nothing left was recorded whole.
BatchRecorded ==
    /\ left \subseteq batch
    /\ \A r \in batch \ left : Recorded(r)

\* The same of the handler of a managed call, which acknowledges with nothing left.
CallBatchRecorded(c) ==
    /\ call[c].left \subseteq call[c].batch
    /\ \A r \in call[c].batch \ call[c].left : Recorded(r)
    /\ call[c].pc = "ack" => call[c].left = {}

CallsRecorded == \A c \in Correlations : CallBatchRecorded(c)

\* What every step preserves.
Inv ==
    /\ Shapes /\ Processing /\ Started /\ BatchRecorded /\ CallsRecorded
    /\ KeyKept

-----------------------------------------------------------------------------
(* The initial states *)

\* Before the first command nothing is written and nothing recorded.
LEMMA InvInit == Init => Inv
<1> SUFFICES ASSUME Init PROVE Inv
  OBVIOUS
<1> USE AccountingAssumption DEF Init
<1>1. Shapes
  BY DEF Shapes, NoCall, Files, Attributions
<1>2. Processing
  BY DEF Processing
<1>3. Started
  BY DEF Started, Held, InJournal, HasRow, NoCall, Files, Attributions
<1>4. BatchRecorded /\ CallsRecorded /\ KeyKept
  BY DEF BatchRecorded, CallsRecorded, CallBatchRecorded, KeyKept, NoCall
<1> QED
  BY <1>1, <1>2, <1>3, <1>4 DEF Inv

-----------------------------------------------------------------------------
(* What a step leaves alone *)

\* Rows stay, and so does the correlation of a process that has one.
Grows ==
    /\ \A r \in Receipts : HasRow(r) => HasRow(r)'
    /\ \A p \in Processes : corr[p] # None => corr'[p] = corr[p]

\* A key that has its row keeps it.
LEMMA RecordedStays ==
    ASSUME Inv, Grows, NEW r \in Receipts, Recorded(r) PROVE Recorded(r)'
<1>1. PICK q \in Receipts : Key(q) = Key(r) /\ HasRow(q)
  BY DEF Recorded
<1>2. corr[q[1]] # None /\ corr[r[1]] = corr[q[1]] /\ q[2] = r[2]
  BY <1>1 DEF Inv, Started, Held, Key
<1>3. r[1] \in Processes /\ q[1] \in Processes
  BY DEF Receipts
<1>4. corr'[q[1]] = corr'[r[1]]
  BY <1>2, <1>3 DEF Grows
<1> QED
  BY <1>1, <1>2, <1>4 DEF Grows, Recorded, Key

\* What the sweeper and the calls have in hand stays, or is what they just found in a
\* journal (or nothing).
SweepHolds ==
    \/ batch' = batch /\ left' = left
    \/ batch' = left' /\ batch' \subseteq {r \in Receipts : InJournal(r)}

\* The same of a call; it turns to its acknowledgement with nothing left.
CallHolds(c) ==
    /\ \/ call'[c].batch = call[c].batch /\ call'[c].left = call[c].left
       \/ /\ call'[c].batch = call'[c].left
          /\ call'[c].batch \subseteq {r \in Receipts : InJournal(r)}
    /\ call'[c].pc = "ack" => call'[c].left = {}

\* Receipts leave the journals only once they are recorded, or for the rejected ones.
JournalHolds ==
    /\ journal' \in [Correlations -> [Files -> SUBSET Receipts]]
    /\ rejected' \in [Correlations -> [Files -> SUBSET Receipts]] /\ overwritten' \subseteq Receipts
    /\ \A r \in Receipts : InJournal(r)' => InJournal(r)
    /\ \A r \in Receipts : InJournal(r) => InJournal(r)' \/ SetAside(r)' \/ Recorded(r)
    /\ \A r \in Receipts : SetAside(r) => SetAside(r)'

\* A step that moves receipts on without recording one.
Holds ==
    /\ JournalHolds /\ SweepHolds
    /\ call' \in [Correlations -> [pc : {"none", "run", "record", "ack", "over"},
                                   batch : SUBSET Receipts, left : SUBSET Receipts]]
    /\ \A c \in Correlations : CallHolds(c)
    /\ UNCHANGED <<corr, rows, written>>

\* Such a step loses nothing.
LEMMA HoldsStep ==
    ASSUME Inv, Holds, Processing' PROVE Inv'
<1>1. Shapes'
  BY DEF Inv, Shapes, Holds, JournalHolds, SweepHolds
<1>2. \A r \in Receipts : (Recorded(r)' <=> Recorded(r)) /\ (HasRow(r)' <=> HasRow(r))
  BY DEF Recorded, HasRow, Key, Holds
<1>3. Started'
  BY <1>2 DEF Inv, Started, Held, Holds, JournalHolds, SweepHolds, CallHolds
<1>4. BatchRecorded'
  BY <1>2 DEF Inv, BatchRecorded, Holds, SweepHolds, Shapes
<1>5. CallsRecorded'
  <2> SUFFICES ASSUME NEW c \in Correlations PROVE CallBatchRecorded(c)'
    BY DEF CallsRecorded
  <2>1. CallHolds(c) /\ CallBatchRecorded(c) /\ call'[c].batch \subseteq Receipts
    BY DEF Holds, Inv, CallsRecorded
  <2> QED
    BY <1>2, <2>1 DEF CallBatchRecorded, CallHolds
<1>6. KeyKept'
  BY <1>2 DEF Inv, KeyKept, Holds, JournalHolds, Shapes
<1> QED
  BY <1>1, <1>3, <1>4, <1>5, <1>6 DEF Inv

\* The journals after a step that touches none.
LEMMA SameJournals ==
    ASSUME Inv, UNCHANGED <<journal, rejected, overwritten>> PROVE JournalHolds
  BY DEF Inv, Shapes, JournalHolds, InJournal, SetAside, InRejected

\* A rotation moves receipts from one journal of a correlation to the other: it
\* overwrites nothing, because it finds nothing pending.
LEMMA RotateHolds ==
    ASSUME Inv, NEW c \in Correlations, Rotate(c), UNCHANGED <<rejected, overwritten>>
    PROVE  JournalHolds /\ Drained(c) \subseteq {r \in Receipts : InJournal(r)}
<1> USE DEF Inv, Shapes, Files
<1>1. Drained(c) \subseteq {r \in Receipts : InJournal(r)}
  BY DEF Drained, Source, InJournal
<1>2. CASE HasPending(c)
  BY <1>1, <1>2, SameJournals DEF Rotate
<1>3. CASE ~HasPending(c)
  <2>1. journal[c]["pending"] = {}
    BY <1>3 DEF HasPending, HasLines
  <2>2. journal' = [journal EXCEPT ![c] = [active |-> {}, pending |-> journal[c]["active"]]]
    BY <1>3 DEF Rotate
  <2>3. journal' \in [Correlations -> [Files -> SUBSET Receipts]]
    BY <2>2
  <2>4. \A r \in Receipts : InJournal(r)' <=> InJournal(r)
    BY <2>1, <2>2 DEF InJournal
  <2> QED
    BY <1>1, <2>3, <2>4 DEF JournalHolds, SetAside, InRejected
<1> QED
  BY <1>2, <1>3

\* What an acknowledgement takes from the pending journal was recorded.
LEMMA RemoveHolds ==
    ASSUME Inv, NEW c \in Correlations, journal' = [journal EXCEPT ![c]["pending"] = {}],
           UNCHANGED <<rejected, overwritten>>, \A r \in journal[c]["pending"] : Recorded(r)
    PROVE  JournalHolds
<1> DEFINE f == [journal[c] EXCEPT !["pending"] = {}]
<1>1. journal[c] \in [Files -> SUBSET Receipts] /\ Files = {"active", "pending"}
  BY DEF Inv, Shapes, Files
<1>2. journal' = [journal EXCEPT ![c] = f] /\ f \in [Files -> SUBSET Receipts]
  BY <1>1
<1>3. /\ journal' \in [Correlations -> [Files -> SUBSET Receipts]]
      /\ journal'[c] = f /\ \A d \in Correlations \ {c} : journal'[d] = journal[d]
  BY <1>2 DEF Inv, Shapes
<1>4. f["pending"] = {} /\ f["active"] = journal[c]["active"]
  BY <1>1
<1>5. \A r \in Receipts : InJournal(r)' => InJournal(r)
  BY <1>1, <1>3, <1>4 DEF InJournal
<1>6. \A r \in Receipts : InJournal(r) => InJournal(r)' \/ Recorded(r)
  BY <1>1, <1>3, <1>4 DEF InJournal
<1>7. \A r \in Receipts : SetAside(r) => SetAside(r)'
  BY DEF SetAside, InRejected
<1> QED
  BY <1>3, <1>5, <1>6, <1>7 DEF JournalHolds, Inv, Shapes

\* What a rejection does to the files of one command.
LEMMA RejectMoves ==
    ASSUME Inv, NEW c \in Correlations, NEW files \in SUBSET Files, Reject(c, files)
    PROVE  \E moved \in SUBSET Files :
              /\ journal' \in [Correlations -> [Files -> SUBSET Receipts]]
              /\ rejected' \in [Correlations -> [Files -> SUBSET Receipts]]
              /\ \A d \in Correlations \ {c} :
                    journal'[d] = journal[d] /\ rejected'[d] = rejected[d]
              /\ \A f \in Files : /\ journal'[c][f] = IF f \in moved THEN {} ELSE journal[c][f]
                                  /\ rejected'[c][f] = IF f \in moved THEN journal[c][f]
                                                       ELSE rejected[c][f]
              /\ overwritten' = overwritten \cup UNION {rejected[c][f] : f \in moved}
<1>1. PICK moved \in SUBSET Files :
          /\ rejected' = [rejected EXCEPT ![c] =
                             [f \in Files |-> IF f \in moved THEN journal[c][f] ELSE @[f]]]
          /\ overwritten' = overwritten \cup UNION {rejected[c][f] : f \in moved}
          /\ journal' = [journal EXCEPT ![c] = [f \in Files |-> IF f \in moved THEN {} ELSE @[f]]]
  BY DEF Reject
<1>2. journal[c] \in [Files -> SUBSET Receipts] /\ rejected[c] \in [Files -> SUBSET Receipts]
  BY DEF Inv, Shapes
<1>3. /\ journal' \in [Correlations -> [Files -> SUBSET Receipts]]
      /\ \A d \in Correlations \ {c} : journal'[d] = journal[d]
      /\ \A f \in Files : journal'[c][f] = IF f \in moved THEN {} ELSE journal[c][f]
  BY <1>1, <1>2 DEF Inv, Shapes
<1>4. /\ rejected' \in [Correlations -> [Files -> SUBSET Receipts]]
      /\ \A d \in Correlations \ {c} : rejected'[d] = rejected[d]
      /\ \A f \in Files :
            rejected'[c][f] = IF f \in moved THEN journal[c][f] ELSE rejected[c][f]
  BY <1>1, <1>2 DEF Inv, Shapes
<1> QED
  BY <1>1, <1>3, <1>4

\* A rejection keeps what it takes from the journals, and counts what it replaces among
\* the overwritten.
LEMMA RejectHolds ==
    ASSUME Inv, NEW c \in Correlations, NEW files \in SUBSET Files, Reject(c, files)
    PROVE  JournalHolds
<1>1. PICK moved \in SUBSET Files :
          /\ journal' \in [Correlations -> [Files -> SUBSET Receipts]]
          /\ rejected' \in [Correlations -> [Files -> SUBSET Receipts]]
          /\ \A d \in Correlations \ {c} : journal'[d] = journal[d] /\ rejected'[d] = rejected[d]
          /\ \A f \in Files : /\ journal'[c][f] = IF f \in moved THEN {} ELSE journal[c][f]
                              /\ rejected'[c][f] = IF f \in moved THEN journal[c][f]
                                                   ELSE rejected[c][f]
          /\ overwritten' = overwritten \cup UNION {rejected[c][f] : f \in moved}
  BY RejectMoves
<1>2. overwritten' \subseteq Receipts
  BY <1>1 DEF Inv, Shapes
<1>3. \A r \in Receipts : InJournal(r)' => InJournal(r)
  BY <1>1 DEF InJournal
<1>4. \A r \in Receipts : InJournal(r) => InJournal(r)' \/ InRejected(r)'
  BY <1>1 DEF InJournal, InRejected
<1>5. \A r \in Receipts : InRejected(r) => InRejected(r)' \/ r \in overwritten'
  BY <1>1 DEF InRejected
<1> QED
  BY <1>1, <1>2, <1>3, <1>4, <1>5 DEF JournalHolds, SetAside

-----------------------------------------------------------------------------
(* A row is inserted *)

\* One insert gives the key its row, and no other receipt one.
LEMMA InsertHolds ==
    ASSUME Inv, NEW r \in Receipts, NEW a \in Attributions, InsertReceipt(r, a),
           corr[r[1]] # None, UNCHANGED corr
    PROVE  /\ rows' \in [Receipts -> [Attributions -> Nat]] /\ Recorded(r)' /\ Grows
           /\ \A q \in Receipts : HasRow(q)' => HasRow(q) \/ q = r
<1> USE DEF Inv, Shapes
<1>1. CASE Recorded(r)
  BY <1>1 DEF InsertReceipt, Recorded, HasRow, Key, Grows
<1>2. CASE ~Recorded(r)
  <2>1. rows' = [rows EXCEPT ![r] = [rows[r] EXCEPT ![a] = @ + 1]]
    BY <1>2 DEF InsertReceipt
  <2>2. rows' \in [Receipts -> [Attributions -> Nat]]
    BY <2>1
  <2>3. rows'[r][a] = rows[r][a] + 1 /\ \A q \in Receipts, b \in Attributions :
            <<q, b>> # <<r, a>> => rows'[q][b] = rows[q][b]
    BY <2>1
  <2>5. HasRow(r)'
    BY <2>3 DEF HasRow
  <2>6. Recorded(r)'
    BY <2>5 DEF Recorded
  <2>7. Grows
    BY <2>3, <2>5 DEF Grows, HasRow
  <2>8. \A q \in Receipts : HasRow(q)' => HasRow(q) \/ q = r
    BY <2>3 DEF HasRow
  <2> QED
    BY <2>2, <2>6, <2>7, <2>8
<1> QED
  BY <1>1, <1>2

\* One receipt of a batch is recorded, by the sweeper or by a call.
LEMMA RecordStep ==
    ASSUME Inv, NEW r \in Receipts, NEW a \in Attributions, InsertReceipt(r, a), Held(r),
           UNCHANGED <<corr, pc, next, journal, written, rejected, overwritten>>,
           batch' = batch, left' = left \/ left' = left \ {r},
           call' \in [Correlations -> [pc : {"none", "run", "record", "ack", "over"},
                                      batch : SUBSET Receipts, left : SUBSET Receipts]],
           \A c \in Correlations :
               /\ call'[c].pc = call[c].pc /\ call'[c].batch = call[c].batch
               /\ call'[c].left = call[c].left \/ call'[c].left = call[c].left \ {r}
    PROVE  Inv'
<1>1. corr[r[1]] # None
  BY DEF Inv, Started
<1>2. /\ rows' \in [Receipts -> [Attributions -> Nat]] /\ Recorded(r)' /\ Grows
      /\ \A q \in Receipts : HasRow(q)' => HasRow(q) \/ q = r
  BY <1>1, InsertHolds
<1>3. \A q \in Receipts : Recorded(q) => Recorded(q)'
  BY <1>2, RecordedStays
<1>4. Shapes'
  BY <1>2 DEF Inv, Shapes
<1>5. Processing'
  BY DEF Inv, Processing
<1>6. Started'
  BY <1>1, <1>2 DEF Inv, Started, Held, InJournal
<1>7. BatchRecorded'
  BY <1>2, <1>3 DEF Inv, Shapes, BatchRecorded
<1>8. CallsRecorded'
  <2> SUFFICES ASSUME NEW c \in Correlations PROVE CallBatchRecorded(c)'
    BY DEF CallsRecorded
  <2>1. CallBatchRecorded(c) /\ call[c].batch \subseteq Receipts
    BY DEF Inv, CallsRecorded, Shapes
  <2> QED
    BY <1>2, <1>3, <2>1 DEF CallBatchRecorded
<1>9. KeyKept'
  BY <1>3 DEF Inv, Shapes, KeyKept, InJournal, SetAside, InRejected
<1> QED
  BY <1>2, <1>4, <1>5, <1>6, <1>7, <1>8, <1>9 DEF Inv

-----------------------------------------------------------------------------
(* The processes *)

\* A process that starts has written nothing: no key changes that anybody knows.
LEMMA StartStep ==
    ASSUME Inv, NEW p \in Processes, NEW c \in Correlations, Start(p, c) PROVE Inv'
<1>1. /\ pc[p] = "idle" /\ pc' = [pc EXCEPT ![p] = "running"] /\ corr' = [corr EXCEPT ![p] = c]
      /\ UNCHANGED <<next, journal, rows, call, written, rejected, overwritten, batch, left>>
  BY DEF Start, directory, sweeper
<1>2. corr[p] = None
  BY <1>1 DEF Inv, Processing
<1>3. Grows
  BY <1>1, <1>2 DEF Grows, HasRow, Inv, Shapes
<1>4. \A q \in Receipts : Recorded(q) => Recorded(q)'
  BY <1>3, RecordedStays
<1>5. Shapes'
  BY <1>1 DEF Inv, Shapes
<1>6. Processing'
  BY <1>1, AccountingAssumption DEF Inv, Processing, Shapes
<1>7. Started'
  <2> SUFFICES ASSUME NEW r \in Receipts, Held(r)' PROVE corr'[r[1]] # None
    BY DEF Started
  <2>1. Held(r) /\ r[1] \in Processes
    BY <1>1 DEF Held, InJournal, HasRow, Receipts
  <2> QED
    BY <1>1, <1>2, <2>1 DEF Inv, Started, Shapes
<1>8. BatchRecorded' /\ KeyKept'
  BY <1>1, <1>4 DEF Inv, Shapes, BatchRecorded, KeyKept, InJournal, SetAside, InRejected
<1>9. CallsRecorded'
  <2> SUFFICES ASSUME NEW d \in Correlations PROVE CallBatchRecorded(d)'
    BY DEF CallsRecorded
  <2>1. CallBatchRecorded(d) /\ call[d].batch \subseteq Receipts
    BY DEF Inv, CallsRecorded, Shapes
  <2> QED
    BY <1>1, <1>4, <2>1 DEF CallBatchRecorded
<1> QED
  BY <1>5, <1>6, <1>7, <1>8, <1>9 DEF Inv

\* An append adds its receipt to the journal of its command, or to a rejected one.
LEMMA WriteStep ==
    ASSUME Inv, NEW p \in Processes, WriteReceipt(p) PROVE Inv'
<1>1. /\ pc[p] = "writing" /\ pc' = [pc EXCEPT ![p] = "running"]
      /\ next' = [next EXCEPT ![p] = @ + 1] /\ written' = written \cup {<<p, next[p]>>}
      /\ UNCHANGED <<corr, rows, call, batch, left>>
  BY DEF WriteReceipt, EndAppend, sweeper
<1>2. PICK r \in Receipts : r = <<p, next[p]>>
  BY <1>1 DEF Inv, Processing, Receipts
<1>a. PICK c \in Correlations : c = corr[p]
  BY <1>1, AccountingAssumption DEF Inv, Processing, Shapes
<1>3. /\ \/ rejected' = [rejected EXCEPT ![c]["active"] = @ \cup {r}] /\ journal' = journal
         \/ journal' = [journal EXCEPT ![c]["active"] = @ \cup {r}] /\ rejected' = rejected
      /\ overwritten' = overwritten
  BY <1>2, <1>a DEF WriteReceipt, EndAppend
<1>b. /\ rejected' \in [Correlations -> [Files -> SUBSET Receipts]]
      /\ \A q \in Receipts : InRejected(q) => InRejected(q)'
      /\ journal' = journal => InRejected(r)' \/ rejected' = rejected
  <2>1. CASE rejected' = rejected
    BY <2>1 DEF Inv, Shapes, InRejected
  <2>2. CASE rejected' = [rejected EXCEPT ![c]["active"] = @ \cup {r}]
    <3> DEFINE f == [rejected[c] EXCEPT !["active"] = @ \cup {r}]
    <3>1. rejected[c] \in [Files -> SUBSET Receipts] /\ "active" \in Files
      BY DEF Inv, Shapes, Files
    <3>2. f \in [Files -> SUBSET Receipts] /\ f["active"] = rejected[c]["active"] \cup {r}
          /\ f["pending"] = rejected[c]["pending"]
      BY <3>1 DEF Files
    <3>3. rejected' = [rejected EXCEPT ![c] = f]
      BY <2>2
    <3>4. /\ rejected' \in [Correlations -> [Files -> SUBSET Receipts]]
          /\ rejected'[c] = f /\ \A d \in Correlations \ {c} : rejected'[d] = rejected[d]
      BY <3>2, <3>3 DEF Inv, Shapes
    <3>5. \A q \in Receipts : InRejected(q) => InRejected(q)'
      BY <3>2, <3>4 DEF InRejected, Files
    <3>6. InRejected(r)'
      BY <3>1, <3>2, <3>4 DEF InRejected
    <3> QED
      BY <3>4, <3>5, <3>6
  <2> QED
    BY <1>3, <2>1, <2>2
<1>4. /\ journal[c] \in [Files -> SUBSET Receipts]
      /\ journal[c]["active"] \cup {r} \in SUBSET Receipts
  <2>1. journal[c] \in [Files -> SUBSET Receipts] /\ "active" \in Files
    BY DEF Inv, Shapes, Files
  <2> QED
    BY <2>1
<1>5. /\ journal' \in [Correlations -> [Files -> SUBSET Receipts]]
      /\ \A q \in Receipts : InJournal(q) => InJournal(q)'
      /\ \A q \in Receipts : InJournal(q)' => InJournal(q) \/ q = r
      /\ InJournal(r)' \/ InRejected(r)'
  <2>1. CASE journal' = journal /\ InRejected(r)'
    BY <2>1 DEF Inv, Shapes, InJournal
  <2>2. CASE journal' = [journal EXCEPT ![c]["active"] = @ \cup {r}]
    <3> DEFINE f == [journal[c] EXCEPT !["active"] = @ \cup {r}]
    <3>1. f \in [Files -> SUBSET Receipts]
      BY <1>4
    <3>2. journal' = [journal EXCEPT ![c] = f]
      BY <2>2
    <3>3. journal' \in [Correlations -> [Files -> SUBSET Receipts]]
      BY <1>2, <3>1, <3>2 DEF Inv, Shapes
    <3>4. journal'[c] = f /\ \A d \in Correlations \ {c} : journal'[d] = journal[d]
      BY <1>2, <3>2 DEF Inv, Shapes
    <3>5. f["active"] = journal[c]["active"] \cup {r} /\ f["pending"] = journal[c]["pending"]
      BY <1>4 DEF Files
    <3>6. r \in journal'[c]["active"]
      BY <3>4, <3>5
    <3>7. InJournal(r)'
      BY <1>2, <3>6 DEF InJournal, Files
    <3>8. \A q \in Receipts : InJournal(q) => InJournal(q)'
      BY <1>2, <3>4, <3>5 DEF InJournal, Files
    <3>9. \A q \in Receipts : InJournal(q)' => InJournal(q) \/ q = r
      BY <1>2, <3>4, <3>5 DEF InJournal, Files
    <3> QED
      BY <3>3, <3>7, <3>8, <3>9
  <2>3. CASE rejected' = [rejected EXCEPT ![c]["active"] = @ \cup {r}] /\ journal' = journal
    <3>1. InRejected(r)' \/ rejected' = rejected
      BY <1>b, <2>3
    <3>2. rejected' = rejected => r \in rejected[c]["active"]
      BY <2>3 DEF Inv, Shapes, Files
    <3> QED
      BY <2>1, <2>3, <3>1, <3>2 DEF InRejected, Files
  <2> QED
    BY <1>3, <2>2, <2>3
<1>8. \A q \in Receipts : (Recorded(q)' <=> Recorded(q)) /\ (HasRow(q)' <=> HasRow(q))
  BY <1>1 DEF Recorded, HasRow, Key
<1>9. Shapes'
  BY <1>1, <1>2, <1>3, <1>5, <1>b DEF Inv, Shapes
<1>10. Processing'
  BY <1>1, AccountingAssumption DEF Inv, Processing, Shapes
<1>11. Started'
  <2>1. \A q \in Receipts : Held(q)' => Held(q) \/ q = r
    BY <1>1, <1>2, <1>5, <1>8 DEF Held
  <2>2. corr[r[1]] # None
    BY <1>2, <1>a, AccountingAssumption
  <2> QED
    BY <1>1, <2>1, <2>2 DEF Inv, Started
<1>12. BatchRecorded'
  BY <1>1, <1>8 DEF Inv, BatchRecorded, Shapes
<1>13. CallsRecorded'
  <2> SUFFICES ASSUME NEW d \in Correlations PROVE CallBatchRecorded(d)'
    BY DEF CallsRecorded
  <2>1. CallBatchRecorded(d) /\ call[d].batch \subseteq Receipts
    BY DEF Inv, CallsRecorded, Shapes
  <2> QED
    BY <1>1, <1>8, <2>1 DEF CallBatchRecorded
<1>14. KeyKept'
  <2> SUFFICES ASSUME NEW q \in written \cup {r}
               PROVE  InJournal(q)' \/ SetAside(q)' \/ Recorded(q)'
    BY <1>1, <1>2 DEF KeyKept
  <2>1. q \in Receipts
    BY <1>2 DEF Inv, Shapes
  <2> QED
    BY <1>3, <1>5, <1>8, <1>b, <2>1 DEF Inv, KeyKept, SetAside
<1> QED
  BY <1>9, <1>10, <1>11, <1>12, <1>13, <1>14 DEF Inv

-----------------------------------------------------------------------------
(* The sweeper's correlation *)

\* The sweeper works on a correlation whenever it is past choosing one.
Working == sweep \notin {"idle", "contexts", "orphans"} => cur \in Correlations

\* Every step of the sweeper that works on a command sets or keeps cur.
LEMMA WorkingStep == Working /\ [Next]_vars => Working'
<1> SUFFICES ASSUME Working, [Next]_vars PROVE Working'
  OBVIOUS
<1> USE DEF Working
<1>1. CASE Commands
  BY <1>1 DEF Commands, Register, RegisterGap, RunUnregistered, StartCall, Complete, Start,
    OpenJournal, WriteReceipt, Exit, AppendFails, Signal, KilledWriting, EndAppend, sweeper
<1>2. CASE SweepStep \/ RecordFails \/ RecordOrphanFails
  BY <1>2 DEF SweepStep, SweepStart, RetireCompleted, RetireAbandoned, KeepOpen, ContextVanished,
    ReadContext, DrainNothing, DrainReady, DrainRejects, RecordReceipt, RecordOrphan, Acknowledge,
    RecoverGap, Quarantine, ReportRejected, CloseRejected, FindOrphans, SkipOrphan, OrphanReady,
    OrphanRejects, ReportOrphan, RenameOrphan, AcknowledgeOrphan, CleanOrphan, SweepLocks,
    RecordFails, RecordOrphanFails, SkipContext, NextContext, TakeBatch, SweepEnds, OrphanDone
<1>3. CASE \E c \in Correlations : CallStep(c) \/ CallRecordFails(c) \/ CallDropped(c)
  BY <1>3 DEF CallStep, CallUnaccounted, CallReady, CallRecorded, CallAcknowledge, CallRecord,
    CallRecordFails, CallDropped, sweeper
<1>4. CASE Tick \/ Crash \/ \E b \in BOOLEAN : Restart(b)
  BY <1>4 DEF Tick, Crash, Restart, SweepEnds, sweeper
<1>5. CASE UNCHANGED vars
  BY <1>5 DEF vars, sweeper
<1> QED
  BY <1>1, <1>2, <1>3, <1>4, <1>5 DEF Next

-----------------------------------------------------------------------------
(* Every step *)

\* A step that moves no receipt; the sweeper may drop what it has in hand.
LEMMA QuietStep ==
    ASSUME Inv, UNCHANGED <<corr, pc, next, journal, rejected, overwritten, rows, written, call>>,
           (batch' = batch /\ left' = left) \/ (batch' = {} /\ left' = {})
    PROVE  Inv'
<1>1. JournalHolds
  BY SameJournals
<1>2. Processing'
  BY DEF Inv, Processing
<1>3. Holds
  BY <1>1 DEF Holds, SweepHolds, CallHolds, Inv, Shapes, CallsRecorded, CallBatchRecorded
<1> QED
  BY <1>2, <1>3, HoldsStep

\* A process moves on and no receipt with it.
LEMMA ProcessStep ==
    ASSUME Inv, Processing',
           UNCHANGED <<corr, journal, rejected, overwritten, rows, written, call, batch, left>>
    PROVE  Inv'
<1>1. JournalHolds
  BY SameJournals
<1>2. Holds
  BY <1>1 DEF Holds, SweepHolds, CallHolds, Inv, Shapes, CallsRecorded, CallBatchRecorded
<1> QED
  BY <1>2, HoldsStep

\* A step of the sweeper that may move receipts, and none of a call.
LEMMA SweepMoves ==
    ASSUME Inv, JournalHolds, SweepHolds, UNCHANGED <<corr, pc, next, rows, written, call>>
    PROVE  Inv'
<1>1. Processing'
  BY DEF Inv, Processing
<1>2. Holds
  BY DEF Holds, CallHolds, Inv, Shapes, CallsRecorded, CallBatchRecorded
<1> QED
  BY <1>1, <1>2, HoldsStep

\* A step of one call.
LEMMA CallMoves ==
    ASSUME Inv, JournalHolds, NEW c \in Correlations, NEW k, call' = [call EXCEPT ![c] = k],
           k \in [pc : {"none", "run", "record", "ack", "over"},
                  batch : SUBSET Receipts, left : SUBSET Receipts],
           \/ k.batch = call[c].batch /\ k.left = call[c].left
           \/ k.batch = k.left /\ k.batch \subseteq {r \in Receipts : InJournal(r)},
           k.pc = "ack" => k.left = {},
           UNCHANGED <<corr, pc, next, rows, written, batch, left>>
    PROVE  Inv'
<1>1. Processing'
  BY DEF Inv, Processing
<1>2. call'[c] = k /\ \A d \in Correlations \ {c} : call'[d] = call[d]
  BY DEF Inv, Shapes
<1>3. \A d \in Correlations : CallHolds(d)
  BY <1>2 DEF CallHolds, Inv, CallsRecorded, CallBatchRecorded
<1>4. Holds
  BY <1>3 DEF Holds, SweepHolds, Inv, Shapes
<1> QED
  BY <1>1, <1>4, HoldsStep

\* The commands and their engines.
LEMMA CommandsStep ==
    ASSUME Inv, Commands PROVE Inv'
<1> USE DEF directory, coverage, sweeper
<1>1. ASSUME NEW c \in Correlations,
             Register(c) \/ RegisterGap(c) \/ RunUnregistered(c) \/ Complete(c)
      PROVE  Inv'
  BY <1>1, QuietStep DEF Register, RegisterGap, RunUnregistered, Complete, producers
<1>2. ASSUME NEW c \in Correlations, StartCall(c) PROVE Inv'
  <2> DEFINE k == [call[c] EXCEPT !.pc = "run"]
  <2>1. /\ call' = [call EXCEPT ![c] = k]
        /\ call[c].batch \subseteq Receipts /\ call[c].left \subseteq Receipts
    BY <1>2 DEF StartCall, Inv, Shapes
  <2>2. JournalHolds
    BY <1>2, SameJournals DEF StartCall
  <2>3. /\ k \in [pc : {"none", "run", "record", "ack", "over"},
                  batch : SUBSET Receipts, left : SUBSET Receipts]
        /\ k.batch = call[c].batch /\ k.left = call[c].left /\ k.pc = "run"
    BY DEF Inv, Shapes
  <2> HIDE DEF k
  <2> QED
    BY <1>2, <2>1, <2>2, <2>3, CallMoves DEF StartCall
<1>3. ASSUME NEW p \in Processes, OpenJournal(p) PROVE Inv'
  <2>1. Processing'
    BY <1>3, AccountingAssumption DEF OpenJournal, Inv, Processing
  <2> QED
    BY <1>3, <2>1, ProcessStep DEF OpenJournal
<1>4. ASSUME NEW p \in Processes, NEW b \in BOOLEAN,
             AppendFails(p, b) \/ KilledWriting(p, b)
      PROVE  Inv'
  <2>1. EndAppend(p, "signalling") \/ EndAppend(p, "exited")
    BY <1>4 DEF AppendFails, KilledWriting
  <2>2. Processing'
    BY <2>1, AccountingAssumption DEF EndAppend, Inv, Processing
  <2> QED
    BY <1>4, <2>2, ProcessStep DEF AppendFails, KilledWriting, EndAppend
<1>5. ASSUME NEW p \in Processes, NEW b \in BOOLEAN, Signal(p, b) PROVE Inv'
  <2>1. Processing'
    BY <1>5 DEF Signal, Inv, Processing
  <2> QED
    BY <1>5, <2>1, ProcessStep DEF Signal
<1>6. ASSUME NEW p \in Processes, Exit(p) PROVE Inv'
  <2>1. Processing'
    BY <1>6 DEF Exit, Inv, Processing
  <2> QED
    BY <1>6, <2>1, ProcessStep DEF Exit
<1> QED
  BY <1>1, <1>2, <1>3, <1>4, <1>5, <1>6, StartStep, WriteStep DEF Commands

\* The sweeper.
LEMMA SweepsStep ==
    ASSUME Inv, Working, SweepStep \/ RecordFails \/ RecordOrphanFails PROVE Inv'
<1> USE DEF producers, directory, coverage, sweeper
<1>1. CASE SweepStart \/ FindOrphans \/ RecoverGap \/ ReportRejected \/ CloseRejected
  BY <1>1, QuietStep DEF SweepStart, FindOrphans, RecoverGap, ReportRejected, CloseRejected,
    NextContext
<1>2. ASSUME NEW c \in Correlations,
             \/ RetireCompleted(c) \/ RetireAbandoned(c) \/ KeepOpen(c)
             \/ ContextVanished(c) \/ ReadContext(c)
      PROVE  Inv'
  BY <1>2, QuietStep DEF RetireCompleted, RetireAbandoned, KeepOpen, ContextVanished, ReadContext,
    RetireContext, SkipContext, RemoveLocks
<1>3. CASE ReportOrphan \/ CleanOrphan \/ SweepLocks \/ RecordFails \/ RecordOrphanFails
  BY <1>3, QuietStep DEF ReportOrphan, CleanOrphan, SweepLocks, RecordFails, RecordOrphanFails,
    NextContext, OrphanDone, SweepEnds, RemoveLocks
<1>4. ASSUME NEW c \in Correlations, NEW to, TakeBatch(c, to) PROVE Inv'
  <2>1. JournalHolds /\ SweepHolds
    BY <1>4, RotateHolds DEF TakeBatch, SweepHolds
  <2> QED
    BY <1>4, <2>1, SweepMoves DEF TakeBatch
<1>5. CASE DrainReady \/ DrainRejects
  <2>1. cur \in Correlations
    BY <1>5 DEF Working, DrainReady, DrainRejects
  <2> QED
    BY <1>4, <1>5, <2>1 DEF DrainReady, DrainRejects
<1>6. ASSUME NEW c \in Correlations, OrphanReady(c) \/ OrphanRejects(c) PROVE Inv'
  BY <1>4, <1>6 DEF OrphanReady, OrphanRejects
<1>7. CASE DrainNothing
  <2>1. cur \in Correlations
    BY <1>7 DEF Working, DrainNothing
  <2>2. CASE completed
    BY <1>7, <2>2, QuietStep DEF DrainNothing, RetireContext, RemoveLocks, NextContext
  <2>3. CASE ~completed
    <3>1. JournalHolds
      BY <1>7, <2>1, <2>3, RotateHolds DEF DrainNothing
    <3>2. SweepHolds
      BY <1>7 DEF DrainNothing, NextContext, SweepHolds
    <3> QED
      BY <1>7, <2>3, <3>1, <3>2, SweepMoves DEF DrainNothing
  <2> QED
    BY <2>2, <2>3
<1>8. ASSUME NEW c \in Correlations, SkipOrphan(c) PROVE Inv'
  <2>1. JournalHolds /\ SweepHolds
    BY <1>8, RotateHolds DEF SkipOrphan, SweepHolds
  <2> QED
    BY <1>8, <2>1, SweepMoves DEF SkipOrphan
<1>9. ASSUME NEW r \in Receipts, RecordReceipt(r) \/ RecordOrphan(r) PROVE Inv'
  <2>1. PICK a \in Attributions : InsertReceipt(r, a)
    BY <1>9 DEF RecordReceipt, RecordOrphan, Attributions
  <2>2. Held(r)
    BY <1>9 DEF RecordReceipt, RecordOrphan, Held, Inv, BatchRecorded
  <2>3. /\ batch' = batch /\ left' = left \ {r}
        /\ UNCHANGED <<corr, pc, next, journal, written, rejected, overwritten, call>>
    BY <1>9 DEF RecordReceipt, RecordOrphan
  <2>4. call' \in [Correlations -> [pc : {"none", "run", "record", "ack", "over"},
                                   batch : SUBSET Receipts, left : SUBSET Receipts]]
    BY <2>3 DEF Inv, Shapes
  <2> QED
    BY <2>1, <2>2, <2>3, <2>4, RecordStep
<1>10. CASE Acknowledge \/ AcknowledgeOrphan
  <2>1. cur \in Correlations /\ left = {}
    BY <1>10 DEF Working, Acknowledge, AcknowledgeOrphan
  <2>2. CASE SameBatch(cur, batch)
    <3>1. /\ journal' = [journal EXCEPT ![cur]["pending"] = {}]
          /\ UNCHANGED <<corr, pc, next, rows, written, call, rejected, overwritten, batch, left>>
      BY <1>10, <2>2 DEF Acknowledge, AcknowledgeOrphan, Remove
    <3>2. \A r \in journal[cur]["pending"] : Recorded(r)
      BY <2>1, <2>2 DEF SameBatch, Inv, BatchRecorded
    <3>4. JournalHolds
      BY <2>1, <3>1, <3>2, RemoveHolds
    <3> QED
      BY <3>1, <3>4, SweepMoves DEF SweepHolds
  <2>3. CASE ~SameBatch(cur, batch)
    BY <1>10, <2>3, QuietStep DEF Acknowledge, AcknowledgeOrphan, NextContext, SweepEnds
  <2> QED
    BY <2>2, <2>3
<1>11. CASE Quarantine
  <2>1. cur \in Correlations
    BY <1>11 DEF Working, Quarantine
  <2>2. PICK files \in SUBSET Files : Reject(cur, files)
    BY <1>11 DEF Quarantine, Files
  <2>3. JournalHolds
    BY <2>1, <2>2, RejectHolds
  <2> QED
    BY <1>11, <2>3, SweepMoves DEF Quarantine, SweepHolds
<1>12. CASE RenameOrphan
  <2>1. cur \in Correlations
    BY <1>12 DEF Working, RenameOrphan
  <2>2. PICK files \in SUBSET Files : Reject(cur, files)
    BY <1>12 DEF RenameOrphan, Files
  <2>3. JournalHolds
    BY <2>1, <2>2, RejectHolds
  <2> QED
    BY <1>12, <2>3, SweepMoves DEF RenameOrphan, OrphanDone, SweepHolds
<1> QED
  BY <1>1, <1>2, <1>3, <1>5, <1>6, <1>7, <1>8, <1>9, <1>10, <1>11, <1>12 DEF SweepStep

\* The handlers of managed calls.
LEMMA CallsStep ==
    ASSUME Inv, NEW c \in Correlations, CallStep(c) \/ CallRecordFails(c) \/ CallDropped(c)
    PROVE  Inv'
<1> USE DEF producers, directory, coverage, sweeper
<1> DEFINE over == [NoCall EXCEPT !.pc = "over"]
<1>1. /\ over \in [pc : {"none", "run", "record", "ack", "over"},
                   batch : SUBSET Receipts, left : SUBSET Receipts]
      /\ over.batch = {} /\ over.left = {} /\ over.pc # "ack"
  BY DEF NoCall
<1>2. ASSUME CallOver(c), JournalHolds, UNCHANGED <<corr, pc, next, rows, written, batch, left>>
      PROVE  Inv'
  <2>1. call' = [call EXCEPT ![c] = over]
    BY <1>2 DEF CallOver
  <2> HIDE DEF over
  <2> QED
    BY <1>1, <1>2, <2>1, CallMoves
<1>3. CASE CallUnaccounted(c)
  <2>1. JournalHolds
    BY <1>3, RotateHolds DEF CallUnaccounted
  <2> QED
    BY <1>2, <1>3, <2>1 DEF CallUnaccounted
<1>4. CASE CallReady(c)
  <2> DEFINE k == [pc |-> "record", batch |-> Drained(c), left |-> Drained(c)]
  <2>1. JournalHolds /\ Drained(c) \subseteq {r \in Receipts : InJournal(r)}
    BY <1>4, RotateHolds DEF CallReady
  <2>2. /\ k \in [pc : {"none", "run", "record", "ack", "over"},
                  batch : SUBSET Receipts, left : SUBSET Receipts]
        /\ k.batch = k.left /\ k.batch \subseteq {r \in Receipts : InJournal(r)} /\ k.pc # "ack"
    BY <2>1
  <2>3. call' = [call EXCEPT ![c] = k]
    BY <1>4 DEF CallReady
  <2> HIDE DEF k
  <2> QED
    BY <1>4, <2>1, <2>2, <2>3, CallMoves DEF CallReady
<1>5. ASSUME NEW r \in Receipts, CallRecord(c, r) PROVE Inv'
  <2>1. /\ InsertReceipt(r, "call") /\ r \in call[c].left
        /\ call' = [call EXCEPT ![c].left = @ \ {r}]
        /\ UNCHANGED <<corr, pc, next, journal, written, rejected, overwritten, batch, left>>
    BY <1>5 DEF CallRecord
  <2>2. Held(r)
    BY <2>1 DEF Held, Inv, CallsRecorded, CallBatchRecorded
  <2> DEFINE k == [call[c] EXCEPT !.left = @ \ {r}]
  <2>3. /\ k \in [pc : {"none", "run", "record", "ack", "over"},
                  batch : SUBSET Receipts, left : SUBSET Receipts]
        /\ k.batch = call[c].batch /\ k.pc = call[c].pc /\ k.left = call[c].left \ {r}
    BY DEF Inv, Shapes
  <2>4. call' = [call EXCEPT ![c] = k]
    BY <2>1
  <2> HIDE DEF k
  <2>5. /\ call' \in [Correlations -> [pc : {"none", "run", "record", "ack", "over"},
                                      batch : SUBSET Receipts, left : SUBSET Receipts]]
        /\ \A d \in Correlations :
              /\ call'[d].pc = call[d].pc /\ call'[d].batch = call[d].batch
              /\ call'[d].left = call[d].left \/ call'[d].left = call[d].left \ {r}
    BY <2>3, <2>4 DEF Inv, Shapes
  <2>6. "call" \in Attributions
    BY DEF Attributions
  <2> QED
    BY <2>1, <2>2, <2>5, <2>6, RecordStep
<1>6. CASE CallRecordFails(c) \/ CallDropped(c)
  <2>1. JournalHolds
    BY <1>6, SameJournals DEF CallRecordFails, CallDropped
  <2> QED
    BY <1>2, <1>6, <2>1 DEF CallRecordFails, CallDropped
<1>7. CASE CallRecorded(c)
  <2>1. JournalHolds
    BY <1>7, SameJournals DEF CallRecorded
  <2>2. CASE CallOver(c)
    BY <1>2, <1>7, <2>1, <2>2 DEF CallRecorded
  <2>3. CASE call' = [call EXCEPT ![c].pc = "ack"]
    <3> DEFINE k == [call[c] EXCEPT !.pc = "ack"]
    <3>1. /\ k \in [pc : {"none", "run", "record", "ack", "over"},
                    batch : SUBSET Receipts, left : SUBSET Receipts]
          /\ k.batch = call[c].batch /\ k.left = call[c].left /\ call[c].left = {}
      BY <1>7 DEF Inv, Shapes, CallRecorded
    <3>2. call' = [call EXCEPT ![c] = k]
      BY <2>3
    <3> HIDE DEF k
    <3> QED
      BY <1>7, <2>1, <3>1, <3>2, CallMoves DEF CallRecorded
  <2> QED
    BY <1>7, <2>2, <2>3 DEF CallRecorded
<1>8. CASE CallAcknowledge(c)
  <2>1. JournalHolds
    <3>1. CASE SameBatch(c, call[c].batch)
      <4>1. \A r \in journal[c]["pending"] : Recorded(r)
        BY <1>8, <3>1 DEF CallAcknowledge, SameBatch, Inv, CallsRecorded, CallBatchRecorded
      <4>2. /\ journal' = [journal EXCEPT ![c]["pending"] = {}]
            /\ UNCHANGED <<rejected, overwritten>>
        BY <1>8, <3>1 DEF CallAcknowledge, Remove
      <4> QED
        BY <4>1, <4>2, RemoveHolds
    <3>2. CASE ~SameBatch(c, call[c].batch)
      BY <1>8, <3>2, SameJournals DEF CallAcknowledge
    <3> QED
      BY <3>1, <3>2
  <2> QED
    BY <1>2, <1>8, <2>1 DEF CallAcknowledge
<1> QED
  BY <1>3, <1>4, <1>5, <1>6, <1>7, <1>8 DEF CallStep

\* Every step.
LEMMA InvStep == Inv /\ Working /\ [Next]_vars => Inv'
<1> SUFFICES ASSUME Inv, Working, [Next]_vars PROVE Inv'
  OBVIOUS
<1> USE DEF producers, directory, coverage, sweeper
<1>1. CASE Tick \/ \E b \in BOOLEAN : Restart(b)
  BY <1>1, QuietStep DEF Tick, Restart
<1>2. CASE Crash
  <2>1. JournalHolds
    BY <1>2, SameJournals DEF Crash
  <2>2. SweepHolds
    BY <1>2 DEF Crash, SweepEnds, SweepHolds
  <2>3. /\ call' \in [Correlations -> [pc : {"none", "run", "record", "ack", "over"},
                                      batch : SUBSET Receipts, left : SUBSET Receipts]]
        /\ \A c \in Correlations : CallHolds(c)
    BY <1>2 DEF Crash, NoCall, CallHolds
  <2>4. Holds /\ Processing'
    BY <1>2, <2>1, <2>2, <2>3 DEF Holds, Crash, Inv, Processing
  <2> QED
    BY <2>4, HoldsStep
<1>3. CASE UNCHANGED vars
  BY <1>3, QuietStep DEF vars
<1> QED
  BY <1>1, <1>2, <1>3, CommandsStep, SweepsStep, CallsStep DEF Next

-----------------------------------------------------------------------------
(* The rejected orphans *)

\* The gap is recorded before the first file of an orphan is renamed, and once it was
\* open it is never forgotten.
RejectionReported ==
    orphan_rejected \/ sweep = "orphan_rename" => "orphan_receipt_rejected" \in gap \cup history

\* A gap of a rejected orphan is only ever closed into the history.
LEMMA GapsStay ==
    [Next]_vars /\ "orphan_receipt_rejected" \in gap \cup history
        => "orphan_receipt_rejected" \in gap' \cup history'
<1> SUFFICES ASSUME [Next]_vars, "orphan_receipt_rejected" \in gap \cup history
             PROVE  "orphan_receipt_rejected" \in gap' \cup history'
  OBVIOUS
<1>1. CASE Commands
  BY <1>1 DEF Commands, Register, RegisterGap, RunUnregistered, StartCall, Complete, Start,
    OpenJournal, WriteReceipt, Exit, AppendFails, Signal, KilledWriting, RecordMissing, Recover,
    Settled, coverage, EndAppend
<1>2. CASE SweepStep \/ RecordFails \/ RecordOrphanFails
  BY <1>2 DEF SweepStep, SweepStart, RetireCompleted, RetireAbandoned, KeepOpen, ContextVanished,
    ReadContext, DrainNothing, DrainReady, DrainRejects, RecordReceipt, RecordOrphan, Acknowledge,
    RecoverGap, Quarantine, ReportRejected, CloseRejected, FindOrphans, SkipOrphan, OrphanReady,
    OrphanRejects, ReportOrphan, RenameOrphan, AcknowledgeOrphan, CleanOrphan, SweepLocks,
    RecordFails, RecordOrphanFails, RecordMissing, Recover, Settled, coverage, TakeBatch
<1>3. CASE \E c \in Correlations : CallStep(c) \/ CallRecordFails(c) \/ CallDropped(c)
  BY <1>3 DEF CallStep, CallUnaccounted, CallReady, CallRecorded, CallAcknowledge, CallRecord,
    CallRecordFails, CallDropped, RecordMissing, Recover, Settled, coverage
<1>4. CASE Tick \/ Crash \/ \E b \in BOOLEAN : Restart(b)
  BY <1>4 DEF Tick, Crash, Restart, RecordMissing, Recover, Settled, coverage
<1>5. CASE UNCHANGED vars
  BY <1>5 DEF vars, RecordMissing, Recover, Settled, coverage
<1> QED
  BY <1>1, <1>2, <1>3, <1>4, <1>5 DEF Next

\* Every step.
LEMMA RejectionStep == RejectionReported /\ [Next]_vars => RejectionReported'
<1> SUFFICES ASSUME RejectionReported, [Next]_vars PROVE RejectionReported'
  OBVIOUS
<1>0. "orphan_receipt_rejected" \in gap \cup history
        => "orphan_receipt_rejected" \in gap' \cup history'
  BY GapsStay
<1> USE <1>0 DEF RejectionReported
<1>1. CASE Commands
  BY <1>1 DEF Commands, Register, RegisterGap, RunUnregistered, StartCall, Complete, Start,
    OpenJournal, WriteReceipt, Exit, AppendFails, Signal, KilledWriting, directory, sweeper,
    EndAppend
<1>2. CASE SweepStep \/ RecordFails \/ RecordOrphanFails
  BY <1>2 DEF SweepStep, SweepStart, RetireCompleted, RetireAbandoned, KeepOpen, ContextVanished,
    ReadContext, DrainNothing, DrainReady, DrainRejects, RecordReceipt, RecordOrphan, Acknowledge,
    RecoverGap, Quarantine, ReportRejected, CloseRejected, FindOrphans, SkipOrphan, OrphanReady,
    OrphanRejects, ReportOrphan, RenameOrphan, AcknowledgeOrphan, CleanOrphan, SweepLocks,
    RecordFails, RecordOrphanFails, directory, SkipContext, NextContext, TakeBatch, SweepEnds,
    OrphanDone, RetireContext, RecordMissing
<1>3. CASE \E c \in Correlations : CallStep(c) \/ CallRecordFails(c) \/ CallDropped(c)
  BY <1>3 DEF CallStep, CallUnaccounted, CallReady, CallRecorded, CallAcknowledge, CallRecord,
    CallRecordFails, CallDropped, directory, sweeper
<1>4. CASE Tick \/ Crash \/ \E b \in BOOLEAN : Restart(b)
  BY <1>4 DEF Tick, Crash, Restart, directory, sweeper, SweepEnds
<1>5. CASE UNCHANGED vars
  BY <1>5 DEF vars, directory, sweeper, SweepEnds
<1> QED
  BY <1>1, <1>2, <1>3, <1>4, <1>5 DEF Next

-----------------------------------------------------------------------------
(* The orphans *)

\* A command whose registration is gone, or that never had one, has none again.
Gone(c) == route[c] # "unused" /\ context[c] = "none"

\* What of a command is seen in the directory is of a command that was started.
Used ==
    /\ empty \subseteq Correlations /\ lock_file \subseteq Correlations
    /\ \A p \in Processes : corr[p] # None => route[corr[p]] # "unused"
    /\ \A c \in Correlations : c \in empty => route[c] # "unused"
    /\ \A c \in Correlations, f \in Files : <<c, f>> \in torn => route[c] # "unused"

\* A journal holds the receipts of its own correlation.
Owned ==
    \A c \in Correlations, r \in Receipts :
        r \in journal[c]["active"] \cup journal[c]["pending"] => corr[r[1]] = c

\* The listing is old, but what it says of an orphan stays true: the states of the orphan
\* pass.
OrphanPhase == {"orphans", "orphan_record", "orphan_clean", "orphan_report", "orphan_rename"}

\* The listing names commands and their journals.
Listed ==
    seen \in [contexts : SUBSET Correlations, journals : SUBSET Correlations,
              receipts : SUBSET (Correlations \X Files), locks : SUBSET Correlations]

\* A journal that was listed without a context belongs to a command that has none.
SeenGone ==
    \A c \in Correlations, f \in Files :
        <<c, f>> \in seen.receipts /\ c \notin seen.contexts => Gone(c)

\* So do the orphans that are left to this sweep,
TodoGone == sweep \in OrphanPhase => \A c \in Correlations : c \in todo => Gone(c)

\* and the one whose batch is being recorded; the batch is its own.
RecordGone == sweep = "orphan_record" => Gone(cur) /\ \A r \in left : corr[r[1]] = cur

\* What the orphan pass rests on.
Orphaned == Listed /\ SeenGone /\ TodoGone /\ RecordGone

\* The parts of TypeOK that the orphans need.
CommandsOK ==
    /\ context \in [Correlations -> {"none", "open", "completed"}]
    /\ route \in [Correlations -> {"unused", "registering", "registered", "bare", "managed"}]

\* Only Register writes a context, and only for a command that was not started.
LEMMA GoneStays ==
    ASSUME CommandsOK, [Next]_vars, NEW c \in Correlations, Gone(c) PROVE Gone(c)'
<1> USE DEF CommandsOK, Gone, producers, directory
<1>1. CASE Commands
  BY <1>1 DEF Commands, Register, RegisterGap, RunUnregistered, StartCall, Complete, Start,
    OpenJournal, WriteReceipt, Exit, AppendFails, Signal, KilledWriting, EndAppend
<1>2. CASE SweepStep \/ RecordFails \/ RecordOrphanFails
  BY <1>2 DEF SweepStep, SweepStart, RetireCompleted, RetireAbandoned, KeepOpen, ContextVanished,
    ReadContext, DrainNothing, DrainReady, DrainRejects, RecordReceipt, RecordOrphan, Acknowledge,
    RecoverGap, Quarantine, ReportRejected, CloseRejected, FindOrphans, SkipOrphan, OrphanReady,
    OrphanRejects, ReportOrphan, RenameOrphan, AcknowledgeOrphan, CleanOrphan, SweepLocks,
    RecordFails, RecordOrphanFails, SkipContext, TakeBatch, RetireContext
<1>3. CASE \E d \in Correlations : CallStep(d) \/ CallRecordFails(d) \/ CallDropped(d)
  BY <1>3 DEF CallStep, CallUnaccounted, CallReady, CallRecorded, CallAcknowledge, CallRecord,
    CallRecordFails, CallDropped
<1>4. CASE Tick \/ Crash \/ \E b \in BOOLEAN : Restart(b)
  BY <1>4 DEF Tick, Crash, Restart
<1>5. CASE UNCHANGED vars
  BY <1>5 DEF vars
<1> QED
  BY <1>1, <1>2, <1>3, <1>4, <1>5 DEF Next

\* Contexts and routes keep their types.
LEMMA CommandsOKStep == CommandsOK /\ [Next]_vars => CommandsOK'
<1> SUFFICES ASSUME CommandsOK, [Next]_vars PROVE CommandsOK'
  OBVIOUS
<1> USE DEF CommandsOK, producers, directory
<1>1. CASE Commands
  BY <1>1 DEF Commands, Register, RegisterGap, RunUnregistered, StartCall, Complete, Start,
    OpenJournal, WriteReceipt, Exit, AppendFails, Signal, KilledWriting, EndAppend
<1>2. CASE SweepStep \/ RecordFails \/ RecordOrphanFails
  BY <1>2 DEF SweepStep, SweepStart, RetireCompleted, RetireAbandoned, KeepOpen, ContextVanished,
    ReadContext, DrainNothing, DrainReady, DrainRejects, RecordReceipt, RecordOrphan, Acknowledge,
    RecoverGap, Quarantine, ReportRejected, CloseRejected, FindOrphans, SkipOrphan, OrphanReady,
    OrphanRejects, ReportOrphan, RenameOrphan, AcknowledgeOrphan, CleanOrphan, SweepLocks,
    RecordFails, RecordOrphanFails, SkipContext, TakeBatch, RetireContext
<1>3. CASE \E c \in Correlations : CallStep(c) \/ CallRecordFails(c) \/ CallDropped(c)
  BY <1>3 DEF CallStep, CallUnaccounted, CallReady, CallRecorded, CallAcknowledge, CallRecord,
    CallRecordFails, CallDropped
<1>4. CASE Tick \/ Crash \/ \E b \in BOOLEAN : Restart(b)
  BY <1>4 DEF Tick, Crash, Restart
<1>5. CASE UNCHANGED vars
  BY <1>5 DEF vars
<1> QED
  BY <1>1, <1>2, <1>3, <1>4, <1>5 DEF Next

\* Every step: only a started process writes to the directory.
LEMMA UsedStep == Inv /\ Working /\ CommandsOK /\ Used /\ [Next]_vars => Used'
<1> SUFFICES ASSUME Inv, Working, CommandsOK, Used, [Next]_vars PROVE Used'
  OBVIOUS
<1>0. \A p \in Processes : pc[p] # "idle" => corr[p] \in Correlations /\ route[corr[p]] # "unused"
  BY AccountingAssumption DEF Inv, Processing, Shapes, Used
<1> USE <1>0 DEF CommandsOK, Used, producers, directory
<1>1. CASE Commands
  <2>1. ASSUME NEW c \in Correlations,
               Register(c) \/ RegisterGap(c) \/ RunUnregistered(c) \/ StartCall(c) \/ Complete(c)
        PROVE  Used'
    BY <2>1 DEF Register, RegisterGap, RunUnregistered, StartCall, Complete, Inv, Shapes
  <2>2. ASSUME NEW p \in Processes, NEW c \in Correlations, Start(p, c) PROVE Used'
    BY <2>2 DEF Start, Inv, Shapes
  <2>3. ASSUME NEW p \in Processes, OpenJournal(p) \/ Exit(p) PROVE Used'
    BY <2>3 DEF OpenJournal, Exit
  <2>4. ASSUME NEW p \in Processes, WriteReceipt(p) PROVE Used'
    BY <2>4 DEF WriteReceipt, EndAppend
  <2>5. ASSUME NEW p \in Processes, NEW b \in BOOLEAN,
               AppendFails(p, b) \/ Signal(p, b) \/ KilledWriting(p, b)
        PROVE  Used'
    BY <2>5 DEF AppendFails, Signal, KilledWriting, EndAppend, TornLine
  <2> QED
    BY <1>1, <2>1, <2>2, <2>3, <2>4, <2>5 DEF Commands
<1>a. ASSUME NEW c \in Correlations, Rotate(c), UNCHANGED <<corr, route, empty>> PROVE Used'
  BY <1>a DEF Rotate, Renamed, Files
<1>2. CASE SweepStep \/ RecordFails \/ RecordOrphanFails
  <2>1. CASE DrainNothing \/ DrainReady \/ DrainRejects
    <3>1. cur \in Correlations
      BY <2>1 DEF Working, DrainNothing, DrainReady, DrainRejects
    <3> QED
      BY <1>a, <2>1, <3>1 DEF DrainNothing, DrainReady, DrainRejects, TakeBatch, RetireContext,
        RemoveLocks
  <2>2. ASSUME NEW c \in Correlations, SkipOrphan(c) \/ OrphanReady(c) \/ OrphanRejects(c)
        PROVE  Used'
    BY <1>a, <2>2 DEF SkipOrphan, OrphanReady, OrphanRejects, TakeBatch
  <2> QED
    BY <1>2, <2>1, <2>2 DEF SweepStep, SweepStart, RetireCompleted, RetireAbandoned, KeepOpen,
      ContextVanished, ReadContext, RecordReceipt, RecordOrphan, Acknowledge, RecoverGap,
      Quarantine, ReportRejected, CloseRejected, FindOrphans, ReportOrphan, RenameOrphan,
      AcknowledgeOrphan, CleanOrphan, SweepLocks, RecordFails, RecordOrphanFails, RetireContext,
      RemoveLocks, Reject
<1>3. ASSUME NEW c \in Correlations, CallStep(c) \/ CallRecordFails(c) \/ CallDropped(c)
      PROVE  Used'
  BY <1>a, <1>3 DEF CallStep, CallUnaccounted, CallReady, CallRecorded, CallAcknowledge,
    CallRecord, CallRecordFails, CallDropped
<1>4. CASE Tick \/ Crash \/ \E b \in BOOLEAN : Restart(b)
  BY <1>4 DEF Tick, Crash, Restart
<1>5. CASE UNCHANGED vars
  BY <1>5 DEF vars
<1> QED
  BY <1>1, <1>2, <1>3, <1>4, <1>5 DEF Next

\* Every step: an append goes to the journal of its own correlation, a rotation stays in it.
LEMMA OwnedStep == Inv /\ Working /\ Owned /\ [Next]_vars => Owned'
<1> SUFFICES ASSUME Inv, Working, Owned, [Next]_vars PROVE Owned'
  OBVIOUS
<1>0. \A c \in Correlations : /\ journal[c]["active"] \subseteq Receipts
                              /\ journal[c]["pending"] \subseteq Receipts
  BY DEF Inv, Shapes, Files
<1> USE DEF Owned, producers, directory
<1>1. CASE Commands
  <2>1. ASSUME NEW p \in Processes, NEW c \in Correlations, Start(p, c) PROVE Owned'
    <3>1. \A d \in Correlations, r \in Receipts :
            r \in journal[d]["active"] \cup journal[d]["pending"]
              => corr[r[1]] = d /\ r[1] # p /\ r[1] \in Processes
      BY <2>1, AccountingAssumption DEF Start, Inv, Processing, Receipts
    <3> QED
      BY <2>1, <3>1 DEF Start, Inv, Shapes
  <2>2. ASSUME NEW p \in Processes, WriteReceipt(p) PROVE Owned'
    <3>1. corr[p] \in Correlations /\ corr' = corr
      BY <2>2, AccountingAssumption DEF WriteReceipt, EndAppend, Inv, Processing, Shapes
    <3>2. \/ journal' = journal
          \/ journal' = [journal EXCEPT ![corr[p]]["active"] = @ \cup {<<p, next[p]>>}]
      BY <2>2 DEF WriteReceipt
    <3>3. CASE journal' = journal
      BY <3>1, <3>3
    <3>4. CASE journal' = [journal EXCEPT ![corr[p]]["active"] = @ \cup {<<p, next[p]>>}]
      <4>1. PICK c \in Correlations : c = corr[p]
        BY <3>1
      <4>2. journal[c] \in [Files -> SUBSET Receipts]
        BY DEF Inv, Shapes
      <4>3. /\ journal'[c]["active"] = journal[c]["active"] \cup {<<p, next[p]>>}
            /\ journal'[c]["pending"] = journal[c]["pending"]
            /\ \A d \in Correlations \ {c} : journal'[d] = journal[d]
        BY <3>4, <4>1, <4>2 DEF Inv, Shapes, Files
      <4> QED
        BY <3>1, <4>1, <4>3
    <3> QED
      BY <3>2, <3>3, <3>4
  <2> QED
    BY <1>1, <2>1, <2>2 DEF Commands, Register, RegisterGap, RunUnregistered, StartCall, Complete,
      OpenJournal, Exit, AppendFails, Signal, KilledWriting, EndAppend
<1>2. ASSUME NEW c \in Correlations, Rotate(c), corr' = corr PROVE Owned'
  <2>1. CASE HasPending(c)
    BY <1>2, <2>1 DEF Rotate
  <2>2. CASE ~HasPending(c)
    <3>1. journal' = [journal EXCEPT ![c] = [active |-> {}, pending |-> journal[c]["active"]]]
      BY <1>2, <2>2 DEF Rotate
    <3>2. /\ journal'[c]["active"] = {} /\ journal'[c]["pending"] = journal[c]["active"]
          /\ \A d \in Correlations \ {c} : journal'[d] = journal[d]
      BY <3>1 DEF Inv, Shapes
    <3> QED
      BY <1>2, <3>2
  <2> QED
    BY <2>1, <2>2
<1>3. ASSUME NEW c \in Correlations, Remove(c), corr' = corr PROVE Owned'
  BY <1>0, <1>3 DEF Remove, Inv, Shapes, Files
<1>4. CASE SweepStep \/ RecordFails \/ RecordOrphanFails
  <2>1. CASE DrainNothing \/ DrainReady \/ DrainRejects \/ Acknowledge \/ AcknowledgeOrphan
    <3>1. cur \in Correlations
      BY <2>1 DEF Working, DrainNothing, DrainReady, DrainRejects, Acknowledge, AcknowledgeOrphan
    <3> QED
      BY <1>2, <1>3, <2>1, <3>1 DEF DrainNothing, DrainReady, DrainRejects, Acknowledge,
        AcknowledgeOrphan, TakeBatch, RetireContext
  <2>2. ASSUME NEW c \in Correlations, SkipOrphan(c) \/ OrphanReady(c) \/ OrphanRejects(c)
        PROVE  Owned'
    BY <1>2, <2>2 DEF SkipOrphan, OrphanReady, OrphanRejects, TakeBatch
  <2>3. CASE Quarantine \/ RenameOrphan
    <3>1. cur \in Correlations /\ corr' = corr
      BY <2>3 DEF Working, Quarantine, RenameOrphan
    <3>2. PICK files \in SUBSET Files : Reject(cur, files)
      BY <2>3 DEF Quarantine, RenameOrphan, Files
    <3>3. /\ \A d \in Correlations \ {cur} : journal'[d] = journal[d]
          /\ \A f \in Files : journal'[cur][f] \subseteq journal[cur][f]
      BY <3>1, <3>2, RejectMoves
    <3> QED
      BY <3>1, <3>3 DEF Files
  <2> QED
    BY <1>4, <2>1, <2>2, <2>3 DEF SweepStep, SweepStart, RetireCompleted, RetireAbandoned,
      KeepOpen, ContextVanished, ReadContext, RecordReceipt, RecordOrphan, RecoverGap,
      ReportRejected, CloseRejected, FindOrphans, ReportOrphan, CleanOrphan, SweepLocks,
      RecordFails, RecordOrphanFails, RetireContext
<1>5. ASSUME NEW c \in Correlations, CallStep(c) \/ CallRecordFails(c) \/ CallDropped(c)
      PROVE  Owned'
  BY <1>2, <1>3, <1>5 DEF CallStep, CallUnaccounted, CallReady, CallRecorded, CallAcknowledge,
    CallRecord, CallRecordFails, CallDropped
<1>6. CASE Tick \/ Crash \/ \E b \in BOOLEAN : Restart(b)
  BY <1>6 DEF Tick, Crash, Restart
<1>7. CASE UNCHANGED vars
  BY <1>7 DEF vars
<1> QED
  BY <1>1, <1>4, <1>5, <1>6, <1>7 DEF Next

\* Every command with a line in a journal was started.
LEMMA LinesUsed ==
    ASSUME Inv, Used, Owned, NEW c \in Correlations, NEW f \in Files,
           HasLines(c, f) \/ c \in empty
    PROVE  route[c] # "unused"
<1>1. CASE c \in empty \/ <<c, f>> \in torn
  BY <1>1 DEF Used
<1>2. CASE journal[c][f] # {}
  <2>1. PICK r \in Receipts : r \in journal[c][f]
    BY <1>2 DEF Inv, Shapes
  <2>2. corr[r[1]] = c /\ corr[r[1]] # None /\ r[1] \in Processes
    BY <2>1, AccountingAssumption DEF Owned, Files, Receipts
  <2> QED
    BY <2>2 DEF Used
<1> QED
  BY <1>1, <1>2 DEF HasLines

\* A step that leaves the sweeper alone leaves its orphans alone.
LEMMA OrphanedRests ==
    ASSUME Inv, Working, CommandsOK, Orphaned, [Next]_vars, UNCHANGED sweeper,
           \A p \in Processes : corr[p] # None => corr'[p] = corr[p]
    PROVE  Orphaned'
<1>1. \A c \in Correlations : Gone(c) => Gone(c)'
  BY GoneStays
<1>2. \A r \in left : corr[r[1]] # None => corr'[r[1]] = corr[r[1]]
  BY DEF Inv, Shapes, Receipts
<1>3. sweep = "orphan_record" => cur \in Correlations /\ cur # None
  BY AccountingAssumption DEF Working
<1>4. Listed' /\ SeenGone'
  BY <1>1 DEF Orphaned, Listed, SeenGone, sweeper
<1>5. TodoGone'
  BY <1>1 DEF Orphaned, TodoGone, sweeper
<1>6. RecordGone'
  BY <1>1, <1>2, <1>3 DEF Orphaned, RecordGone, sweeper
<1> QED
  BY <1>4, <1>5, <1>6 DEF Orphaned

\* The listing says of a command without a context that it has none any more.
LEMMA ListingTrue ==
    ASSUME Inv, Used, Owned, CommandsOK, SweepStart PROVE Orphaned'
<1>1. Listed'
  BY DEF SweepStart, Listed, Used, Files
<1>2. UNCHANGED <<route, context>>
  BY DEF SweepStart, producers, directory
<1>3. SeenGone'
  <2> SUFFICES ASSUME NEW c \in Correlations, NEW f \in Files,
                      <<c, f>> \in seen'.receipts, c \notin seen'.contexts
               PROVE  Gone(c)'
    BY DEF SeenGone
  <2>1. HasLines(c, f) \/ c \in empty
    BY DEF SweepStart
  <2>2. context[c] = "none"
    BY DEF SweepStart
  <2> QED
    BY <1>2, <2>1, <2>2, LinesUsed DEF Gone
<1>4. TodoGone' /\ RecordGone'
  BY DEF SweepStart, TodoGone, RecordGone, OrphanPhase
<1> QED
  BY <1>1, <1>3, <1>4 DEF Orphaned

\* What is found among the orphans is of commands that the listing has no context of.
LEMMA FoundGone ==
    ASSUME CommandsOK, Orphaned, FindOrphans PROVE Orphaned'
<1>1. UNCHANGED <<route, context>> /\ sweep' = "orphans"
  BY DEF FindOrphans, producers, directory
<1>2. seen'.receipts = {x \in seen.receipts : Orphan(x[1], x[2])}
  BY DEF FindOrphans, Orphaned, Listed
<1>3. Listed' /\ seen'.contexts = seen.contexts
  <2> DEFINE found == {x \in seen.receipts : Orphan(x[1], x[2])}
  <2>1. found \subseteq Correlations \X Files
    BY DEF Orphaned, Listed
  <2>2. seen' = [seen EXCEPT !.receipts = found]
    BY DEF FindOrphans
  <2> HIDE DEF found
  <2> QED
    BY <2>1, <2>2 DEF Orphaned, Listed
<1>4. SeenGone'
  BY <1>1, <1>2, <1>3 DEF Orphaned, SeenGone, Gone
<1>5. ASSUME NEW c \in Correlations, c \in todo' PROVE Gone(c)
  <2>1. PICK x \in seen'.receipts : c = x[1]
    BY <1>5 DEF FindOrphans
  <2>2. x \in seen.receipts /\ Orphan(x[1], x[2])
    BY <1>2, <2>1
  <2>3. x \in Correlations \X Files
    BY <2>2 DEF Orphaned, Listed
  <2>4. c \notin seen.contexts /\ <<c, x[2]>> \in seen.receipts /\ x[2] \in Files
    BY <2>1, <2>2, <2>3 DEF Orphan
  <2> QED
    BY <2>4 DEF Orphaned, SeenGone
<1>6. TodoGone' /\ RecordGone'
  BY <1>1, <1>5 DEF TodoGone, RecordGone, Gone
<1> QED
  BY <1>3, <1>4, <1>6 DEF Orphaned

\* The batch of an orphan holds the receipts of its own command.
LEMMA DrainedOwned ==
    ASSUME Inv, Owned, NEW c \in Correlations PROVE \A r \in Drained(c) : corr[r[1]] = c
<1>1. Source(c) \in Files /\ Drained(c) \subseteq Receipts
  BY DEF Source, Files, Drained, Inv, Shapes
<1> QED
  BY <1>1 DEF Owned, Drained, Files

\* What the sweep goes on with it had in its listing, or it just drained it.
LEMMA OrphanedStep ==
    Inv /\ Working /\ CommandsOK /\ Used /\ Owned /\ Orphaned /\ [Next]_vars => Orphaned'
<1> SUFFICES ASSUME Inv, Working, CommandsOK, Used, Owned, Orphaned, [Next]_vars
             PROVE  Orphaned'
  OBVIOUS
<1>0. \A c \in Correlations : Gone(c) => Gone(c)'
  BY GoneStays
<1>1. CASE Commands
  <2>1. UNCHANGED sweeper
    BY <1>1 DEF Commands, Register, RegisterGap, RunUnregistered, StartCall, Complete, Start,
      OpenJournal, WriteReceipt, Exit, AppendFails, Signal, KilledWriting, EndAppend
  <2>2. \A p \in Processes : corr[p] # None => corr'[p] = corr[p]
    BY <1>1 DEF Commands, Register, RegisterGap, RunUnregistered, StartCall, Complete, Start,
      OpenJournal, WriteReceipt, Exit, AppendFails, Signal, KilledWriting, EndAppend, producers,
      Inv, Processing, Shapes
  <2> QED
    BY <2>1, <2>2, OrphanedRests
<1>2. CASE SweepStep \/ RecordFails \/ RecordOrphanFails
  <2>1. CASE SweepStart
    BY <2>1, ListingTrue
  <2>2. CASE FindOrphans
    BY <2>2, FoundGone
  <2>3. ASSUME NEW c \in Correlations, OrphanReady(c) PROVE Orphaned'
    <3>1. c \in todo /\ sweep = "orphans" /\ left' = Drained(c) /\ cur' = c
          /\ todo' = todo \ {c} /\ UNCHANGED <<seen, corr>>
      BY <2>3 DEF OrphanReady, TakeBatch, producers
    <3>2. Gone(c)'
      BY <1>0, <3>1 DEF Orphaned, TodoGone, OrphanPhase
    <3>3. \A r \in left' : corr'[r[1]] = c
      BY <3>1, DrainedOwned
    <3>4. Listed' /\ SeenGone' /\ TodoGone'
      BY <1>0, <3>1 DEF Orphaned, Listed, SeenGone, TodoGone, OrphanPhase
    <3> QED
      BY <3>1, <3>2, <3>3, <3>4 DEF Orphaned, RecordGone
  <2>4. ASSUME NEW r \in Receipts, RecordOrphan(r) PROVE Orphaned'
    <3>1. left' \subseteq left /\ UNCHANGED <<seen, todo, sweep, cur, corr>>
      BY <2>4 DEF RecordOrphan, producers
    <3>2. cur \in Correlations
      BY <2>4 DEF RecordOrphan, Working
    <3> QED
      BY <1>0, <3>1, <3>2 DEF Orphaned, Listed, SeenGone, TodoGone, RecordGone
  <2>5. CASE \/ RecordFails \/ RecordOrphanFails \/ AcknowledgeOrphan \/ CleanOrphan \/ SweepLocks
             \/ ReportOrphan \/ RenameOrphan
             \/ \E c \in Correlations : SkipOrphan(c) \/ OrphanRejects(c)
    <3>1. sweep' # "orphan_record"
      BY <2>5 DEF RecordFails, RecordOrphanFails, AcknowledgeOrphan, CleanOrphan, SweepLocks,
        ReportOrphan, RenameOrphan, SkipOrphan, OrphanRejects, TakeBatch, SweepEnds, OrphanDone,
        NextContext
    <3>2. seen' = seen \/ seen' = Nothing
      BY <2>5 DEF RecordFails, RecordOrphanFails, AcknowledgeOrphan, CleanOrphan, SweepLocks,
        ReportOrphan, RenameOrphan, SkipOrphan, OrphanRejects, TakeBatch, SweepEnds, OrphanDone,
        NextContext
    <3>3. sweep' \in OrphanPhase => sweep \in OrphanPhase /\ todo' \subseteq todo
      BY <2>5 DEF RecordFails, RecordOrphanFails, AcknowledgeOrphan, CleanOrphan, SweepLocks,
        ReportOrphan, RenameOrphan, SkipOrphan, OrphanRejects, TakeBatch, SweepEnds, OrphanDone,
        NextContext, OrphanPhase
    <3>4. Listed' /\ SeenGone'
      BY <1>0, <3>2 DEF Orphaned, Listed, SeenGone, Nothing
    <3> QED
      BY <1>0, <3>1, <3>3, <3>4 DEF Orphaned, TodoGone, RecordGone
  <2>6. CASE \/ DrainNothing \/ DrainReady \/ DrainRejects \/ Acknowledge \/ RecoverGap
             \/ Quarantine \/ ReportRejected \/ CloseRejected
             \/ \E r \in Receipts : RecordReceipt(r)
             \/ \E c \in Correlations : RetireCompleted(c) \/ RetireAbandoned(c) \/ KeepOpen(c)
                                        \/ ContextVanished(c) \/ ReadContext(c)
    <3>1. seen' = seen /\ sweep' \notin OrphanPhase
      BY <2>6 DEF DrainNothing, DrainReady, DrainRejects, Acknowledge, RecoverGap, Quarantine,
        ReportRejected, CloseRejected, RecordReceipt, RetireCompleted, RetireAbandoned, KeepOpen,
        ContextVanished, ReadContext, SkipContext, Quiet, NextContext, TakeBatch, OrphanPhase
    <3>2. Listed' /\ SeenGone'
      BY <1>0, <3>1 DEF Orphaned, Listed, SeenGone
    <3> QED
      BY <3>1, <3>2 DEF Orphaned, TodoGone, RecordGone, OrphanPhase
  <2> QED
    BY <1>2, <2>1, <2>2, <2>3, <2>4, <2>5, <2>6 DEF SweepStep
<1>3. ASSUME NEW c \in Correlations, CallStep(c) \/ CallRecordFails(c) \/ CallDropped(c)
      PROVE  Orphaned'
  <2>1. UNCHANGED <<corr, sweeper>>
    BY <1>3 DEF CallStep, CallUnaccounted, CallReady, CallRecorded, CallAcknowledge, CallRecord,
      CallRecordFails, CallDropped, producers
  <2> QED
    BY <2>1, OrphanedRests
<1>4. CASE Tick \/ \E b \in BOOLEAN : Restart(b)
  <2>1. UNCHANGED <<corr, sweeper>>
    BY <1>4 DEF Tick, Restart, producers
  <2> QED
    BY <2>1, OrphanedRests
<1>5. CASE Crash
  BY <1>5 DEF Crash, SweepEnds, Orphaned, Listed, SeenGone, TodoGone, RecordGone, OrphanPhase,
    Nothing
<1>6. CASE UNCHANGED vars
  <2>1. UNCHANGED <<corr, sweeper>>
    BY <1>6 DEF vars, producers
  <2> QED
    BY <2>1, OrphanedRests
<1> QED
  BY <1>1, <1>2, <1>3, <1>4, <1>5, <1>6 DEF Next

\* Only the orphan pass adds a row without attribution.
LEMMA UnattributedByOrphan ==
    ASSUME Inv, [Next]_vars, NEW r \in Receipts,
           rows'[r]["unattributed"] # rows[r]["unattributed"]
    PROVE  sweep = "orphan_record" /\ r \in left
<1>t. /\ rows \in [Receipts -> [Attributions -> Nat]]
      /\ "registration" \in Attributions /\ "call" \in Attributions
      /\ "unattributed" \in Attributions
  BY DEF Inv, Shapes, Attributions
<1>i. ASSUME NEW q \in Receipts, NEW a \in Attributions, InsertReceipt(q, a)
      PROVE  q = r /\ a = "unattributed"
  <2>1. rows' = [rows EXCEPT ![q][a] = @ + 1]
    BY <1>i DEF InsertReceipt
  <2> QED
    BY <1>t, <2>1
<1>1. ASSUME NEW q \in Receipts, InsertReceipt(q, "registration") \/ InsertReceipt(q, "call")
      PROVE  FALSE
  BY <1>i, <1>t, <1>1
<1>2. ASSUME NEW q \in Receipts, InsertReceipt(q, "unattributed"), q # r PROVE FALSE
  BY <1>i, <1>t, <1>2
<1>3. CASE Commands
  BY <1>3 DEF Commands, Register, RegisterGap, RunUnregistered, StartCall, Complete, Start,
    OpenJournal, WriteReceipt, Exit, AppendFails, Signal, KilledWriting, EndAppend
<1>4. CASE SweepStep \/ RecordFails \/ RecordOrphanFails
  BY <1>1, <1>2, <1>4 DEF SweepStep, SweepStart, RetireCompleted, RetireAbandoned, KeepOpen,
    ContextVanished, ReadContext, DrainNothing, DrainReady, DrainRejects, RecordReceipt,
    RecordOrphan, Acknowledge, RecoverGap, Quarantine, ReportRejected, CloseRejected, FindOrphans,
    SkipOrphan, OrphanReady, OrphanRejects, ReportOrphan, RenameOrphan, AcknowledgeOrphan,
    CleanOrphan, SweepLocks, RecordFails, RecordOrphanFails, SkipContext, TakeBatch
<1>5. CASE \E c \in Correlations : CallStep(c) \/ CallRecordFails(c) \/ CallDropped(c)
  BY <1>1, <1>5 DEF CallStep, CallUnaccounted, CallReady, CallRecorded, CallAcknowledge,
    CallRecord, CallRecordFails, CallDropped
<1>6. CASE Tick \/ Crash \/ \E b \in BOOLEAN : Restart(b)
  BY <1>6 DEF Tick, Crash, Restart
<1>7. CASE UNCHANGED vars
  BY <1>7 DEF vars
<1> QED
  BY <1>3, <1>4, <1>5, <1>6, <1>7 DEF Next

-----------------------------------------------------------------------------
(* The rest of the type invariant *)

\* The sweeper's place and its lists.
SweepTypes ==
    /\ sweep \in {"idle", "contexts", "drain", "record", "recover", "rejected", "report", "close",
                  "orphans", "orphan_record", "orphan_clean", "orphan_report", "orphan_rename"}
    /\ todo \subseteq Correlations /\ cur \in Correlations \cup {None}
    /\ completed \in BOOLEAN

\* The sweeper names nothing but what it listed.
LEMMA SweepTypesStep == SweepTypes /\ Listed /\ Listed' /\ [Next]_vars => SweepTypes'
<1> SUFFICES ASSUME SweepTypes, Listed, Listed', [Next]_vars PROVE SweepTypes'
  OBVIOUS
<1>u. UNCHANGED sweeper => SweepTypes'
  BY DEF SweepTypes, sweeper
<1>e. SweepEnds => SweepTypes'
  BY DEF SweepTypes, SweepEnds
<1>1. CASE Commands
  BY <1>u, <1>1 DEF Commands, Register, RegisterGap, RunUnregistered, StartCall, Complete, Start,
    OpenJournal, WriteReceipt, Exit, AppendFails, Signal, KilledWriting, EndAppend
<1>2. CASE SweepStep \/ RecordFails \/ RecordOrphanFails
  <2>1. completed' \in BOOLEAN
    <3>1. \/ completed' = completed \/ completed' = FALSE
          \/ \E c : completed' = (context[c] = "completed")
      BY <1>2 DEF SweepStep, SweepStart, RetireCompleted, RetireAbandoned, KeepOpen,
        ContextVanished, ReadContext, DrainNothing, DrainReady, DrainRejects, RecordReceipt,
        RecordOrphan, Acknowledge, RecoverGap, Quarantine, ReportRejected, CloseRejected,
        FindOrphans, SkipOrphan, OrphanReady, OrphanRejects, ReportOrphan, RenameOrphan,
        AcknowledgeOrphan, CleanOrphan, SweepLocks, RecordFails, RecordOrphanFails, SkipContext,
        NextContext, TakeBatch, SweepEnds, OrphanDone
    <3> QED
      BY <3>1, Zenon DEF SweepTypes
  <2>2. cur' \in Correlations \cup {None} /\ todo' \subseteq Correlations
    <3>1. /\ cur' \in {cur, None} \/ \E c \in Correlations : cur' = c
          /\ \/ todo' \subseteq todo \/ todo' = seen'.contexts
             \/ todo' = {x[1] : x \in seen'.receipts}
      BY <1>2 DEF SweepStep, SweepStart, RetireCompleted, RetireAbandoned, KeepOpen,
        ContextVanished, ReadContext, DrainNothing, DrainReady, DrainRejects, RecordReceipt,
        RecordOrphan, Acknowledge, RecoverGap, Quarantine, ReportRejected, CloseRejected,
        FindOrphans, SkipOrphan, OrphanReady, OrphanRejects, ReportOrphan, RenameOrphan,
        AcknowledgeOrphan, CleanOrphan, SweepLocks, RecordFails, RecordOrphanFails, SkipContext,
        NextContext, TakeBatch, SweepEnds, OrphanDone
    <3> QED
      BY <3>1 DEF SweepTypes, Listed
  <2>3. sweep' \in {sweep, "idle", "contexts", "drain", "record", "recover", "rejected", "report",
                    "close", "orphans", "orphan_record", "orphan_clean", "orphan_report",
                    "orphan_rename"}
    BY <1>2 DEF SweepStep, SweepStart, RetireCompleted, RetireAbandoned, KeepOpen,
      ContextVanished, ReadContext, DrainNothing, DrainReady, DrainRejects, RecordReceipt,
      RecordOrphan, Acknowledge, RecoverGap, Quarantine, ReportRejected, CloseRejected,
      FindOrphans, SkipOrphan, OrphanReady, OrphanRejects, ReportOrphan, RenameOrphan,
      AcknowledgeOrphan, CleanOrphan, SweepLocks, RecordFails, RecordOrphanFails, SkipContext,
      NextContext, TakeBatch, SweepEnds, OrphanDone
  <2> QED
    BY <2>1, <2>2, <2>3 DEF SweepTypes
<1>3. CASE \E c \in Correlations : CallStep(c) \/ CallRecordFails(c) \/ CallDropped(c)
  BY <1>u, <1>3 DEF CallStep, CallUnaccounted, CallReady, CallRecorded, CallAcknowledge,
    CallRecord, CallRecordFails, CallDropped
<1>4. CASE Tick \/ Crash \/ (\E b \in BOOLEAN : Restart(b)) \/ UNCHANGED vars
  BY <1>u, <1>e, <1>4 DEF Tick, Crash, Restart, vars
<1> QED
  BY <1>1, <1>2, <1>3, <1>4 DEF Next

\* The processes of an earlier build, and those whose lock or journal went away.
ProcessTypes ==
    /\ old \subseteq Processes /\ lost \subseteq Processes /\ stray \subseteq Processes
    /\ next \in [Processes -> 0 .. MaxReceipts]

\* A process counts a receipt only when it was about to write one.
LEMMA ProcessTypesStep == Inv /\ ProcessTypes /\ [Next]_vars => ProcessTypes'
<1> SUFFICES ASSUME Inv, ProcessTypes, [Next]_vars PROVE ProcessTypes'
  OBVIOUS
<1> USE DEF ProcessTypes, producers
<1>0. ASSUME NEW p \in Processes, pc[p] = "writing", next' = [next EXCEPT ![p] = @ + 1]
      PROVE  next' \in [Processes -> 0 .. MaxReceipts]
  <2>1. next[p] \in 0 .. MaxReceipts - 1
    BY <1>0 DEF Inv, Processing
  <2>2. next[p] + 1 \in 0 .. MaxReceipts
    BY <2>1, AccountingAssumption
  <2> QED
    BY <1>0, <2>2
<1>1. CASE Commands
  BY <1>0, <1>1 DEF Commands, Register, RegisterGap, RunUnregistered, StartCall, Complete, Start,
    OpenJournal, WriteReceipt, Exit, AppendFails, Signal, KilledWriting, EndAppend
<1>2. CASE SweepStep \/ RecordFails \/ RecordOrphanFails
  BY <1>0, <1>2 DEF SweepStep, SweepStart, RetireCompleted, RetireAbandoned, KeepOpen,
    ContextVanished, ReadContext, DrainNothing, DrainReady, DrainRejects, RecordReceipt,
    RecordOrphan, Acknowledge, RecoverGap, Quarantine, ReportRejected, CloseRejected, FindOrphans,
    SkipOrphan, OrphanReady, OrphanRejects, ReportOrphan, RenameOrphan, AcknowledgeOrphan,
    CleanOrphan, SweepLocks, RecordFails, RecordOrphanFails, SkipContext, TakeBatch,
    RetireContext, RemoveLocks, Producers
<1>3. CASE \E c \in Correlations : CallStep(c) \/ CallRecordFails(c) \/ CallDropped(c)
  BY <1>0, <1>3 DEF CallStep, CallUnaccounted, CallReady, CallRecorded, CallAcknowledge,
    CallRecord, CallRecordFails, CallDropped
<1>4. CASE Tick \/ Crash \/ \E b \in BOOLEAN : Restart(b)
  BY <1>0, <1>4 DEF Tick, Crash, Restart
<1>5. CASE UNCHANGED vars
  BY <1>0, <1>5 DEF vars
<1> QED
  BY <1>1, <1>2, <1>3, <1>4, <1>5 DEF Next

\* The number of a receipt that was written is below the next one of its process.
Numbered == \A r \in written : r[2] < next[r[1]]

\* Every append takes the next number.
LEMMA NumberedStep == Inv /\ Numbered /\ [Next]_vars => Numbered'
<1> SUFFICES ASSUME Inv, Numbered, [Next]_vars PROVE Numbered'
  OBVIOUS
<1>n. /\ next \in [Processes -> Nat] /\ written \subseteq Receipts
      /\ \A r \in written : r[1] \in Processes /\ r[2] \in Nat /\ r[2] < next[r[1]]
  BY AccountingAssumption DEF Inv, Processing, Shapes, Receipts, Numbered
<1>u. UNCHANGED <<next, written>> => Numbered'
  BY DEF Numbered
<1>e. ASSUME NEW p \in Processes, next' = [next EXCEPT ![p] = @ + 1],
             written' = written \/ written' = written \cup {<<p, next[p]>>}
      PROVE  Numbered'
  BY <1>n, <1>e DEF Numbered
<1> USE <1>u DEF producers
<1>1. CASE Commands
  <2>1. ASSUME NEW p \in Processes, WriteReceipt(p) PROVE Numbered'
    BY <1>e, <2>1 DEF WriteReceipt, EndAppend
  <2>2. ASSUME NEW p \in Processes, NEW b \in BOOLEAN, AppendFails(p, b) \/ KilledWriting(p, b)
        PROVE  Numbered'
    BY <1>e, <2>2 DEF AppendFails, KilledWriting, EndAppend
  <2> QED
    BY <1>1, <2>1, <2>2 DEF Commands, Register, RegisterGap, RunUnregistered, StartCall, Complete,
      Start, OpenJournal, Exit, Signal
<1>2. CASE SweepStep \/ RecordFails \/ RecordOrphanFails
  BY <1>2 DEF SweepStep, SweepStart, RetireCompleted, RetireAbandoned, KeepOpen, ContextVanished,
    ReadContext, DrainNothing, DrainReady, DrainRejects, RecordReceipt, RecordOrphan,
    Acknowledge, RecoverGap, Quarantine, ReportRejected, CloseRejected, FindOrphans,
    SkipOrphan, OrphanReady, OrphanRejects, ReportOrphan, RenameOrphan, AcknowledgeOrphan,
    CleanOrphan, SweepLocks, RecordFails, RecordOrphanFails, TakeBatch, RetireContext
<1>3. CASE \E c \in Correlations : CallStep(c) \/ CallRecordFails(c) \/ CallDropped(c)
  BY <1>3 DEF CallStep, CallUnaccounted, CallReady, CallRecorded, CallAcknowledge,
    CallRecord, CallRecordFails, CallDropped
<1>4. CASE Tick \/ Crash \/ (\E b \in BOOLEAN : Restart(b)) \/ UNCHANGED vars
  BY <1>4 DEF Tick, Crash, Restart, vars
<1> QED
  BY <1>1, <1>2, <1>3, <1>4 DEF Next

\* What is left in a directory has a name of a command and a journal.
FileTypes ==
    /\ torn \subseteq Correlations \X Files /\ failed \subseteq Correlations \X Files
    /\ orphan_rejected \in BOOLEAN

\* A rotation renames the files of one command.
LEMMA RenamedTypes ==
    ASSUME NEW c \in Correlations, NEW set \in SUBSET (Correlations \X Files)
    PROVE  Renamed(set, c) \subseteq Correlations \X Files
BY DEF Renamed, Files

\* Every step leaves names of commands and journals.
LEMMA FileTypesStep ==
    Inv /\ Working /\ FileTypes /\ [Next]_vars => FileTypes'
<1> SUFFICES ASSUME Inv, Working, FileTypes, [Next]_vars PROVE FileTypes'
  OBVIOUS
<1>0. \A p \in Processes : pc[p] # "idle" => corr[p] \in Correlations
  BY AccountingAssumption DEF Inv, Processing, Shapes
<1>r. ASSUME NEW c \in Correlations, Rotate(c)
      PROVE  torn' \subseteq Correlations \X Files /\ failed' \subseteq Correlations \X Files
  BY <1>r, RenamedTypes DEF Rotate, FileTypes
<1> USE DEF FileTypes, directory
<1>1. CASE Commands
  <2>1. ASSUME NEW p \in Processes, NEW b \in BOOLEAN,
               AppendFails(p, b) \/ Signal(p, b) \/ KilledWriting(p, b)
        PROVE  FileTypes'
    <3>1. corr[p] \in Correlations
      BY <1>0, <2>1 DEF AppendFails, Signal, KilledWriting, EndAppend
    <3> QED
      BY <2>1, <3>1 DEF AppendFails, Signal, KilledWriting, EndAppend, TornLine, Files
  <2> QED
    BY <1>1, <2>1 DEF Commands, Register, RegisterGap, RunUnregistered, StartCall, Complete, Start,
      OpenJournal, WriteReceipt, Exit, EndAppend
<1>2. CASE DrainNothing \/ DrainReady \/ DrainRejects
  <2>1. cur \in Correlations
    BY <1>2 DEF Working, DrainNothing, DrainReady, DrainRejects
  <2>2. Rotate(cur) \/ UNCHANGED <<torn, failed>>
    BY <1>2 DEF DrainNothing, DrainReady, DrainRejects, TakeBatch, RetireContext
  <2>3. orphan_rejected' = orphan_rejected
    BY <1>2 DEF DrainNothing, DrainReady, DrainRejects, TakeBatch, RetireContext
  <2> QED
    BY <1>r, <2>1, <2>2, <2>3
<1>3. CASE \E c \in Correlations : SkipOrphan(c) \/ OrphanReady(c) \/ OrphanRejects(c)
  BY <1>r, <1>3 DEF SkipOrphan, OrphanReady, OrphanRejects, TakeBatch
<1>4. CASE /\ SweepStep \/ RecordFails \/ RecordOrphanFails
           /\ ~(DrainNothing \/ DrainReady \/ DrainRejects)
           /\ ~\E c \in Correlations : SkipOrphan(c) \/ OrphanReady(c) \/ OrphanRejects(c)
  BY <1>4 DEF SweepStep, SweepStart, RetireCompleted, RetireAbandoned, KeepOpen,
    ContextVanished, ReadContext, RecordReceipt, RecordOrphan, Acknowledge, RecoverGap, Quarantine,
    ReportRejected, CloseRejected, FindOrphans, ReportOrphan, RenameOrphan, AcknowledgeOrphan,
    CleanOrphan, SweepLocks, RecordFails, RecordOrphanFails, RetireContext, Reject
<1>5. CASE \E c \in Correlations : CallStep(c) \/ CallRecordFails(c) \/ CallDropped(c)
  BY <1>r, <1>5 DEF CallStep, CallUnaccounted, CallReady, CallRecorded, CallAcknowledge,
    CallRecord, CallRecordFails, CallDropped
<1>6. CASE Tick \/ Crash \/ (\E b \in BOOLEAN : Restart(b)) \/ UNCHANGED vars
  BY <1>6 DEF Tick, Crash, Restart, vars
<1> QED
  BY <1>1, <1>2, <1>3, <1>4, <1>5, <1>6 DEF Next

\* The gaps of the coverage store.
GapTypes ==
    /\ gap \subseteq Families /\ history \subseteq Families
    /\ gap_age \in 0 .. Grace

\* An age stops at its limit.
LEMMA OlderBounded ==
    ASSUME NEW limit \in Nat, NEW n \in 0 .. limit PROVE Older(n, limit) \in 0 .. limit
BY DEF Older

\* Every write to the store is of one of its families.
LEMMA GapWrites ==
    ASSUME GapTypes, NEW k \in Families, RecordMissing(k) \/ Recover(k) PROVE GapTypes'
BY AccountingAssumption DEF GapTypes, RecordMissing, Recover, Touched

\* Every step writes to the store by its families.
LEMMA GapTypesStep == GapTypes /\ [Next]_vars => GapTypes'
<1> SUFFICES ASSUME GapTypes, [Next]_vars PROVE GapTypes'
  OBVIOUS
<1>f. /\ "registration" \in Families /\ "rejected_receipt_batch" \in Families
      /\ "invalid_accounting_context" \in Families
      /\ "orphan_receipt_rejected" \in Families /\ "call" \in Families
  BY DEF Families
<1>w. \A k \in Families : RecordMissing(k) \/ Recover(k) => GapTypes'
  BY GapWrites
<1>u. UNCHANGED coverage => GapTypes'
  BY DEF coverage, GapTypes
<1>1. CASE Commands
  BY <1>f, <1>w, <1>u, <1>1 DEF Commands, Register, RegisterGap, RunUnregistered, StartCall,
    Complete, Start, OpenJournal, WriteReceipt, Exit, AppendFails, Signal, KilledWriting,
    EndAppend
<1>2. CASE SweepStep \/ RecordFails \/ RecordOrphanFails
  BY <1>f, <1>w, <1>u, <1>2 DEF SweepStep, SweepStart, RetireCompleted, RetireAbandoned,
    KeepOpen, ContextVanished, ReadContext, DrainNothing, DrainReady, DrainRejects, RecordReceipt,
    RecordOrphan, Acknowledge, RecoverGap, Quarantine, ReportRejected, CloseRejected,
    FindOrphans, SkipOrphan, OrphanReady, OrphanRejects, ReportOrphan, RenameOrphan,
    AcknowledgeOrphan, CleanOrphan, SweepLocks, RecordFails, RecordOrphanFails, TakeBatch
<1>3. CASE \E c \in Correlations : CallStep(c) \/ CallRecordFails(c) \/ CallDropped(c)
  BY <1>f, <1>w, <1>u, <1>3 DEF CallStep, CallUnaccounted, CallReady, CallRecorded,
    CallAcknowledge, CallRecord, CallRecordFails, CallDropped
<1>4. CASE Tick
  <2>1. gap' = gap /\ history' = history /\ gap_age' \in {Older(gap_age, Grace), 0}
    BY <1>4 DEF Tick
  <2>2. Older(gap_age, Grace) \in 0 .. Grace
    BY OlderBounded, AccountingAssumption DEF GapTypes
  <2> QED
    BY <2>1, <2>2, AccountingAssumption DEF GapTypes
<1>5. CASE Crash \/ (\E b \in BOOLEAN : Restart(b)) \/ UNCHANGED vars
  BY <1>u, <1>5 DEF Crash, Restart, vars
<1> QED
  BY <1>1, <1>2, <1>3, <1>4, <1>5 DEF Next

\* A write to the times of the files: a fresh context, a line in a journal, a new lock
\* file, a rotation.
AgeWrite(c) ==
    \/ age' = [age EXCEPT !.context[c] = 0]
    \/ age' = [age EXCEPT !.journal[c]["active"] = 0]
    \/ age' = [age EXCEPT !.lock[c] = IF c \in lock_file THEN @ ELSE 0]
    \/ age' = [age EXCEPT !.journal[c]["pending"] = age.journal[c]["active"],
                          !.lock[c] = IF c \in lock_file THEN @ ELSE 0]

\* Each of these writes keeps the ages in their bounds.
LEMMA AgeWrites ==
    ASSUME AgesOK, NEW c \in Correlations, AgeWrite(c) PROVE AgesOK'
<1> DEFINE Contexts == [Correlations -> 0 .. Ttl]
           Journals == [Correlations -> [Files -> 0 .. Grace]]
           Locks == [Correlations -> 0 .. Grace]
<1>t. /\ age.context \in Contexts /\ age.journal \in Journals /\ age.lock \in Locks
      /\ age = [context |-> age.context, journal |-> age.journal, lock |-> age.lock]
      /\ 0 \in 0 .. Ttl /\ 0 \in 0 .. Grace /\ "active" \in Files /\ "pending" \in Files
  BY AccountingAssumption DEF AgesOK, Files
<1>1. \A x \in Contexts, y \in Journals, z \in Locks :
        [context |-> x, journal |-> y, lock |-> z] \in
            [context : Contexts, journal : Journals, lock : Locks]
  OBVIOUS
<1>2. [age.context EXCEPT ![c] = 0] \in Contexts
  BY <1>t
<1>3. \A n \in 0 .. Grace, f \in Files : [age.journal EXCEPT ![c][f] = n] \in Journals
  BY <1>t
<1>4. age.journal[c]["active"] \in 0 .. Grace
  BY <1>t
<1>5. [age.lock EXCEPT ![c] = IF c \in lock_file THEN @ ELSE 0] \in Locks
  BY <1>t
<1>6. CASE age' = [age EXCEPT !.context[c] = 0]
  <2>1. age' = [context |-> [age.context EXCEPT ![c] = 0], journal |-> age.journal,
                lock |-> age.lock]
    BY <1>t, <1>6
  <2> QED
    BY <1>t, <1>1, <1>2, <2>1 DEF AgesOK
<1>7. CASE age' = [age EXCEPT !.journal[c]["active"] = 0]
  <2>1. age' = [context |-> age.context, journal |-> [age.journal EXCEPT ![c]["active"] = 0],
                lock |-> age.lock]
    BY <1>t, <1>7
  <2> QED
    BY <1>t, <1>1, <1>3, <2>1 DEF AgesOK
<1>8. CASE age' = [age EXCEPT !.lock[c] = IF c \in lock_file THEN @ ELSE 0]
  <2>1. age' = [context |-> age.context, journal |-> age.journal,
                lock |-> [age.lock EXCEPT ![c] = IF c \in lock_file THEN @ ELSE 0]]
    BY <1>t, <1>8
  <2> QED
    BY <1>t, <1>1, <1>5, <2>1 DEF AgesOK
<1>9. CASE age' = [age EXCEPT !.journal[c]["pending"] = age.journal[c]["active"],
                              !.lock[c] = IF c \in lock_file THEN @ ELSE 0]
  <2>1. age' = [context |-> age.context,
                journal |-> [age.journal EXCEPT ![c]["pending"] = age.journal[c]["active"]],
                lock |-> [age.lock EXCEPT ![c] = IF c \in lock_file THEN @ ELSE 0]]
    BY <1>t, <1>9
  <2> QED
    BY <1>t, <1>1, <1>3, <1>4, <1>5, <2>1 DEF AgesOK
<1> QED
  BY <1>6, <1>7, <1>8, <1>9 DEF AgeWrite

\* Time passes for what exists.
LEMMA AgesTick == ASSUME AgesOK, Tick PROVE AgesOK'
<1>t. /\ age.context \in [Correlations -> 0 .. Ttl]
      /\ age.journal \in [Correlations -> [Files -> 0 .. Grace]]
      /\ age.lock \in [Correlations -> 0 .. Grace]
      /\ Ttl \in Nat /\ Grace \in Nat
  BY AccountingAssumption DEF AgesOK
<1>1. \A c \in Correlations : Older(age.context[c], Ttl) \in 0 .. Ttl /\ 0 \in 0 .. Ttl
  BY <1>t, OlderBounded
<1>2. \A c \in Correlations, f \in Files :
        Older(age.journal[c][f], Grace) \in 0 .. Grace /\ 0 \in 0 .. Grace
  BY <1>t, OlderBounded
<1>3. \A c \in Correlations : Older(age.lock[c], Grace) \in 0 .. Grace /\ 0 \in 0 .. Grace
  BY <1>t, OlderBounded
<1>4. /\ age' = [context |-> age'.context, journal |-> age'.journal, lock |-> age'.lock]
      /\ age'.context = [c \in Correlations |->
                           IF context[c] = "none" THEN 0 ELSE Older(age.context[c], Ttl)]
      /\ age'.journal = [c \in Correlations |-> [f \in Files |->
                           IF HasLines(c, f) THEN Older(age.journal[c][f], Grace) ELSE 0]]
      /\ age'.lock = [c \in Correlations |->
                           IF c \in lock_file THEN Older(age.lock[c], Grace) ELSE 0]
  BY DEF Tick
<1>5. age'.context \in [Correlations -> 0 .. Ttl]
  BY <1>1, <1>4
<1>6. age'.journal \in [Correlations -> [Files -> 0 .. Grace]]
  BY <1>2, <1>4
<1>7. age'.lock \in [Correlations -> 0 .. Grace]
  BY <1>3, <1>4
<1> QED
  BY <1>4, <1>5, <1>6, <1>7 DEF AgesOK

\* Who writes to the times of the files.
LEMMA AgeSteps ==
    ASSUME Inv, Working, [Next]_vars
    PROVE  age' = age \/ Tick \/ \E c \in Correlations : AgeWrite(c)
<1>0. \A p \in Processes : pc[p] # "idle" => corr[p] \in Correlations
  BY AccountingAssumption DEF Inv, Processing, Shapes
<1>r. ASSUME NEW c, Rotate(c) PROVE age' = age \/ AgeWrite(c)
  BY <1>r DEF Rotate, AgeWrite
<1>1. CASE Commands
  <2>1. ASSUME NEW p \in Processes, NEW b \in BOOLEAN, AppendFails(p, b) \/ KilledWriting(p, b)
        PROVE  age' = age \/ (AgeWrite(corr[p]) /\ corr[p] \in Correlations)
    BY <1>0, <2>1 DEF AppendFails, KilledWriting, EndAppend, TornLine, AgeWrite
  <2>2. ASSUME NEW p \in Processes, WriteReceipt(p) \/ OpenJournal(p)
        PROVE  age' = age \/ (AgeWrite(corr[p]) /\ corr[p] \in Correlations)
    BY <1>0, <2>2 DEF WriteReceipt, OpenJournal, EndAppend, AgeWrite
  <2>3. ASSUME NEW c \in Correlations, Register(c) PROVE AgeWrite(c)
    BY <2>3 DEF Register, AgeWrite
  <2> QED
    BY <1>1, <2>1, <2>2, <2>3 DEF Commands, RegisterGap, RunUnregistered, StartCall, Complete,
      Start, Exit, Signal
<1>2. CASE DrainNothing \/ DrainReady \/ DrainRejects
  <2>1. cur \in Correlations
    BY <1>2 DEF Working, DrainNothing, DrainReady, DrainRejects
  <2>2. Rotate(cur) \/ age' = age
    BY <1>2 DEF DrainNothing, DrainReady, DrainRejects, TakeBatch
  <2> QED
    BY <1>r, <2>1, <2>2
<1>3. CASE \E c \in Correlations : SkipOrphan(c) \/ OrphanReady(c) \/ OrphanRejects(c)
  BY <1>r, <1>3 DEF SkipOrphan, OrphanReady, OrphanRejects, TakeBatch
<1>4. CASE /\ SweepStep \/ RecordFails \/ RecordOrphanFails
           /\ ~(DrainNothing \/ DrainReady \/ DrainRejects)
           /\ ~\E c \in Correlations : SkipOrphan(c) \/ OrphanReady(c) \/ OrphanRejects(c)
  BY <1>4 DEF SweepStep, SweepStart, RetireCompleted, RetireAbandoned, KeepOpen, ContextVanished,
    SkipContext, ReadContext, RecordReceipt, RecordOrphan, Acknowledge, RecoverGap, Quarantine,
    ReportRejected, CloseRejected, FindOrphans, ReportOrphan, RenameOrphan, AcknowledgeOrphan,
    CleanOrphan, SweepLocks, RecordFails, RecordOrphanFails
<1>5. CASE \E c \in Correlations : CallStep(c) \/ CallRecordFails(c) \/ CallDropped(c)
  BY <1>r, <1>5 DEF CallStep, CallUnaccounted, CallReady, CallRecorded, CallAcknowledge,
    CallRecord, CallRecordFails, CallDropped
<1>6. CASE Tick \/ Crash \/ (\E b \in BOOLEAN : Restart(b)) \/ UNCHANGED vars
  BY <1>6 DEF Crash, Restart, vars
<1> QED
  BY <1>1, <1>2, <1>3, <1>4, <1>5, <1>6 DEF Next

\* Every step keeps the ages in their bounds.
LEMMA AgesStep == Inv /\ Working /\ AgesOK /\ [Next]_vars => AgesOK'
<1> SUFFICES ASSUME Inv, Working, AgesOK, [Next]_vars PROVE AgesOK'
  OBVIOUS
<1>1. age' = age => AgesOK'
  BY DEF AgesOK
<1> QED
  BY <1>1, AgeSteps, AgeWrites, AgesTick

\* Whether the daemon runs, and how many faults there were.
DaemonTypes == up \in BOOLEAN /\ faults \in 0 .. MaxFaults

\* No more faults happen than the bound allows.
LEMMA DaemonTypesStep == DaemonTypes /\ [Next]_vars => DaemonTypes'
<1> SUFFICES ASSUME DaemonTypes, [Next]_vars PROVE DaemonTypes'
  OBVIOUS
<1>f. ASSUME NEW kind, Fault(kind) PROVE faults' \in 0 .. MaxFaults
  BY <1>f, AccountingAssumption DEF Fault, DaemonTypes
<1>u. faults' = faults \/ \E kind : Fault(kind)
  BY DEF Commands, Register, RegisterGap, RunUnregistered, StartCall, Complete, Start,
    OpenJournal, WriteReceipt, Exit, AppendFails, Signal, KilledWriting, EndAppend, SweepStep,
    SweepStart, RetireCompleted, RetireAbandoned, KeepOpen, ContextVanished, ReadContext,
    DrainNothing, DrainReady, DrainRejects, RecordReceipt, RecordOrphan, Acknowledge, RecoverGap,
    Quarantine, ReportRejected, CloseRejected, FindOrphans, SkipOrphan, OrphanReady,
    OrphanRejects, ReportOrphan, RenameOrphan, AcknowledgeOrphan, CleanOrphan, SweepLocks,
    RecordFails, RecordOrphanFails, SkipContext, TakeBatch, CallStep, CallUnaccounted, CallReady,
    CallRecorded, CallAcknowledge, CallRecord, CallRecordFails, CallDropped, Tick, Crash, Restart,
    Next, vars, Left
<1>1. up' = up \/ up' = TRUE \/ up' = FALSE
  BY DEF Commands, Register, RegisterGap, RunUnregistered, StartCall, Complete, Start,
    OpenJournal, WriteReceipt, Exit, AppendFails, Signal, KilledWriting, EndAppend, SweepStep,
    SweepStart, RetireCompleted, RetireAbandoned, KeepOpen, ContextVanished, ReadContext,
    DrainNothing, DrainReady, DrainRejects, RecordReceipt, RecordOrphan, Acknowledge, RecoverGap,
    Quarantine, ReportRejected, CloseRejected, FindOrphans, SkipOrphan, OrphanReady,
    OrphanRejects, ReportOrphan, RenameOrphan, AcknowledgeOrphan, CleanOrphan, SweepLocks,
    RecordFails, RecordOrphanFails, SkipContext, TakeBatch, CallStep, CallUnaccounted, CallReady,
    CallRecorded, CallAcknowledge, CallRecord, CallRecordFails, CallDropped, Tick, Crash, Restart,
    Next, vars
<1>2. up' \in BOOLEAN
  BY <1>1, Zenon DEF DaemonTypes
<1> QED
  BY <1>f, <1>u, <1>2 DEF DaemonTypes

\* What the type invariant needs: itself is not inductive, because the receipts that a
\* process may still write and the correlation the sweeper works on are not in it.
TypeInv ==
    /\ Inv /\ Working /\ CommandsOK /\ Used /\ Owned /\ Orphaned
    /\ SweepTypes /\ ProcessTypes /\ Numbered /\ FileTypes /\ GapTypes /\ AgesOK /\ DaemonTypes

\* The initial state.
LEMMA TypeInit == Init => TypeInv
<1> SUFFICES ASSUME Init PROVE TypeInv
  OBVIOUS
<1>1. Working /\ CommandsOK /\ Used
  BY DEF Init, Working, CommandsOK, Used
<1>2. Owned
  BY DEF Init, Owned, Files
<1>3. Orphaned
  BY DEF Init, Orphaned, Listed, SeenGone, TodoGone, RecordGone, OrphanPhase, Nothing
<1>4. SweepTypes
  BY DEF Init, SweepTypes
<1>5. ProcessTypes /\ Numbered /\ GapTypes
  BY AccountingAssumption DEF Init, ProcessTypes, Numbered, GapTypes
<1>8. FileTypes
  BY DEF Init, FileTypes
<1>6. AgesOK
  BY AccountingAssumption DEF Init, AgesOK
<1>7. DaemonTypes
  BY AccountingAssumption DEF Init, DaemonTypes
<1> QED
  BY <1>1, <1>2, <1>3, <1>4, <1>5, <1>6, <1>7, <1>8, InvInit DEF TypeInv

\* Every step.
LEMMA TypeStep == TypeInv /\ [Next]_vars => TypeInv'
<1> SUFFICES ASSUME TypeInv, [Next]_vars PROVE TypeInv'
  OBVIOUS
<1> USE DEF TypeInv
<1>1. Inv' /\ Working' /\ CommandsOK' /\ Used' /\ Owned' /\ Orphaned'
  BY InvStep, WorkingStep, CommandsOKStep, UsedStep, OwnedStep, OrphanedStep
<1>2. SweepTypes'
  BY <1>1, SweepTypesStep DEF Orphaned
<1> QED
  BY <1>1, <1>2, ProcessTypesStep, NumberedStep, FileTypesStep, GapTypesStep, AgesStep,
     DaemonTypesStep

-----------------------------------------------------------------------------
(* The journal locks *)

\* The states in which the sweeper is at the contexts.
ContextPhase == {"contexts", "drain", "record", "recover", "rejected", "report", "close"}

\* The contexts that are left are in the listing, and the one in work is among them.
TodoListed ==
    sweep \in ContextPhase => todo \subseteq seen.contexts /\ (sweep # "contexts" => cur \in todo)

\* An orphan in work is not to be done again in this sweep.
CurDone == sweep \in OrphanPhase \ {"orphans"} => cur \notin todo

\* A lock is unlinked under an append only when the sweep is done with that command: it is
\* not among those left, and no orphan, for its context is in the listing.  The next sweep
\* starts when the append is over.
LostLocks ==
    \A p \in lost :
        /\ pc[p] = "writing"
        /\ \/ sweep = "idle"
           \/ corr[p] \notin todo /\ (sweep \in ContextPhase => corr[p] \in seen.contexts)

LockInv == TodoListed /\ CurDone /\ LostLocks

\* What the sweeper goes to, and with what.
LEMMA SweepTurns ==
    ASSUME [Next]_vars
    PROVE  /\ sweep = "idle" => sweep' = "idle" \/ SweepStart
           /\ sweep \in OrphanPhase =>
                sweep' = "idle" \/ (sweep' \in OrphanPhase /\ todo' \subseteq todo)
           /\ sweep' \in OrphanPhase \ {"orphans"} =>
                \/ sweep \in OrphanPhase \ {"orphans"} /\ cur' = cur /\ todo' = todo
                \/ cur' \notin todo'
           /\ sweep \in ContextPhase =>
                \/ sweep' = "idle" \/ FindOrphans
                \/ sweep' \in ContextPhase /\ seen' = seen /\ todo' \subseteq todo
           /\ sweep' \in ContextPhase => sweep \in ContextPhase \/ SweepStart
           /\ sweep' \in ContextPhase \ {"contexts"} =>
                \/ \E c \in Correlations : ReadContext(c)
                \/ sweep \in ContextPhase \ {"contexts"} /\ cur' = cur /\ todo' = todo
<1> USE DEF OrphanPhase, ContextPhase, sweeper
<1>1. CASE Commands
  BY <1>1 DEF Commands, Register, RegisterGap, RunUnregistered, StartCall, Complete, Start,
    OpenJournal, WriteReceipt, Exit, AppendFails, Signal, KilledWriting, EndAppend
<1>2. CASE SweepStep \/ RecordFails \/ RecordOrphanFails
  BY <1>2 DEF SweepStep, SweepStart, RetireCompleted, RetireAbandoned, KeepOpen, ContextVanished,
    ReadContext, DrainNothing, DrainReady, DrainRejects, RecordReceipt, RecordOrphan, Acknowledge,
    RecoverGap, Quarantine, ReportRejected, CloseRejected, FindOrphans, SkipOrphan, OrphanReady,
    OrphanRejects, ReportOrphan, RenameOrphan, AcknowledgeOrphan, CleanOrphan, SweepLocks,
    RecordFails, RecordOrphanFails, Quiet, SkipContext, NextContext, TakeBatch, SweepEnds,
    OrphanDone
<1>3. CASE \E c \in Correlations : CallStep(c) \/ CallRecordFails(c) \/ CallDropped(c)
  BY <1>3 DEF CallStep, CallUnaccounted, CallReady, CallRecorded, CallAcknowledge,
    CallRecord, CallRecordFails, CallDropped
<1>4. CASE Tick \/ Crash \/ \E b \in BOOLEAN : Restart(b)
  BY <1>4 DEF Tick, Crash, Restart, SweepEnds
<1>5. CASE UNCHANGED vars
  BY <1>5 DEF vars
<1> QED
  BY <1>1, <1>2, <1>3, <1>4, <1>5 DEF Next

\* Who unlinks a lock that somebody holds, and where the sweep is then.
LEMMA LocksLost ==
    ASSUME TypeInv, LockInv, [Next]_vars, NEW p \in lost', p \notin lost
    PROVE  /\ pc[p] = "writing" /\ UNCHANGED <<pc, corr>>
           /\ \/ sweep' = "idle"
              \/ /\ sweep \in ContextPhase /\ sweep' = "contexts" /\ seen' = seen
                 /\ corr[p] \in todo /\ corr[p] \notin todo'
              \/ sweep \in OrphanPhase /\ sweep' = "orphans" /\ corr[p] \notin todo'
<1>r. ASSUME NEW c \in Correlations, RetireCompleted(c) \/ RetireAbandoned(c)
      PROVE  /\ pc[p] = "writing" /\ corr[p] = c /\ UNCHANGED <<pc, corr, seen, sweep>>
             /\ sweep = "contexts" /\ c \in todo /\ todo' = todo \ {c}
  BY <1>r DEF RetireCompleted, RetireAbandoned, RetireContext, RemoveLocks, SkipContext, Quiet
<1>d. ASSUME DrainNothing
      PROVE  /\ pc[p] = "writing" /\ corr[p] = cur /\ UNCHANGED <<pc, corr, seen>>
             /\ sweep = "drain" /\ sweep' = "contexts" /\ cur \in todo /\ todo' = todo \ {cur}
  <2>1. sweep = "drain" /\ cur \in todo
    BY <1>d DEF DrainNothing, LockInv, TodoListed, ContextPhase
  <2>2. completed
    BY <1>d DEF DrainNothing, producers
  <2> QED
    BY <1>d, <2>1, <2>2 DEF DrainNothing, RetireContext, RemoveLocks, NextContext
<1>c. ASSUME CleanOrphan
      PROVE  /\ pc[p] = "writing" /\ corr[p] = cur /\ UNCHANGED <<pc, corr, todo>>
             /\ sweep = "orphan_clean" /\ sweep' = "orphans" /\ cur \notin todo
  <2>1. sweep = "orphan_clean" /\ cur \notin todo
    BY <1>c DEF CleanOrphan, LockInv, CurDone, OrphanPhase
  <2> QED
    BY <1>c, <2>1 DEF CleanOrphan, RemoveLocks, OrphanDone
<1>l. ASSUME SweepLocks PROVE pc[p] = "writing" /\ UNCHANGED <<pc, corr>> /\ sweep' = "idle"
  BY <1>l DEF SweepLocks, RemoveLocks, SweepEnds
<1>o. \/ DrainNothing \/ CleanOrphan \/ SweepLocks
      \/ \E c \in Correlations : RetireCompleted(c) \/ RetireAbandoned(c)
  <2> USE DEF producers
  <2>1. CASE Commands
    BY <2>1 DEF Commands, Register, RegisterGap, RunUnregistered, StartCall, Complete, Start,
      OpenJournal, WriteReceipt, Exit, AppendFails, Signal, KilledWriting, EndAppend
  <2>2. CASE SweepStep \/ RecordFails \/ RecordOrphanFails
    BY <2>2 DEF SweepStep, SweepStart, KeepOpen, ContextVanished, ReadContext, DrainReady,
      DrainRejects, RecordReceipt, RecordOrphan, Acknowledge, RecoverGap, Quarantine,
      ReportRejected, CloseRejected, FindOrphans, SkipOrphan, OrphanReady, OrphanRejects,
      ReportOrphan, RenameOrphan, AcknowledgeOrphan, RecordFails, RecordOrphanFails,
      TakeBatch
  <2>3. CASE \E c \in Correlations : CallStep(c) \/ CallRecordFails(c) \/ CallDropped(c)
    BY <2>3 DEF CallStep, CallUnaccounted, CallReady, CallRecorded, CallAcknowledge,
      CallRecord, CallRecordFails, CallDropped
  <2>4. CASE Tick \/ Crash \/ (\E b \in BOOLEAN : Restart(b)) \/ UNCHANGED vars
    BY <2>4 DEF Tick, Crash, Restart, vars
  <2> QED
    BY <2>1, <2>2, <2>3, <2>4 DEF Next
<1> QED
  BY <1>r, <1>d, <1>c, <1>l, <1>o DEF ContextPhase, OrphanPhase

\* An append that does not end goes on.
LEMMA WritersStay ==
    ASSUME Inv, [Next]_vars, NEW p \in Processes, pc[p] = "writing"
    PROVE  corr'[p] = corr[p] /\ (pc'[p] = "writing" \/ p \notin lost')
<1>t. pc \in [Processes -> {"idle", "running", "writing", "signalling", "exited"}]
      /\ corr \in [Processes -> Correlations \cup {None}]
  BY DEF Inv, Processing, Shapes
<1> USE <1>t DEF producers
<1>1. CASE Commands
  BY <1>1 DEF Commands, Register, RegisterGap, RunUnregistered, StartCall, Complete, Start,
    OpenJournal, WriteReceipt, Exit, AppendFails, Signal, KilledWriting, EndAppend
<1>2. CASE SweepStep \/ RecordFails \/ RecordOrphanFails
  BY <1>2 DEF SweepStep, SweepStart, RetireCompleted, RetireAbandoned, KeepOpen, ContextVanished,
    ReadContext, DrainNothing, DrainReady, DrainRejects, RecordReceipt, RecordOrphan, Acknowledge,
    RecoverGap, Quarantine, ReportRejected, CloseRejected, FindOrphans, SkipOrphan, OrphanReady,
    OrphanRejects, ReportOrphan, RenameOrphan, AcknowledgeOrphan, CleanOrphan, SweepLocks,
    RecordFails, RecordOrphanFails, TakeBatch, RetireContext
<1>3. CASE \E c \in Correlations : CallStep(c) \/ CallRecordFails(c) \/ CallDropped(c)
  BY <1>3 DEF CallStep, CallUnaccounted, CallReady, CallRecorded, CallAcknowledge,
    CallRecord, CallRecordFails, CallDropped
<1>4. CASE Tick \/ Crash \/ \E b \in BOOLEAN : Restart(b)
  BY <1>4 DEF Tick, Crash, Restart
<1>5. CASE UNCHANGED vars
  BY <1>5 DEF vars
<1> QED
  BY <1>1, <1>2, <1>3, <1>4, <1>5 DEF Next

\* A process whose lock was unlinked is never one of a command still to be drained.
LEMMA LostLocksStep == TypeInv /\ LockInv /\ [Next]_vars => LostLocks'
<1> SUFFICES ASSUME TypeInv, LockInv, [Next]_vars, NEW p \in lost'
             PROVE  /\ pc'[p] = "writing"
                    /\ \/ sweep' = "idle"
                       \/ /\ corr'[p] \notin todo'
                          /\ sweep' \in ContextPhase => corr'[p] \in seen'.contexts
  BY DEF LostLocks
<1>t. Inv /\ p \in Processes /\ SweepTypes /\ Listed
  BY TypeStep DEF TypeInv, ProcessTypes, Orphaned
<1>p. ContextPhase \cap OrphanPhase = {}
  BY DEF ContextPhase, OrphanPhase
<1>1. CASE p \in lost
  <2>1. /\ pc[p] = "writing"
        /\ \/ sweep = "idle"
           \/ corr[p] \notin todo /\ (sweep \in ContextPhase => corr[p] \in seen.contexts)
    BY <1>1 DEF LockInv, LostLocks
  <2>2. corr'[p] = corr[p] /\ pc'[p] = "writing"
    BY <1>t, <2>1, WritersStay
  <2>3. ~SweepStart
    BY <1>1 DEF SweepStart
  <2>4. CASE sweep = "idle"
    BY <2>2, <2>3, <2>4, SweepTurns
  <2>5. CASE sweep \in OrphanPhase
    BY <1>p, <2>1, <2>2, <2>5, SweepTurns DEF OrphanPhase
  <2>6. CASE sweep \in ContextPhase
    <3>1. CASE FindOrphans
      <4>1. seen'.receipts = {x \in seen.receipts : Orphan(x[1], x[2])} /\ sweep' = "orphans"
            /\ todo' = {x[1] : x \in seen'.receipts}
        BY <1>t, <3>1 DEF FindOrphans, Listed
      <4>2. corr[p] \notin todo'
        BY <2>1, <2>6, <4>1 DEF Orphan, ContextPhase
      <4> QED
        BY <2>2, <4>1, <4>2 DEF ContextPhase
    <3>2. CASE ~FindOrphans
      BY <2>1, <2>2, <2>6, <3>2, SweepTurns DEF ContextPhase
    <3> QED
      BY <3>1, <3>2
  <2>7. sweep \in {"idle"} \cup OrphanPhase \cup ContextPhase
    BY <1>t DEF SweepTypes, OrphanPhase, ContextPhase
  <2> QED
    BY <2>4, <2>5, <2>6, <2>7
<1>2. CASE p \notin lost
  <2>1. sweep \in ContextPhase => todo \subseteq seen.contexts
    BY DEF LockInv, TodoListed
  <2>2. /\ pc[p] = "writing" /\ UNCHANGED <<pc, corr>>
        /\ \/ sweep' = "idle"
           \/ /\ sweep \in ContextPhase /\ sweep' = "contexts" /\ seen' = seen
              /\ corr[p] \in todo /\ corr[p] \notin todo'
           \/ sweep \in OrphanPhase /\ sweep' = "orphans" /\ corr[p] \notin todo'
    BY <1>2, LocksLost
  <2> QED
    BY <2>1, <2>2 DEF ContextPhase
<1> QED
  BY <1>1, <1>2

\* Every step.
LEMMA LockStep == TypeInv /\ LockInv /\ [Next]_vars => LockInv'
<1> SUFFICES ASSUME TypeInv, LockInv, [Next]_vars PROVE LockInv'
  OBVIOUS
<1>1. CurDone'
  BY SweepTurns DEF LockInv, CurDone
<1>2. TodoListed'
  <2> SUFFICES ASSUME sweep' \in ContextPhase
               PROVE  todo' \subseteq seen'.contexts /\ (sweep' # "contexts" => cur' \in todo')
    BY DEF TodoListed
  <2>1. CASE SweepStart
    BY <2>1 DEF SweepStart
  <2>2. CASE ~SweepStart
    <3>1. sweep \in ContextPhase
      BY <2>2, SweepTurns
    <3>2. ~FindOrphans /\ sweep' # "idle"
      BY DEF FindOrphans, ContextPhase
    <3>3. todo' \subseteq seen'.contexts
      BY <3>1, <3>2, SweepTurns DEF LockInv, TodoListed
    <3>4. ASSUME NEW c \in Correlations, ReadContext(c) PROVE cur' \in todo'
      BY <3>4 DEF ReadContext
    <3>5. sweep' # "contexts" => cur' \in todo'
      BY <3>4, SweepTurns DEF LockInv, TodoListed
    <3> QED
      BY <3>3, <3>5
  <2> QED
    BY <2>1, <2>2
<1> QED
  BY <1>1, <1>2, LostLocksStep DEF LockInv

\* A batch becomes pending when a drain of that command rotates its journal, which waits
\* for the lock.
LEMMA RotationSteps ==
    ASSUME Inv, Working, [Next]_vars, NEW c \in Correlations,
           journal'[c]["pending"] # {}, journal[c]["pending"] = {}
    PROVE  /\ \/ sweep = "drain" /\ c = cur
              \/ sweep = "orphans" /\ c \in todo
              \/ \A p \in Producers(c) : pc[p] = "exited"
           /\ ~Locked(c)
<1>t. /\ journal \in [Correlations -> [Files -> SUBSET Receipts]]
      /\ "active" \in Files /\ "pending" \in Files
      /\ \A p \in Processes : pc[p] # "idle" => corr[p] \in Correlations
  BY AccountingAssumption DEF Inv, Shapes, Processing, Files
<1>u. journal' # journal
  OBVIOUS
<1>r. ASSUME NEW d \in Correlations, Rotate(d) PROVE d = c /\ ~Locked(c)
  <2>1. /\ ~HasPending(d) /\ ~Locked(d)
        /\ journal' = [journal EXCEPT ![d] = [active |-> {}, pending |-> journal[d]["active"]]]
    BY <1>r, <1>u DEF Rotate
  <2> QED
    BY <1>t, <2>1
<1>m. ASSUME NEW d \in Correlations, Remove(d) PROVE FALSE
  BY <1>t, <1>m DEF Remove
<1>1. CASE Commands
  <2>1. ASSUME NEW p \in Processes, WriteReceipt(p) PROVE FALSE
    <3>1. corr[p] \in Correlations
      BY <1>t, <2>1 DEF WriteReceipt, EndAppend
    <3>2. \E r : journal' = [journal EXCEPT ![corr[p]]["active"] = @ \cup {r}]
      BY <1>u, <2>1 DEF WriteReceipt
    <3> QED
      BY <1>t, <3>1, <3>2
  <2>2. FALSE
    BY <1>u, <1>1, <2>1 DEF Commands, Register, RegisterGap, RunUnregistered, StartCall, Complete,
      Start, OpenJournal, Exit, AppendFails, Signal, KilledWriting, directory
  <2> QED
    BY <2>2
<1>2. CASE DrainNothing \/ DrainReady \/ DrainRejects
  <2>1. cur \in Correlations /\ sweep = "drain"
    BY <1>2 DEF Working, DrainNothing, DrainReady, DrainRejects
  <2>2. Rotate(cur)
    BY <1>u, <1>2 DEF DrainNothing, DrainReady, DrainRejects, TakeBatch, RetireContext
  <2> QED
    BY <1>r, <2>1, <2>2
<1>3. ASSUME NEW d \in Correlations, SkipOrphan(d) \/ OrphanReady(d) \/ OrphanRejects(d)
      PROVE  d = c /\ ~Locked(c) /\ sweep = "orphans" /\ d \in todo
  BY <1>r, <1>3 DEF SkipOrphan, OrphanReady, OrphanRejects, TakeBatch
<1>4. CASE Quarantine \/ RenameOrphan
  <2>1. cur \in Correlations
    BY <1>4 DEF Working, Quarantine, RenameOrphan
  <2>2. PICK files \in SUBSET Files : Reject(cur, files)
    BY <1>4 DEF Quarantine, RenameOrphan, Files
  <2>3. /\ \A d \in Correlations \ {cur} : journal'[d] = journal[d]
        /\ \A f \in Files : journal'[cur][f] \subseteq journal[cur][f]
    BY <2>1, <2>2, RejectMoves
  <2> QED
    BY <1>t, <2>1, <2>3
<1>5. CASE /\ SweepStep \/ RecordFails \/ RecordOrphanFails
           /\ ~(DrainNothing \/ DrainReady \/ DrainRejects \/ Quarantine \/ RenameOrphan)
           /\ ~\E d \in Correlations : SkipOrphan(d) \/ OrphanReady(d) \/ OrphanRejects(d)
  <2>1. Remove(cur) /\ sweep \in {"record", "orphan_record"}
    BY <1>u, <1>5 DEF SweepStep, SweepStart, RetireCompleted, RetireAbandoned, KeepOpen,
      ContextVanished, ReadContext, RecordReceipt, RecordOrphan, Acknowledge, RecoverGap,
      ReportRejected, CloseRejected, FindOrphans, ReportOrphan, AcknowledgeOrphan, CleanOrphan,
      SweepLocks, RecordFails, RecordOrphanFails, RetireContext, directory
  <2> QED
    BY <1>m, <2>1 DEF Working
<1>6. ASSUME NEW d \in Correlations, CallStep(d) \/ CallRecordFails(d) \/ CallDropped(d)
      PROVE  d = c /\ ~Locked(c) /\ \A p \in Producers(c) : pc[p] = "exited"
  <2>1. Rotate(d) /\ CallDrains(d)
    BY <1>u, <1>m, <1>6 DEF CallStep, CallUnaccounted, CallReady, CallRecorded,
      CallAcknowledge, CallRecord, CallRecordFails, CallDropped, directory
  <2> QED
    BY <1>r, <2>1 DEF CallDrains
<1>7. CASE Tick \/ Crash \/ (\E b \in BOOLEAN : Restart(b)) \/ UNCHANGED vars
  BY <1>u, <1>7 DEF Tick, Crash, Restart, vars, directory
<1> QED
  BY <1>1, <1>2, <1>3, <1>4, <1>5, <1>6, <1>7 DEF Next

-----------------------------------------------------------------------------
(* The theorems *)

\* The invariants of the first two theorems.
LEMMA Invariance == Spec => []Inv /\ []Working
<1>1. Init => Working
  BY DEF Init, Working
<1>2. Inv /\ Working /\ [Next]_vars => Inv' /\ Working'
  BY InvStep, WorkingStep
<1> QED
  BY <1>1, <1>2, InvInit, PTL DEF Spec

\* Nothing between the append of a receipt and its row loses it: rotation, drain,
\* acknowledgement, a crash, a failed insert or rename.  A rejection sets it aside, where
\* the next one of its command may overwrite it.
THEOREM ReceiptsKept == Spec => []KeyKept
<1>1. Inv => KeyKept
  BY DEF Inv
<1> QED
  BY <1>1, Invariance, PTL

\* A rejected orphan is always reported: its gap is open, or in the history.
THEOREM OrphansReported == Spec => []OrphanRejectionReported
<1>1. Init => RejectionReported
  BY DEF Init, RejectionReported
<1>2. RejectionReported => OrphanRejectionReported
  BY DEF RejectionReported, OrphanRejectionReported
<1> QED
  BY <1>1, <1>2, RejectionStep, PTL DEF Spec

\* The orphan pass records nothing of a command whose registration is there: what its
\* listing says of a command without one stays true however long the sweep takes.
THEOREM OrphansHaveNoContext == Spec => AttributionKept
<1>1. TypeInv /\ [Next]_vars
        => [\A r \in Receipts : rows'[r]["unattributed"] > rows[r]["unattributed"]
                => context[corr[r[1]]] = "none"]_vars
  <2> SUFFICES ASSUME TypeInv, [Next]_vars, NEW r \in Receipts,
                      rows'[r]["unattributed"] > rows[r]["unattributed"]
               PROVE  context[corr[r[1]]] = "none"
    OBVIOUS
  <2>1. rows'[r]["unattributed"] # rows[r]["unattributed"]
    BY InvStep DEF TypeInv, Inv, Shapes, Attributions
  <2>2. sweep = "orphan_record" /\ r \in left
    BY <2>1, UnattributedByOrphan DEF TypeInv
  <2> QED
    BY <2>2 DEF TypeInv, Orphaned, RecordGone, Gone
<1> QED
  BY <1>1, TypeInit, TypeStep, PTL DEF Spec, AttributionKept

\* The types of the whole state, the bounds of the ages and of the counters included;
\* past its choice the sweeper always works on a correlation.
THEOREM TypeCorrect == Spec => []TypeOK
<1>1. TypeInv => TypeOK
  <2> SUFFICES ASSUME TypeInv PROVE TypeOK
    OBVIOUS
  <2>1. ProducersOK
    BY DEF TypeInv, Inv, Shapes, Processing, CommandsOK, ProcessTypes, Numbered, ProducersOK
  <2>2. DirectoryOK
    BY DEF TypeInv, Inv, Shapes, CommandsOK, Used, FileTypes, DirectoryOK
  <2>3. LedgerOK
    BY DEF TypeInv, Inv, Shapes, GapTypes, LedgerOK
  <2>4. SweeperOK
    BY AccountingAssumption
    DEF TypeInv, Inv, Shapes, Working, Orphaned, Listed, SweepTypes, SweeperOK
  <2>5. CallsOK
    BY DEF TypeInv, Inv, Shapes, DaemonTypes, CallsOK
  <2> QED
    BY <2>1, <2>2, <2>3, <2>4, <2>5 DEF TypeInv, TypeOK
<1> QED
  BY <1>1, TypeInit, TypeStep, PTL DEF Spec

\* No drain rotates a journal away under an append, although the sweep may have unlinked
\* the lock file the writer holds, with its context or as an orphan's: it is then done with
\* that command, and the next sweep finds the append over.
THEOREM RotationsWait == Spec => RotationWaits
<1> DEFINE A == \A c \in Correlations, p \in Processes :
                    /\ journal'[c]["pending"] # {} /\ journal[c]["pending"] = {}
                    => ~(corr[p] = c /\ pc[p] = "writing")
<1>1. Init => LockInv
  BY DEF Init, LockInv, TodoListed, CurDone, LostLocks, OrphanPhase, ContextPhase
<1>2. TypeInv /\ LockInv /\ [Next]_vars => [A]_vars
  <2> SUFFICES ASSUME TypeInv, LockInv, [Next]_vars, NEW c \in Correlations, NEW p \in Processes,
                      journal'[c]["pending"] # {}, journal[c]["pending"] = {},
                      corr[p] = c, pc[p] = "writing"
               PROVE  FALSE
    OBVIOUS
  <2>1. /\ \/ sweep = "drain" /\ c = cur
           \/ sweep = "orphans" /\ c \in todo
           \/ \A q \in Producers(c) : pc[q] = "exited"
        /\ ~Locked(c)
    BY RotationSteps DEF TypeInv
  <2>2. p \in Producers(c) /\ p \in lost
    BY <2>1 DEF Locked, Producers
  <2> QED
    BY <2>1, <2>2 DEF LockInv, LostLocks, TodoListed, ContextPhase
<1> QED
  BY <1>1, <1>2, TypeInit, TypeStep, LockStep, PTL DEF Spec, RotationWaits

====
