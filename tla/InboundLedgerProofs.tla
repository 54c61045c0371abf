------------------------ MODULE InboundLedgerProofs ------------------------
(***************************************************************************)
(* What the projector promises of every delivery: its message is stored     *)
(* once and counted once, the reward engine sees it once, no row goes round *)
(* for ever and the badge hides nothing.  For every finite set of items, any *)
(* set of workers, every batch size, budget and set of faults that satisfies *)
(* InboundAssumption.                                                       *)
(***************************************************************************)
EXTENDS InboundLedger, FiniteSetTheorems, TLAPS

-----------------------------------------------------------------------------
(* Keys, and the id the sequence gives.                                     *)

LEMMA KeyParts ==
  /\ \A k \in Keys : k[1] \in Items /\ k[2] \in Verbs /\ k = <<k[1], k[2]>>
  /\ \A i \in Items, v \in Verbs : <<i, v>> \in Keys
  /\ \A i \in Items : <<i, "add">> \in Keys
  BY DEF Keys, Verbs

LEMMA NoKeyIsNoKey == NoKey \notin Keys
  BY InboundAssumption DEF Keys, Verbs, Moderations

LEMMA VerbsFinite == IsFiniteSet(Verbs)
<1>1. IsFiniteSet({"edit"})
  BY FS_Singleton, Zenon
<1>2. IsFiniteSet({"edit"} \cup {"hide"})
  BY <1>1, FS_AddElement, Zenon
<1>3. IsFiniteSet(({"edit"} \cup {"hide"}) \cup {"unhide"})
  BY <1>2, FS_AddElement, Zenon
<1>4. IsFiniteSet((({"edit"} \cup {"hide"}) \cup {"unhide"}) \cup {"remove"})
  BY <1>3, FS_AddElement, Zenon
<1>5. IsFiniteSet(((({"edit"} \cup {"hide"}) \cup {"unhide"}) \cup {"remove"}) \cup {"add"})
  BY <1>4, FS_AddElement, Zenon
<1>6. Verbs = ((({"edit"} \cup {"hide"}) \cup {"unhide"}) \cup {"remove"}) \cup {"add"}
  BY DEF Verbs, Moderations
<1> QED BY <1>5, <1>6

LEMMA KeysFinite == IsFiniteSet(Keys) /\ Cardinality(Keys) \in Nat
<1>1. IsFiniteSet(Keys)
  BY InboundAssumption, VerbsFinite, FS_Product DEF Keys
<1> QED BY <1>1, FS_CardinalityType

\* Ids do not run out while a key has no row.
LEMMA NextIdType ==
  ASSUME TypeOK, NEW k \in Keys, rows[k].id = 0
  PROVE  NextId \in 0 .. Cardinality(Keys) /\ NextId # 0
<1> DEFINE Used == {j \in Keys : rows[j].id # 0}
<1>1. Used \in SUBSET (Keys \ {k})
  OBVIOUS
<1>2. IsFiniteSet(Keys \ {k}) /\ Cardinality(Keys \ {k}) = Cardinality(Keys) - 1
  BY KeysFinite, FS_RemoveElement
<1>3. IsFiniteSet(Used) /\ Cardinality(Used) <= Cardinality(Keys) - 1
  <2> HIDE DEF Used
  <2> QED BY <1>1, <1>2, FS_Subset
<1>4. Cardinality(Used) \in Nat
  BY <1>3, FS_CardinalityType
<1>5. NextId = Cardinality(Used) + 1
  BY DEF NextId
<1> HIDE DEF Used
<1> QED BY <1>3, <1>4, <1>5, KeysFinite

-----------------------------------------------------------------------------
(* The two records a statement leaves: the row and what the worker holds.   *)

LEMMA InsertedRow ==
  ASSUME TypeOK, NEW k \in Keys, rows[k].id = 0, NEW n \in 0 .. MaxChanges, NEW h \in BOOLEAN
  PROVE  /\ Inserted(n, h) \in RowType
         /\ Inserted(n, h).status = "pending" /\ Inserted(n, h).owner = NoWorker
         /\ Inserted(n, h).attempts = 0 /\ Inserted(n, h).id # 0
         /\ Inserted(n, h).history = h /\ Inserted(n, h).leased = FALSE
<1>1. NextId \in 0 .. Cardinality(Keys) /\ NextId # 0
  BY NextIdType
<1> QED BY <1>1 DEF Inserted, NoRow, RowType, RowStatuses

LEMMA ClaimedRow ==
  ASSUME NEW r \in RowType, NEW w \in Workers
  PROVE  /\ Claimed(r, w) \in RowType
         /\ Claimed(r, w).status = "processing" /\ Claimed(r, w).owner = w
         /\ Claimed(r, w).attempts = r.attempts + 1 /\ Claimed(r, w).id = r.id
         /\ Claimed(r, w).history = r.history /\ Claimed(r, w).leased = TRUE
<1> DEFINE n == r.attempts + 1
<1>1. n \in Nat
  BY DEF RowType
<1>2. Claimed(r, w)
        = [r EXCEPT !.status = "processing", !.owner = w, !.leased = TRUE, !.attempts = n]
  BY DEF Claimed
<1> HIDE DEF n
<1>3. "processing" \in RowStatuses
  BY DEF RowStatuses
<1>4. [r EXCEPT !.status = "processing", !.owner = w, !.leased = TRUE, !.attempts = n] \in RowType
  BY <1>1, <1>3 DEF RowType
<1>5. Claimed(r, w).attempts = n
  BY <1>2 DEF RowType
<1>6. Claimed(r, w).attempts = r.attempts + 1
  BY <1>5 DEF n
<1> QED BY <1>2, <1>4, <1>6 DEF RowType

LEMMA ReleasedRow ==
  ASSUME NEW r \in RowType, NEW status \in RowStatuses
  PROVE  /\ Release(r, status) \in RowType
         /\ Release(r, status).status = status /\ Release(r, status).owner = NoWorker
         /\ Release(r, status).attempts = r.attempts /\ Release(r, status).id = r.id
         /\ Release(r, status).history = r.history /\ Release(r, status).leased = FALSE
  BY DEF Release, RowType

\* A settling statement writes the row only of the worker that owns it.
LEMMA SettleEffect ==
  ASSUME TypeOK, NEW w \in Workers, NEW k \in Keys, NEW status \in RowStatuses,
         Settle(w, k, status)
  PROVE  /\ rows' \in [Keys -> RowType]
         /\ \A j \in Keys \ {k} : rows'[j] = rows[j]
         /\ rows[k].owner # w => rows'[k] = rows[k]
         /\ rows[k].owner = w => rows'[k] = Release(rows[k], status)
<1>1. rows \in [Keys -> RowType] /\ Release(rows[k], status) \in RowType
  BY ReleasedRow DEF TypeOK
<1>2. CASE rows[k].owner = w
  <2>1. rows' = [rows EXCEPT ![k] = Release(rows[k], status)]
    BY <1>2 DEF Settle, Fenced
  <2> QED BY <1>1, <1>2, <2>1
<1>3. CASE rows[k].owner # w
  BY <1>1, <1>3 DEF Settle, Fenced
<1> QED BY <1>2, <1>3

LEMMA GoToEffect ==
  ASSUME wk \in [Workers -> WorkerType], NEW w \in Workers, NEW k, NEW p, NEW f,
         GoTo(w, k, p, f)
  PROVE  /\ wk'[w].phase = p /\ wk'[w].at = k /\ wk'[w].facts = f
         /\ wk'[w].batch = wk[w].batch
         /\ \A v \in Workers \ {w} : wk'[v] = wk[v]
         /\ (k \in Keys /\ p \in Phases /\ f \in {"none", "trigger", "reversal"})
              => wk' \in [Workers -> WorkerType]
<1> DEFINE n == [wk[w] EXCEPT !.phase = p, !.at = k, !.facts = f]
<1>1. wk' = [wk EXCEPT ![w] = n]
  BY DEF GoTo
<1>2. wk[w] \in WorkerType
  OBVIOUS
<1>3. n.phase = p /\ n.at = k /\ n.facts = f /\ n.batch = wk[w].batch
  BY <1>2 DEF WorkerType
<1>4. (k \in Keys /\ p \in Phases /\ f \in {"none", "trigger", "reversal"}) => n \in WorkerType
  BY <1>2 DEF WorkerType
<1> HIDE DEF n
<1> QED BY <1>1, <1>3, <1>4

LEMMA AdvanceEffect ==
  ASSUME wk \in [Workers -> WorkerType], NEW w \in Workers, NEW k, Advance(w, k)
  PROVE  /\ wk'[w].batch = wk[w].batch \ {k}
         /\ wk'[w].phase = IF wk[w].batch \ {k} = {} THEN "idle" ELSE "batch"
         /\ wk'[w].at = NoKey /\ wk'[w].facts = "none"
         /\ \A v \in Workers \ {w} : wk'[v] = wk[v]
         /\ wk' \in [Workers -> WorkerType]
<1> DEFINE left == wk[w].batch \ {k}
           p == IF left = {} THEN "idle" ELSE "batch"
           n == [wk[w] EXCEPT !.phase = p, !.batch = left, !.at = NoKey, !.facts = "none"]
<1>1. wk' = [wk EXCEPT ![w] = n]
  BY DEF Advance
<1>2. wk[w] \in WorkerType
  OBVIOUS
<1>3. p \in Phases /\ left \in SUBSET Keys
  BY <1>2 DEF WorkerType, Phases
<1>4. n.batch = left /\ n.phase = p /\ n.at = NoKey /\ n.facts = "none" /\ n \in WorkerType
  <2> HIDE DEF left, p
  <2> QED BY <1>2, <1>3 DEF WorkerType
<1> HIDE DEF n
<1> QED BY <1>1, <1>4

\* A poll that ends with an exception, and a process that dies, hold nothing.
LEMMA EmptyHands ==
  ASSUME wk \in [Workers -> WorkerType], NEW w \in Workers, NEW p \in Phases,
         wk' = [wk EXCEPT ![w] = [IdleWorker EXCEPT !.phase = p]]
  PROVE  /\ wk'[w].phase = p /\ wk'[w].at = NoKey /\ wk'[w].facts = "none"
         /\ wk'[w].batch = {}
         /\ \A v \in Workers \ {w} : wk'[v] = wk[v]
         /\ wk' \in [Workers -> WorkerType]
<1> DEFINE n == [IdleWorker EXCEPT !.phase = p]
<1>1. n.phase = p /\ n.at = NoKey /\ n.facts = "none" /\ n.batch = {} /\ n \in WorkerType
  BY DEF IdleWorker, WorkerType
<1> HIDE DEF n
<1>2. wk' = [wk EXCEPT ![w] = n]
  BY DEF n
<1> QED BY <1>1, <1>2

LEMMA IdleHands == IdleWorker = [IdleWorker EXCEPT !.phase = "idle"]
  BY DEF IdleWorker

-----------------------------------------------------------------------------
(* The ledger.  A row that is due has attempts left and stands in one line,  *)
(* once; a row with an owner is being projected; a worker is on a row of its *)
(* batch; and only what the platform wrote has rows.                         *)

Due == {"pending", "failed"}

LaneInv(lane) ==
    /\ \A j \in 1 .. Len(queue[lane]) : /\ rows[queue[lane][j]].status \in Due
                                        /\ LaneOf(rows[queue[lane][j]].history) = lane
    /\ \A i, j \in 1 .. Len(queue[lane]) : queue[lane][i] = queue[lane][j] => i = j

RowInv(k) ==
    /\ rows[k].owner # NoWorker => rows[k].status = "processing"
    /\ rows[k].id = 0 <=> rows[k].status = "none"
    /\ rows[k].attempts <= MaxAttempts
    /\ rows[k].status \in Due \cup {"none"} => rows[k].attempts < MaxAttempts
    /\ rows[k].status # "none" => Kind(k[1]) # "none"

\* What the turns of the loop leave in a worker's hands.
HandShape(w) ==
    /\ wk[w].at # NoKey => wk[w].at \in wk[w].batch
    /\ wk[w].phase = "offering" => wk[w].at # NoKey
    /\ wk[w].phase \in {"idle", "batch", "dead"} => wk[w].at = NoKey
    /\ wk[w].phase \in {"idle", "dead"} => wk[w].batch = {}

HandInv(w) == HandShape(w) /\ \A k \in wk[w].batch : rows[k].status # "none"

LedgerInv ==
    /\ TypeOK
    /\ \A lane \in Lanes : LaneInv(lane)
    /\ \A k \in Keys : RowInv(k)
    /\ \A w \in Workers : HandInv(w)
    /\ \A ev \in sent : Kind(ev.item) # "none"

\* Rows stay rows, and keep where they came from.
RowsKept ==
    \A k \in Keys : rows[k].status # "none" =>
        rows'[k].status # "none" /\ rows'[k].history = rows[k].history

\* What was written stays what it is.
KindsKept == \A i \in Items : Kind(i) # "none" => Kind(i)' = Kind(i)

LEMMA LaneNames == \A h \in BOOLEAN : LaneOf(h) \in Lanes
  BY DEF LaneOf, Lanes

LEMMA QueueKeys ==
  ASSUME TypeOK, NEW lane \in Lanes
  PROVE  /\ queue[lane] \in Seq(Keys) /\ Len(queue[lane]) \in Nat
         /\ \A j \in 1 .. Len(queue[lane]) : queue[lane][j] \in Keys
<1>1. queue[lane] \in Seq(Keys)
  BY DEF TypeOK
<1> QED BY <1>1

LEMMA RowAt == ASSUME TypeOK, NEW k \in Keys PROVE rows[k] \in RowType
  BY DEF TypeOK

\* What is not due stands in no line.
LEMMA NotInQueue ==
  ASSUME LedgerInv, NEW k \in Keys, rows[k].status \notin Due
  PROVE  ~InQueue(k)
  BY DEF LedgerInv, LaneInv, InQueue

\* A statement that does not touch the lines leaves them as they are, if no row
\* that is due stops being due.
LEMMA LanesFrame ==
  ASSUME LedgerInv, UNCHANGED queue,
         \A k \in Keys : rows[k].status \in Due =>
             rows'[k].status \in Due /\ rows'[k].history = rows[k].history
  PROVE  \A lane \in Lanes : LaneInv(lane)'
<1> TAKE lane \in Lanes
<1>1. LaneInv(lane) /\ \A j \in 1 .. Len(queue[lane]) : queue[lane][j] \in Keys
  BY QueueKeys DEF LedgerInv
<1> QED BY <1>1 DEF LaneInv

\* An entry at either end of its line, when it stood in none.
LEMMA LineGrows ==
  ASSUME LedgerInv, NEW k \in Keys, NEW h \in BOOLEAN,
         queue' = LastInLine(k, h) \/ queue' = FirstInLine(k, h),
         ~InQueue(k), rows'[k].status \in Due, rows'[k].history = h,
         \A j \in Keys \ {k} : rows'[j] = rows[j]
  PROVE  queue' \in [Lanes -> Seq(Keys)] /\ \A lane \in Lanes : LaneInv(lane)'
<1> DEFINE l == LaneOf(h)
           q == queue[l]
<1>1. l \in Lanes /\ queue \in [Lanes -> Seq(Keys)] /\ q \in Seq(Keys) /\ Len(q) \in Nat
  BY LaneNames, QueueKeys DEF LedgerInv, TypeOK
<1>2. queue'[l] \in {Append(q, k), <<k>> \o q}
      /\ queue' \in [Lanes -> Seq(Keys)]
      /\ \A lane \in Lanes \ {l} : queue'[lane] = queue[lane]
  <2>1. CASE queue' = LastInLine(k, h)
    <3>1. queue' = [queue EXCEPT ![l] = Append(q, k)]
      BY <2>1 DEF LastInLine
    <3>2. Append(q, k) \in Seq(Keys)
      BY <1>1
    <3> HIDE DEF q, l
    <3> QED BY <1>1, <3>1, <3>2
  <2>2. CASE queue' = FirstInLine(k, h)
    <3>1. queue' = [queue EXCEPT ![l] = <<k>> \o q]
      BY <2>2 DEF FirstInLine
    <3>2. <<k>> \o q \in Seq(Keys)
      BY <1>1
    <3> HIDE DEF q, l
    <3> QED BY <1>1, <3>1, <3>2
  <2> QED BY <2>1, <2>2
<1>3. ASSUME NEW lane \in Lanes \ {l} PROVE LaneInv(lane)'
  <2>1. queue'[lane] = queue[lane] /\ LaneInv(lane)
    BY <1>2 DEF LedgerInv
  <2>2. \A j \in 1 .. Len(queue[lane]) : queue[lane][j] \in Keys \ {k}
    BY QueueKeys DEF InQueue, LedgerInv
  <2> QED BY <2>1, <2>2 DEF LaneInv
<1>4. LaneInv(l)'
  <2>1. LaneInv(l) /\ \A j \in 1 .. Len(q) : q[j] \in Keys \ {k}
    BY <1>1, QueueKeys DEF InQueue, LedgerInv
  <2>2. \A j \in 1 .. Len(q) : rows'[q[j]].status \in Due /\ LaneOf(rows'[q[j]].history) = l
    BY <2>1 DEF LaneInv
  <2>3. \A i, j \in 1 .. Len(q) : q[i] = q[j] => i = j
    BY <2>1 DEF LaneInv
  <2>4. LaneOf(rows'[k].history) = l
    OBVIOUS
  <2> HIDE DEF q, l
  <2>5. CASE queue'[l] = Append(q, k)
    <3>1. /\ Len(queue'[l]) = Len(q) + 1
          /\ \A j \in 1 .. Len(q) : queue'[l][j] = q[j]
          /\ queue'[l][Len(q) + 1] = k
      BY <1>1, <2>5
    <3>2. \A j \in 1 .. Len(q) + 1 : j \in 1 .. Len(q) \/ j = Len(q) + 1
      BY <1>1
    <3>3. \A j \in 1 .. Len(queue'[l]) : /\ rows'[queue'[l][j]].status \in Due
                                         /\ LaneOf(rows'[queue'[l][j]].history) = l
      BY <2>2, <2>4, <3>1, <3>2
    <3>4. \A i, j \in 1 .. Len(queue'[l]) : queue'[l][i] = queue'[l][j] => i = j
      BY <2>1, <2>3, <3>1, <3>2
    <3> QED BY <3>3, <3>4 DEF LaneInv
  <2>6. CASE queue'[l] = <<k>> \o q
    <3>1. /\ Len(queue'[l]) = Len(q) + 1
          /\ \A j \in 1 .. Len(q) : queue'[l][j + 1] = q[j]
          /\ queue'[l][1] = k
      BY <1>1, <2>6
    <3>2. \A j \in 1 .. Len(q) + 1 : j = 1 \/ (j - 1 \in 1 .. Len(q) /\ queue'[l][j] = q[j - 1])
      BY <1>1, <3>1
    <3>3. \A j \in 1 .. Len(queue'[l]) : /\ rows'[queue'[l][j]].status \in Due
                                         /\ LaneOf(rows'[queue'[l][j]].history) = l
      BY <2>2, <2>4, <3>1, <3>2
    <3>4. \A i, j \in 1 .. Len(queue'[l]) : queue'[l][i] = queue'[l][j] => i = j
      <4>1. ASSUME NEW i \in 1 .. Len(queue'[l]), NEW j \in 1 .. Len(queue'[l]),
                   queue'[l][i] = queue'[l][j]
            PROVE  i = j
        <5>1. i = 1 <=> j = 1
          BY <2>1, <3>1, <3>2, <4>1
        <5>2. i # 1 /\ j # 1 => i - 1 = j - 1
          BY <2>3, <3>1, <3>2, <4>1
        <5> QED BY <1>1, <3>1, <4>1, <5>1, <5>2
      <4> QED BY <4>1
    <3> QED BY <3>3, <3>4 DEF LaneInv
  <2> QED BY <1>2, <2>5, <2>6
<1> QED BY <1>2, <1>3, <1>4

LEMMA RowFrame ==
  ASSUME NEW k \in Keys, RowInv(k), KindsKept, rows'[k] = rows[k]
  PROVE  RowInv(k)'
<1>1. k[1] \in Items
  BY KeyParts
<1> QED BY <1>1 DEF RowInv, KindsKept

LEMMA HandFrame ==
  ASSUME LedgerInv, NEW w \in Workers, RowsKept, wk'[w] = wk[w]
  PROVE  HandInv(w)'
<1>1. wk[w].batch \subseteq Keys /\ HandInv(w)
  BY DEF LedgerInv, TypeOK, WorkerType
<1> QED BY <1>1 DEF HandInv, HandShape, RowsKept

-----------------------------------------------------------------------------
(* The steps of the ledger.                                                 *)

\* A statement that touches neither the ledger nor a worker.
LEMMA LedgerRests ==
  ASSUME LedgerInv, TypeOK', KindsKept, UNCHANGED <<rows, queue, wk>>,
         \A ev \in sent' : Kind(ev.item)' # "none"
  PROVE  LedgerInv'
<1>1. \A lane \in Lanes : LaneInv(lane)'
  BY LanesFrame
<1>2. \A k \in Keys : RowInv(k)'
  BY RowFrame DEF LedgerInv
<1>3. \A w \in Workers : HandInv(w)'
  BY HandFrame DEF RowsKept
<1> QED BY <1>1, <1>2, <1>3 DEF LedgerInv

\* A row that is being projected is settled, or its lease runs out.
RowMoves(k) ==
    \/ rows'[k] = rows[k]
    \/ /\ rows[k].status = "processing" /\ rows'[k].status # "none"
       /\ rows'[k].id = rows[k].id /\ rows'[k].history = rows[k].history
       /\ rows'[k].attempts = rows[k].attempts
       /\ rows'[k].owner # NoWorker => rows'[k].status = "processing"
       /\ rows'[k].status \in Due => rows[k].attempts < MaxAttempts

LEMMA RowMovesKeeps ==
  ASSUME LedgerInv, NEW k \in Keys, RowMoves(k), UNCHANGED plat
  PROVE  RowInv(k)'
<1>1. RowInv(k)
  BY DEF LedgerInv
<1>2. k[1] \in Items
  BY KeyParts
<1> QED BY <1>1, <1>2 DEF RowMoves, RowInv, Kind, Due

LEMMA MovesKeepRows ==
  ASSUME LedgerInv, \A k \in Keys : RowMoves(k)
  PROVE  /\ RowsKept
         /\ \A k \in Keys : rows[k].status \in Due =>
               rows'[k].status \in Due /\ rows'[k].history = rows[k].history
  BY DEF RowMoves, RowsKept, Due

\* A turn of a worker.
LEMMA WorkerTurn ==
  ASSUME LedgerInv, TypeOK', NEW w \in Workers, UNCHANGED <<plat, sent, queue>>,
         \A k \in Keys : RowMoves(k),
         wk'[w].batch \subseteq wk[w].batch, HandShape(w)',
         \A v \in Workers \ {w} : wk'[v] = wk[v]
  PROVE  LedgerInv'
<1>1. RowsKept /\ \A lane \in Lanes : LaneInv(lane)'
  BY MovesKeepRows, LanesFrame
<1>2. \A k \in Keys : RowInv(k)'
  BY RowMovesKeeps
<1>3. \A v \in Workers \ {w} : HandInv(v)'
  BY <1>1, HandFrame
<1>4. HandInv(w)'
  <2>1. HandInv(w) /\ wk[w].batch \subseteq Keys
    BY DEF LedgerInv, TypeOK, WorkerType
  <2> QED BY <1>1, <2>1 DEF HandInv, RowsKept
<1>5. \A ev \in sent' : Kind(ev.item)' # "none"
  BY DEF LedgerInv, Kind
<1> QED BY <1>1, <1>2, <1>3, <1>4, <1>5 DEF LedgerInv

\* The unique index lets a delivery in once (insertIgnoringDuplicate).
LEMMA InsertKeeps ==
  ASSUME LedgerInv, NEW k \in Keys, NEW n \in 0 .. MaxChanges, NEW h \in BOOLEAN,
         rows[k].status = "none", Kind(k[1]) # "none",
         rows' = [rows EXCEPT ![k] = Inserted(n, h)], queue' = LastInLine(k, h),
         UNCHANGED <<meta, wk, inbox, reward>>
  PROVE  LedgerInv'
<1>1. RowInv(k) /\ rows[k].id = 0 /\ TypeOK
  BY DEF LedgerInv, RowInv
<1>2. /\ Inserted(n, h) \in RowType
      /\ Inserted(n, h).status = "pending" /\ Inserted(n, h).owner = NoWorker
      /\ Inserted(n, h).attempts = 0 /\ Inserted(n, h).id # 0 /\ Inserted(n, h).history = h
  BY <1>1, InsertedRow
<1>3. /\ rows' \in [Keys -> RowType] /\ rows'[k] = Inserted(n, h)
      /\ \A j \in Keys \ {k} : rows'[j] = rows[j]
  BY <1>1, <1>2 DEF TypeOK
<1>4. ~InQueue(k)
  BY NotInQueue DEF Due
<1>5. queue' \in [Lanes -> Seq(Keys)] /\ \A lane \in Lanes : LaneInv(lane)'
  BY <1>2, <1>3, <1>4, LineGrows DEF Due
<1>6. KindsKept /\ RowsKept
  BY <1>3 DEF KindsKept, RowsKept, Kind, meta
<1>7. \A j \in Keys \ {k} : RowInv(j)'
  BY <1>3, <1>6, RowFrame DEF LedgerInv
<1>8. RowInv(k)'
  BY <1>2, <1>3, InboundAssumption DEF RowInv, Kind, meta
<1>9. \A w \in Workers : HandInv(w)'
  BY <1>6, HandFrame
<1>10. TypeOK'
  BY <1>1, <1>3, <1>5 DEF TypeOK, meta, inbox, reward
<1>11. \A ev \in sent' : Kind(ev.item)' # "none"
  BY DEF LedgerInv, Kind, meta
<1> QED BY <1>5, <1>7, <1>8, <1>9, <1>10, <1>11 DEF LedgerInv

\* Where the rows of a claim come from, and what it leaves behind.
LEMMA ClaimedRows ==
  ASSUME LedgerInv
  PROVE  /\ FirstRows \in SUBSET Keys
         /\ \A k \in FirstRows : rows[k].status \in Due
         /\ \A lane \in Lanes :
              /\ Taken(lane) \in 0 .. Len(queue[lane])
              /\ \A j \in 1 .. Len(queue[lane]) :
                    queue[lane][j] \in FirstRows <=> j <= Taken(lane)
<1>1. \A lane \in Lanes : Len(queue[lane]) \in Nat /\ Taken(lane) \in 0 .. Len(queue[lane])
  <2>1. \A lane \in Lanes : Len(queue[lane]) \in Nat
    BY QueueKeys DEF LedgerInv
  <2>2. LiveTaken \in 0 .. Len(queue["live"]) /\ LiveTaken <= BatchSize
    BY <2>1, InboundAssumption DEF LiveTaken, Lesser, Lanes
  <2>3. Lesser(BatchSize - LiveTaken, Len(queue["history"])) \in 0 .. Len(queue["history"])
    BY <2>1, <2>2, InboundAssumption DEF Lesser, Lanes
  <2> QED BY <2>1, <2>2, <2>3 DEF Taken, Lanes
<1>2. ASSUME NEW lane \in Lanes, NEW j \in 1 .. Len(queue[lane])
      PROVE  /\ queue[lane][j] \in Keys /\ rows[queue[lane][j]].status \in Due
             /\ LaneOf(rows[queue[lane][j]].history) = lane
  BY QueueKeys DEF LedgerInv, LaneInv
<1>3. \A k \in FirstRows : \E lane \in Lanes : \E j \in 1 .. Len(queue[lane]) :
          k = queue[lane][j] /\ j <= Taken(lane)
  <2>1. \A lane \in Lanes : \A k \in FirstOf(lane) : \E j \in 1 .. Len(queue[lane]) :
          k = queue[lane][j] /\ j <= Taken(lane)
    BY <1>1 DEF FirstOf
  <2> QED BY <2>1 DEF FirstRows, Lanes
<1>4. FirstRows \in SUBSET Keys /\ \A k \in FirstRows : rows[k].status \in Due
  BY <1>2, <1>3
<1>5. ASSUME NEW lane \in Lanes, NEW j \in 1 .. Len(queue[lane])
      PROVE  queue[lane][j] \in FirstRows <=> j <= Taken(lane)
  <2>1. ASSUME j <= Taken(lane) PROVE queue[lane][j] \in FirstRows
    <3>1. queue[lane][j] \in FirstOf(lane)
      BY <1>1, <2>1 DEF FirstOf
    <3> QED BY <3>1 DEF FirstRows, Lanes
  <2>2. ASSUME queue[lane][j] \in FirstRows PROVE j <= Taken(lane)
    <3>0. PICK other \in Lanes : \E i \in 1 .. Len(queue[other]) :
            queue[lane][j] = queue[other][i] /\ i <= Taken(other)
      BY <1>3, <2>2
    <3>1. PICK i \in 1 .. Len(queue[other]) :
            queue[lane][j] = queue[other][i] /\ i <= Taken(other)
      BY <3>0
    <3>2. other = lane
      BY <1>2, <3>1
    <3>3. i = j
      BY <3>1, <3>2 DEF LedgerInv, LaneInv
    <3> QED BY <3>1, <3>2, <3>3
  <2> QED BY <2>1, <2>2
<1> QED BY <1>1, <1>4, <1>5

\* A claim takes the rows at the head of the lines, each once, and gives each of
\* them one more attempt (claimBatch).
LEMMA ClaimEffect ==
  ASSUME LedgerInv, NEW w \in Workers, Claim(w)
  PROVE  /\ FirstRows \in SUBSET Keys
         /\ \A k \in FirstRows : /\ rows'[k] \in RowType /\ rows[k].status \in Due
                                 /\ rows'[k].status = "processing" /\ rows'[k].owner = w
                                 /\ rows'[k].attempts = rows[k].attempts + 1
                                 /\ rows'[k].id = rows[k].id
                                 /\ rows'[k].history = rows[k].history
                                 /\ rows'[k].leased = TRUE
         /\ \A k \in Keys \ FirstRows : rows'[k] = rows[k]
         /\ rows' \in [Keys -> RowType]
         /\ wk'[w].phase = "batch" /\ wk'[w].batch = FirstRows
         /\ wk'[w].at = NoKey /\ wk'[w].facts = wk[w].facts
         /\ \A v \in Workers \ {w} : wk'[v] = wk[v]
         /\ wk' \in [Workers -> WorkerType]
<1>1. FirstRows \in SUBSET Keys /\ \A k \in FirstRows : rows[k].status \in Due
  BY ClaimedRows
<1>2. \A k \in Keys : rows[k] \in RowType
  BY RowAt DEF LedgerInv
<1>3. \A k \in FirstRows : rows'[k] = Claimed(rows[k], w)
  BY <1>1 DEF Claim
<1>4. \A k \in Keys \ FirstRows : rows'[k] = rows[k]
  BY DEF Claim
<1>5. \A k \in FirstRows : /\ rows'[k] \in RowType
                           /\ rows'[k].status = "processing" /\ rows'[k].owner = w
                           /\ rows'[k].attempts = rows[k].attempts + 1
                           /\ rows'[k].id = rows[k].id
                           /\ rows'[k].history = rows[k].history
                           /\ rows'[k].leased = TRUE
  <2> TAKE k \in FirstRows
  <2>1. rows[k] \in RowType /\ rows'[k] = Claimed(rows[k], w)
    BY <1>1, <1>2, <1>3
  <2> DEFINE r == rows[k]
  <2>2. /\ Claimed(r, w) \in RowType
        /\ Claimed(r, w).status = "processing" /\ Claimed(r, w).owner = w
        /\ Claimed(r, w).attempts = r.attempts + 1 /\ Claimed(r, w).id = r.id
        /\ Claimed(r, w).history = r.history /\ Claimed(r, w).leased = TRUE
    <3> HIDE DEF r
    <3>1. r \in RowType
      BY <2>1 DEF r
    <3> QED BY <3>1, ClaimedRow
  <2> QED BY <2>1, <2>2
<1>6. rows' \in [Keys -> RowType]
  <2>1. \A k \in Keys : rows'[k] \in RowType
    BY <1>2, <1>4, <1>5
  <2>2. rows' = [k \in Keys |-> rows'[k]]
    BY DEF Claim
  <2> QED BY <2>1, <2>2
<1> DEFINE S == FirstRows
           n == [wk[w] EXCEPT !.phase = "batch", !.batch = S]
<1>7. wk' = [wk EXCEPT ![w] = n]
  BY DEF Claim
<1>8. wk[w] \in WorkerType /\ wk[w].at = NoKey /\ wk \in [Workers -> WorkerType]
  BY DEF LedgerInv, TypeOK, HandInv, HandShape, Claim
<1>9. /\ n.phase = "batch" /\ n.batch = S /\ n.at = NoKey /\ n.facts = wk[w].facts
      /\ n \in WorkerType
  <2>1. S \in SUBSET Keys
    BY <1>1
  <2> HIDE DEF S
  <2> QED BY <1>8, <2>1 DEF WorkerType, Phases
<1>10. wk' \in [Workers -> WorkerType] /\ wk'[w] = n /\ \A v \in Workers \ {w} : wk'[v] = wk[v]
  <2> HIDE DEF n
  <2> QED BY <1>7, <1>8, <1>9
<1> QED BY <1>1, <1>4, <1>5, <1>6, <1>9, <1>10

LEMMA ClaimKeepsLanes ==
  ASSUME LedgerInv, NEW w \in Workers, Claim(w)
  PROVE  queue' \in [Lanes -> Seq(Keys)] /\ \A lane \in Lanes : LaneInv(lane)'
<1>1. \A lane \in Lanes :
         /\ queue[lane] \in Seq(Keys) /\ Len(queue[lane]) \in Nat
         /\ Taken(lane) \in 0 .. Len(queue[lane])
         /\ queue'[lane] = SubSeq(queue[lane], Taken(lane) + 1, Len(queue[lane]))
  BY QueueKeys, ClaimedRows DEF LedgerInv, Claim
<1>2. ASSUME NEW lane \in Lanes
      PROVE  /\ queue'[lane] \in Seq(Keys)
             /\ Len(queue'[lane]) = Len(queue[lane]) - Taken(lane)
             /\ \A j \in 1 .. Len(queue'[lane]) :
                   /\ j + Taken(lane) \in 1 .. Len(queue[lane])
                   /\ queue'[lane][j] = queue[lane][j + Taken(lane)]
  <2> DEFINE q == queue[lane]
             t == Taken(lane)
  <2>1. q \in Seq(Keys) /\ Len(q) \in Nat /\ t \in 0 .. Len(q)
        /\ queue'[lane] = SubSeq(q, t + 1, Len(q))
    BY <1>1
  <2> HIDE DEF q, t
  <2>2. SubSeq(q, t + 1, Len(q)) \in Seq(Keys)
    BY <2>1
  <2>3. Len(SubSeq(q, t + 1, Len(q))) = Len(q) - t
    BY <2>1
  <2>4. \A j \in 1 .. Len(q) - t : SubSeq(q, t + 1, Len(q))[j] = q[j + t]
    BY <2>1
  <2> QED BY <2>1, <2>2, <2>3, <2>4 DEF q, t
<1>3. queue' \in [Lanes -> Seq(Keys)]
  <2>1. queue' = [lane \in Lanes |-> queue'[lane]]
    BY DEF Claim
  <2> QED BY <1>2, <2>1
<1>4. ASSUME NEW lane \in Lanes PROVE LaneInv(lane)'
  <2>1. ASSUME NEW j \in 1 .. Len(queue'[lane])
        PROVE  rows'[queue'[lane][j]] = rows[queue'[lane][j]]
    <3>1. /\ j + Taken(lane) \in 1 .. Len(queue[lane]) /\ j \in Nat \ {0}
          /\ queue'[lane][j] = queue[lane][j + Taken(lane)]
          /\ Taken(lane) \in Nat
      BY <1>1, <1>2
    <3>2. queue'[lane][j] \notin FirstRows
      BY <3>1, ClaimedRows
    <3>3. queue'[lane][j] \in Keys
      BY <3>1, QueueKeys DEF LedgerInv
    <3> QED BY <3>2, <3>3, ClaimEffect
  <2>2. \A j \in 1 .. Len(queue'[lane]) : /\ rows'[queue'[lane][j]].status \in Due
                                          /\ LaneOf(rows'[queue'[lane][j]].history) = lane
    BY <1>2, <2>1 DEF LedgerInv, LaneInv
  <2>3. ASSUME NEW i \in 1 .. Len(queue'[lane]), NEW j \in 1 .. Len(queue'[lane]),
               queue'[lane][i] = queue'[lane][j]
        PROVE  i = j
    <3>1. i + Taken(lane) = j + Taken(lane)
      BY <1>2, <2>3 DEF LedgerInv, LaneInv
    <3> QED BY <1>1, <3>1
  <2> QED BY <2>2, <2>3 DEF LaneInv
<1> QED BY <1>3, <1>4

LEMMA ClaimKeeps ==
  ASSUME LedgerInv, NEW w \in Workers, Claim(w)
  PROVE  LedgerInv'
<1>1. queue' \in [Lanes -> Seq(Keys)] /\ \A lane \in Lanes : LaneInv(lane)'
  BY ClaimKeepsLanes
<1>2. /\ FirstRows \in SUBSET Keys
      /\ \A k \in FirstRows : /\ rows'[k] \in RowType /\ rows[k].status \in Due
                              /\ rows'[k].status = "processing" /\ rows'[k].owner = w
                              /\ rows'[k].attempts = rows[k].attempts + 1
                              /\ rows'[k].id = rows[k].id
                              /\ rows'[k].history = rows[k].history
      /\ \A k \in Keys \ FirstRows : rows'[k] = rows[k]
      /\ rows' \in [Keys -> RowType]
      /\ wk'[w].phase = "batch" /\ wk'[w].batch = FirstRows /\ wk'[w].at = NoKey
      /\ \A v \in Workers \ {w} : wk'[v] = wk[v]
      /\ wk' \in [Workers -> WorkerType]
  BY ClaimEffect
<1>3. UNCHANGED <<plat, sent, resync, msg, thread, reading, offered, reversed>>
  BY DEF Claim, meta, inbox, reward
<1>4. TypeOK'
  BY <1>1, <1>2, <1>3 DEF LedgerInv, TypeOK
<1>5. KindsKept /\ RowsKept
  BY <1>2, <1>3 DEF KindsKept, RowsKept, Kind
<1>6. ASSUME NEW k \in Keys PROVE RowInv(k)'
  <2>1. RowInv(k) /\ rows[k] \in RowType
    BY RowAt DEF LedgerInv
  <2>2. CASE k \in FirstRows
    BY <1>2, <1>3, <2>1, <2>2, InboundAssumption DEF RowInv, Due, Kind, RowType
  <2>3. CASE k \notin FirstRows
    BY <1>2, <1>5, <2>1, <2>3, RowFrame
  <2> QED BY <2>2, <2>3
<1>7. \A v \in Workers \ {w} : HandInv(v)'
  BY <1>2, <1>5, HandFrame
<1>8. HandInv(w)'
  BY <1>2 DEF HandInv, HandShape
<1>9. \A ev \in sent' : Kind(ev.item)' # "none"
  BY <1>3 DEF LedgerInv, Kind
<1> QED BY <1>1, <1>4, <1>6, <1>7, <1>8, <1>9 DEF LedgerInv

\* The lease runs out, or the reaper returns a row (reclaimExpiredLeases).
LEMMA LeaseExpiresEffect ==
  ASSUME LedgerInv, NEW k \in Keys, LeaseExpires(k)
  PROVE  /\ rows' \in [Keys -> RowType] /\ \A j \in Keys \ {k} : rows'[j] = rows[j]
         /\ rows'[k].status = rows[k].status /\ rows'[k].owner = rows[k].owner
         /\ rows'[k].id = rows[k].id /\ rows'[k].history = rows[k].history
         /\ rows'[k].attempts = rows[k].attempts /\ rows'[k].leased = FALSE
<1> DEFINE n == [rows[k] EXCEPT !.leased = FALSE]
<1>1. rows \in [Keys -> RowType] /\ rows[k] \in RowType
  BY DEF LedgerInv, TypeOK
<1>2. /\ n \in RowType /\ n.status = rows[k].status /\ n.owner = rows[k].owner
      /\ n.id = rows[k].id /\ n.history = rows[k].history
      /\ n.attempts = rows[k].attempts /\ n.leased = FALSE
  BY <1>1 DEF RowType
<1>3. rows' = [rows EXCEPT ![k] = n]
  BY DEF LeaseExpires
<1> HIDE DEF n
<1> QED BY <1>1, <1>2, <1>3

LEMMA LeaseExpiresKeeps ==
  ASSUME LedgerInv, NEW k \in Keys, LeaseExpires(k)
  PROVE  LedgerInv'
<1>1. /\ rows' \in [Keys -> RowType] /\ \A j \in Keys \ {k} : rows'[j] = rows[j]
      /\ rows'[k].status = rows[k].status /\ rows'[k].owner = rows[k].owner
      /\ rows'[k].id = rows[k].id /\ rows'[k].history = rows[k].history
      /\ rows'[k].attempts = rows[k].attempts
  BY LeaseExpiresEffect
<1>2. UNCHANGED <<plat, sent, resync, queue, wk, msg, thread, reading, offered, reversed>>
  BY DEF LeaseExpires, meta, inbox, reward
<1>3. \A j \in Keys : RowMoves(j)
  BY <1>1 DEF RowMoves, LeaseExpires, Due
<1>4. RowsKept /\ \A lane \in Lanes : LaneInv(lane)'
  BY <1>2, <1>3, MovesKeepRows, LanesFrame
<1>5. \A j \in Keys : RowInv(j)'
  BY <1>2, <1>3, RowMovesKeeps
<1>6. \A w \in Workers : HandInv(w)'
  BY <1>2, <1>4, HandFrame
<1>7. TypeOK' /\ \A ev \in sent' : Kind(ev.item)' # "none"
  BY <1>1, <1>2 DEF LedgerInv, TypeOK, Kind
<1> QED BY <1>4, <1>5, <1>6, <1>7 DEF LedgerInv

LEMMA ReclaimEffect ==
  ASSUME LedgerInv, NEW k \in Keys, Reclaim(k)
  PROVE  /\ rows' \in [Keys -> RowType] /\ \A j \in Keys \ {k} : rows'[j] = rows[j]
         /\ rows[k].status = "processing" /\ rows[k].leased = FALSE
         /\ rows'[k].status = IF rows[k].attempts >= MaxAttempts THEN "dead_letter" ELSE "pending"
         /\ rows'[k].owner = NoWorker /\ rows'[k].leased = FALSE
         /\ rows'[k].id = rows[k].id /\ rows'[k].history = rows[k].history
         /\ rows'[k].attempts = rows[k].attempts
         /\ queue' = IF rows'[k].status = "pending" THEN FirstInLine(k, rows[k].history) ELSE queue
<1> DEFINE s == IF OutOfAttempts(rows[k]) THEN "dead_letter" ELSE "pending"
<1>1. rows \in [Keys -> RowType] /\ rows[k] \in RowType /\ s \in RowStatuses
  BY DEF LedgerInv, TypeOK, RowStatuses, SettledStatuses
<1>2. Reclaimed(rows[k]) = Release(rows[k], s)
  BY DEF Reclaimed
<1>3. rows' = [rows EXCEPT ![k] = Release(rows[k], s)]
  BY <1>2 DEF Reclaim
<1>4. s = IF rows[k].attempts >= MaxAttempts THEN "dead_letter" ELSE "pending"
  BY DEF OutOfAttempts
<1> HIDE DEF s
<1>5. /\ Release(rows[k], s) \in RowType
      /\ Release(rows[k], s).status = s /\ Release(rows[k], s).owner = NoWorker
      /\ Release(rows[k], s).attempts = rows[k].attempts /\ Release(rows[k], s).id = rows[k].id
      /\ Release(rows[k], s).history = rows[k].history /\ Release(rows[k], s).leased = FALSE
  BY <1>1, ReleasedRow
<1>6. /\ rows' \in [Keys -> RowType] /\ \A j \in Keys \ {k} : rows'[j] = rows[j]
      /\ rows'[k] = Release(rows[k], s)
  BY <1>1, <1>3, <1>5
<1>7. rows[k].status = "processing" /\ rows[k].leased = FALSE
  BY <1>1 DEF Reclaim, Reapable, RowType
<1>8. queue' = IF rows'[k].status = "pending" THEN FirstInLine(k, rows[k].history) ELSE queue
  BY <1>2, <1>6 DEF Reclaim
<1> QED BY <1>4, <1>5, <1>6, <1>7, <1>8

LEMMA ReclaimKeeps ==
  ASSUME LedgerInv, NEW k \in Keys, Reclaim(k)
  PROVE  LedgerInv'
<1>1. /\ rows' \in [Keys -> RowType] /\ \A j \in Keys \ {k} : rows'[j] = rows[j]
      /\ rows[k].status = "processing"
      /\ rows'[k].status = IF rows[k].attempts >= MaxAttempts THEN "dead_letter" ELSE "pending"
      /\ rows'[k].owner = NoWorker
      /\ rows'[k].id = rows[k].id /\ rows'[k].history = rows[k].history
      /\ rows'[k].attempts = rows[k].attempts
      /\ queue' = IF rows'[k].status = "pending" THEN FirstInLine(k, rows[k].history) ELSE queue
  BY ReclaimEffect
<1>2. UNCHANGED <<plat, sent, resync, wk, msg, thread, reading, offered, reversed>>
  BY DEF Reclaim, meta, inbox, reward
<1>3. RowMoves(k)
  <2>1. rows[k].attempts \in Nat /\ MaxAttempts \in Nat
    BY RowAt, InboundAssumption DEF LedgerInv, RowType
  <2> QED BY <1>1, <2>1 DEF RowMoves, Due
<1>4. \A j \in Keys : RowMoves(j)
  BY <1>1, <1>3 DEF RowMoves
<1>5. RowsKept /\ \A j \in Keys : rows[j].status \in Due =>
                     rows'[j].status \in Due /\ rows'[j].history = rows[j].history
  BY <1>4, MovesKeepRows
<1>6. queue' \in [Lanes -> Seq(Keys)] /\ \A lane \in Lanes : LaneInv(lane)'
  <2>1. CASE rows'[k].status = "pending"
    <3>1. ~InQueue(k)
      BY <1>1, NotInQueue DEF Due
    <3>2. rows[k].history \in BOOLEAN
      BY RowAt DEF LedgerInv, RowType
    <3> QED BY <1>1, <2>1, <3>1, <3>2, LineGrows DEF Due
  <2>2. CASE rows'[k].status # "pending"
    BY <1>1, <1>5, <2>2, LanesFrame DEF LedgerInv, TypeOK
  <2> QED BY <2>1, <2>2
<1>7. \A j \in Keys : RowInv(j)'
  BY <1>2, <1>4, RowMovesKeeps
<1>8. \A w \in Workers : HandInv(w)'
  BY <1>2, <1>5, HandFrame
<1>9. TypeOK' /\ \A ev \in sent' : Kind(ev.item)' # "none"
  BY <1>1, <1>2, <1>6 DEF LedgerInv, TypeOK, Kind
<1> QED BY <1>6, <1>7, <1>8, <1>9 DEF LedgerInv

LEMMA BecomeDueKeeps ==
  ASSUME LedgerInv, NEW k \in Keys, BecomeDue(k)
  PROVE  LedgerInv'
<1>1. UNCHANGED <<plat, sent, resync, rows, wk, msg, thread, reading, offered, reversed>>
  BY DEF BecomeDue, meta, inbox, reward
<1>2. rows[k].status = "failed" /\ rows[k].history \in BOOLEAN /\ ~InQueue(k)
  BY RowAt DEF LedgerInv, RowType, BecomeDue
<1>3. queue' \in [Lanes -> Seq(Keys)] /\ \A lane \in Lanes : LaneInv(lane)'
  BY <1>1, <1>2, LineGrows DEF BecomeDue, Due
<1>4. KindsKept /\ RowsKept
  BY <1>1 DEF KindsKept, RowsKept, Kind
<1>5. \A j \in Keys : RowInv(j)'
  BY <1>1, <1>4, RowFrame DEF LedgerInv
<1>6. \A w \in Workers : HandInv(w)'
  BY <1>1, <1>4, HandFrame
<1>7. TypeOK' /\ \A ev \in sent' : Kind(ev.item)' # "none"
  BY <1>1, <1>3 DEF LedgerInv, TypeOK, Kind
<1> QED BY <1>3, <1>5, <1>6, <1>7 DEF LedgerInv

-----------------------------------------------------------------------------
(* The platform.                                                            *)

LEMMA WriteEffect ==
  ASSUME LedgerInv, NEW i \in Items, NEW kd \in Kinds, Write(i, kd)
  PROVE  /\ plat' \in [Items -> PlatType] /\ Kind(i)' = kd /\ kd # "none"
         /\ Kind(i) = "none"
         /\ \A j \in Items \ {i} : Kind(j)' = Kind(j)
         /\ sent' \in SUBSET Event /\ \A ev \in sent' : ev \in sent \/ ev.item = i
         /\ msg' \in [Items -> MsgType]
         /\ \A j \in Items \ {i} : msg'[j] = msg[j]
         /\ kd # "echo" => msg' = msg
         /\ kd = "echo" => msg'[i] = [msg[i] EXCEPT !.stored = TRUE]
<1>1. plat \in [Items -> PlatType] /\ msg \in [Items -> MsgType] /\ sent \in SUBSET Event
  BY DEF LedgerInv, TypeOK
<1>2. kd \in ItemKinds /\ kd # "none"
  BY InboundAssumption DEF ItemKinds
<1>3. /\ plat' \in [Items -> PlatType] /\ Kind(i)' = kd
      /\ \A j \in Items \ {i} : Kind(j)' = Kind(j)
  <2> DEFINE p == [plat[i] EXCEPT !.kind = kd, !.nr = 1]
  <2>1. p \in PlatType /\ p.kind = kd
    <3>1. 1 \in 0 .. MaxChanges /\ plat[i] \in PlatType
      BY <1>1, InboundAssumption
    <3> QED BY <1>2, <3>1 DEF PlatType
  <2>2. plat' = [plat EXCEPT ![i] = p]
    BY DEF Write
  <2> HIDE DEF p
  <2> QED BY <1>1, <2>1, <2>2 DEF Kind
<1>4. sent' \in SUBSET Event /\ \A ev \in sent' : ev \in sent \/ ev.item = i
  <2> DEFINE e == [item |-> i, verb |-> "add", nr |-> 1]
  <2>1. e \in Event /\ e.item = i
    BY InboundAssumption DEF Event, Verbs
  <2>2. sent' = sent \cup {e}
    BY DEF Write
  <2> HIDE DEF e
  <2> QED BY <1>1, <2>1, <2>2
<1>5. /\ msg' \in [Items -> MsgType]
      /\ \A j \in Items \ {i} : msg'[j] = msg[j]
      /\ kd # "echo" => msg' = msg
      /\ kd = "echo" => msg'[i] = [msg[i] EXCEPT !.stored = TRUE]
  <2> DEFINE m == [msg[i] EXCEPT !.stored = TRUE]
  <2>1. m \in MsgType
    BY <1>1 DEF MsgType
  <2>2. msg' = IF kd = "echo" THEN [msg EXCEPT ![i] = m] ELSE msg
    BY DEF Write
  <2> HIDE DEF m
  <2>3. kd = "echo" => msg'[i] = m
    BY <1>1, <2>2
  <2>4. kd = "echo" => msg'[i] = [msg[i] EXCEPT !.stored = TRUE]
    BY <2>3 DEF m
  <2> QED BY <1>1, <2>1, <2>2, <2>4
<1> QED BY <1>2, <1>3, <1>4, <1>5 DEF Write

LEMMA WriteKeeps ==
  ASSUME LedgerInv, NEW i \in Items, NEW kd \in Kinds, Write(i, kd)
  PROVE  LedgerInv'
<1>1. /\ plat' \in [Items -> PlatType] /\ Kind(i)' = kd /\ kd # "none" /\ Kind(i) = "none"
      /\ \A j \in Items \ {i} : Kind(j)' = Kind(j)
      /\ sent' \in SUBSET Event /\ \A ev \in sent' : ev \in sent \/ ev.item = i
      /\ msg' \in [Items -> MsgType]
  BY WriteEffect
<1>2. UNCHANGED <<resync, rows, queue, wk, thread, reading, offered, reversed>>
  BY DEF Write, ledger, reward
<1>3. TypeOK'
  BY <1>1, <1>2 DEF LedgerInv, TypeOK
<1>4. KindsKept
  BY <1>1 DEF KindsKept
<1>5. ASSUME NEW ev \in sent' PROVE Kind(ev.item)' # "none"
  <2>1. ev.item \in Items
    BY <1>1 DEF Event
  <2> QED BY <1>1, <1>4, <2>1 DEF KindsKept, LedgerInv
<1> QED BY <1>2, <1>3, <1>4, <1>5, LedgerRests

LEMMA ChangeEffect ==
  ASSUME LedgerInv, NEW i \in Items, NEW v \in Moderations, Change(i, v)
  PROVE  /\ plat' \in [Items -> PlatType] /\ \A j \in Items : Kind(j)' = Kind(j)
         /\ sent' \in SUBSET Event /\ \A ev \in sent' : ev \in sent \/ ev.item = i
         /\ Kind(i) # "none"
<1>1. plat \in [Items -> PlatType] /\ sent \in SUBSET Event
  BY DEF LedgerInv, TypeOK
<1>2. plat[i].nr + 1 \in 1 .. MaxChanges
  BY <1>1, InboundAssumption DEF Change, PlatType
<1>3. plat' \in [Items -> PlatType] /\ \A j \in Items : Kind(j)' = Kind(j)
  <2> DEFINE p == Changed(plat[i], v)
  <2>1. p \in PlatType /\ p.kind = plat[i].kind
    <3> DEFINE n == plat[i].nr + 1
               h == IF v = "hide" THEN TRUE ELSE IF v = "unhide" THEN FALSE ELSE plat[i].hidden
               r == plat[i].removed \/ v = "remove"
               b == IF v = "edit" THEN n ELSE plat[i].body
    <3>1. plat[i] \in PlatType /\ n \in 0 .. MaxChanges /\ b \in 0 .. MaxChanges
      BY <1>1, <1>2 DEF PlatType
    <3>0. h \in BOOLEAN /\ r \in BOOLEAN
      BY <1>1, Zenon DEF PlatType
    <3>2. p = [plat[i] EXCEPT !.nr = n, !.hidden = h, !.removed = r, !.body = b]
      BY DEF Changed
    <3> HIDE DEF n, h, r, b, p
    <3>3. p \in PlatType
      BY <3>0, <3>1, <3>2 DEF PlatType
    <3>4. p.kind = plat[i].kind
      BY <3>1, <3>2 DEF PlatType
    <3> QED BY <3>3, <3>4
  <2>2. plat' = [plat EXCEPT ![i] = p]
    BY DEF Change
  <2> HIDE DEF p
  <2> QED BY <1>1, <2>1, <2>2 DEF Kind
<1>4. sent' \in SUBSET Event /\ \A ev \in sent' : ev \in sent \/ ev.item = i
  <2> DEFINE e == [item |-> i, verb |-> v, nr |-> plat[i].nr + 1]
  <2>1. e \in Event /\ e.item = i
    BY <1>2 DEF Event, Verbs
  <2>2. sent' = sent \cup {e}
    BY DEF Change
  <2> HIDE DEF e
  <2> QED BY <1>1, <2>1, <2>2
<1>5. Kind(i) # "none"
  BY DEF Change, Changeable
<1> QED BY <1>3, <1>4, <1>5

LEMMA ChangeKeeps ==
  ASSUME LedgerInv, NEW i \in Items, NEW v \in Moderations, Change(i, v)
  PROVE  LedgerInv'
<1>1. /\ plat' \in [Items -> PlatType] /\ \A j \in Items : Kind(j)' = Kind(j)
      /\ sent' \in SUBSET Event /\ \A ev \in sent' : ev \in sent \/ ev.item = i
      /\ Kind(i) # "none"
  BY ChangeEffect
<1>2. UNCHANGED <<resync, rows, queue, wk, msg, thread, reading, offered, reversed>>
  BY DEF Change, ledger, inbox, reward
<1>3. TypeOK' /\ KindsKept
  BY <1>1, <1>2 DEF LedgerInv, TypeOK, KindsKept
<1>4. ASSUME NEW ev \in sent' PROVE Kind(ev.item)' # "none"
  <2>1. ev.item \in Items
    BY <1>1 DEF Event
  <2> QED BY <1>1, <2>1 DEF LedgerInv
<1> QED BY <1>2, <1>3, <1>4, LedgerRests

-----------------------------------------------------------------------------
(* The inbox.  What is not stored has left no trace, an echo is stored before *)
(* its row comes, at most one worker holds the facts of a stored message, and *)
(* whoever is about to settle a row as done has seen its message stored.     *)

Blank(i) == ~msg[i].stored => msg[i] = NoMsg /\ offered[i] = 0

KindInv(i) ==
    /\ Kind(i) = "none" => ~msg[i].stored
    /\ Kind(i) = "echo" => msg[i].stored

AddKey(i) == <<i, "add">>

Triggers(w, i) == wk[w].facts = "trigger" /\ wk[w].at = AddKey(i)

TriggerInv(i) ==
    /\ offered[i] <= 1
    /\ \A w \in Workers : Triggers(w, i) => msg[i].stored /\ offered[i] = 0
    /\ \A v, w \in Workers : Triggers(v, i) /\ Triggers(w, i) => v = w

\* A message is expected of every row but those of our own comments and of the
\* live mentions nobody could resolve.
Expected(i) ==
    /\ Kind(i) # "own_comment"
    /\ Kind(i) = "mention" => rows[AddKey(i)].history

DoneInv(i) ==
    \A w \in Workers :
        wk[w].phase \in {"projected", "skipping"} /\ wk[w].at = AddKey(i) /\ Expected(i)
            => msg[i].stored

DropInv(i) ==
    rows[AddKey(i)].status \in {"processed", "skipped"} /\ Expected(i) => msg[i].stored

ItemInv(i) == Blank(i) /\ KindInv(i) /\ TriggerInv(i) /\ DoneInv(i) /\ DropInv(i)

FactsAtAdd == \A w \in Workers : wk[w].facts = "trigger" => \E i \in Items : wk[w].at = AddKey(i)

ProjectorInv ==
    LedgerInv /\ FactsAtAdd /\ (\A i \in Items : ItemInv(i)) /\ CountersExact /\ BadgeShowsUnread

LEMMA AddKeys ==
  /\ \A i \in Items : AddKey(i) \in Keys /\ AddKey(i) # NoKey /\ AddKey(i)[1] = i /\ AddKey(i)[2] = "add"
  /\ \A i, j \in Items : AddKey(i) = AddKey(j) => i = j
  /\ \A k \in Keys : k[2] = "add" => k = AddKey(k[1])
  BY KeyParts, NoKeyIsNoKey DEF AddKey

LEMMA StoredEffect ==
  ASSUME NEW m \in MsgType, NEW inbound \in BOOLEAN, NEW body \in 0 .. MaxChanges
  PROVE  /\ Stored(m, inbound, body) \in MsgType /\ Stored(m, inbound, body).stored
         /\ m.stored => Stored(m, inbound, body) = m
         /\ ~m.stored => /\ Stored(m, inbound, body).inbound = inbound
                         /\ Stored(m, inbound, body).read = ~inbound
<1>1. CASE m.stored
  BY <1>1 DEF Stored, Inserts
<1>2. CASE ~m.stored
  <2> DEFINE n == [m EXCEPT !.stored = TRUE, !.inbound = inbound, !.read = ~inbound, !.body = body]
  <2>1. Stored(m, inbound, body) = n
    BY <1>2 DEF Stored, Inserts
  <2>2. n \in MsgType /\ n.stored /\ n.inbound = inbound /\ n.read = ~inbound
    BY DEF MsgType
  <2> QED BY <1>2, <2>1, <2>2
<1> QED BY <1>1, <1>2

LEMMA ModeratedEffect ==
  ASSUME NEW m \in MsgType, NEW v, NEW n \in 0 .. MaxChanges
  PROVE  /\ Moderated(m, v, n) \in MsgType
         /\ Moderated(m, v, n).stored = m.stored /\ Moderated(m, v, n).inbound = m.inbound
         /\ Moderated(m, v, n).read = m.read
<1> DEFINE b == IF v = "edit" THEN n ELSE m.body
           h == IF v = "hide" THEN TRUE ELSE IF v = "unhide" THEN FALSE ELSE m.hidden
           r == m.removed \/ v = "remove"
<1>1. b \in 0 .. MaxChanges
  BY DEF MsgType
<1>2. h \in BOOLEAN /\ r \in BOOLEAN
  BY Zenon DEF MsgType
<1>3. Moderated(m, v, n) = [m EXCEPT !.body = b, !.hidden = h, !.removed = r]
  BY DEF Moderated
<1> HIDE DEF b, h, r
<1>4. Moderated(m, v, n) \in MsgType
  BY <1>1, <1>2, <1>3 DEF MsgType
<1>5. /\ Moderated(m, v, n).stored = m.stored /\ Moderated(m, v, n).inbound = m.inbound
      /\ Moderated(m, v, n).read = m.read
  BY <1>3 DEF MsgType
<1> QED BY <1>4, <1>5

\* The message of an item is what it was, but for its wording and its flags.
MsgHolds(i) ==
    /\ msg'[i].stored = msg[i].stored /\ msg'[i].inbound = msg[i].inbound
    /\ msg'[i].read = msg[i].read
    /\ ~msg[i].stored => msg'[i] = msg[i]

\* What every projection of a row has in common.
Projects(w, k, p, f) ==
    /\ wk[w].phase = "batch" /\ k \in wk[w].batch /\ GoTo(w, k, p, f)
    /\ UNCHANGED <<plat, sent, rows, queue, reading, offered, reversed>>
    /\ msg' \in [Items -> MsgType] /\ thread' \in ThreadType /\ resync' \in BOOLEAN
    /\ \A i \in Items \ {k[1]} : msg'[i] = msg[i]

\* The transaction that lets no message in, and the one that does.
AddsNone(w, k, p, f) ==
    /\ Projects(w, k, p, f)
    /\ p \in {"projected", "skipping", "failing"} /\ f \in {"none", "reversal"}
    /\ thread' = thread /\ MsgHolds(k[1])
    /\ p # "failing" /\ k[2] = "add" /\ Expected(k[1]) => msg[k[1]].stored

AddsOne(w, k, f) ==
    /\ Projects(w, k, "projected", f)
    /\ f \in {"none", "trigger"} /\ k[2] = "add" /\ Kind(k[1]) \notin {"none", "echo"}
    /\ ~msg[k[1]].stored /\ msg'[k[1]].stored
    /\ msg'[k[1]].read = ~msg'[k[1]].inbound
    /\ thread'.count = thread.count + 1
    /\ thread'.unread = IF msg'[k[1]].inbound THEN thread.unread + 1 ELSE thread.unread

LEMMA CountedEffect ==
  ASSUME NEW t \in ThreadType, NEW m \in MsgType, NEW inbound \in BOOLEAN
  PROVE  /\ Counted(t, m, inbound) \in ThreadType
         /\ m.stored => Counted(t, m, inbound) = t
         /\ ~m.stored => /\ Counted(t, m, inbound).count = t.count + 1
                         /\ Counted(t, m, inbound).unread = IF inbound THEN t.unread + 1 ELSE t.unread
<1>1. CASE m.stored
  BY <1>1 DEF Counted, Inserts
<1>2. CASE ~m.stored
  <2> DEFINE c == t.count + 1
             u == IF inbound THEN t.unread + 1 ELSE t.unread
  <2>1. c \in Nat /\ u \in Nat
    BY DEF ThreadType
  <2>2. Counted(t, m, inbound) = [t EXCEPT !.count = c, !.unread = u]
    BY <1>2 DEF Counted, Inserts
  <2>3. [t EXCEPT !.count = c, !.unread = u] \in ThreadType
        /\ [t EXCEPT !.count = c, !.unread = u].count = c
        /\ [t EXCEPT !.count = c, !.unread = u].unread = u
    <3> HIDE DEF c, u
    <3> QED BY <2>1 DEF ThreadType
  <2> QED BY <1>2, <2>2, <2>3
<1> QED BY <1>1, <1>2

LEMMA TypeParts ==
  ASSUME ProjectorInv
  PROVE  /\ TypeOK /\ msg \in [Items -> MsgType] /\ thread \in ThreadType /\ resync \in BOOLEAN
         /\ wk \in [Workers -> WorkerType] /\ rows \in [Keys -> RowType]
         /\ offered \in [Items -> Nat]
  BY DEF ProjectorInv, LedgerInv, TypeOK

LEMMA WordingType ==
  ASSUME ProjectorInv, NEW k \in Keys
  PROVE  Wording(k) \in 0 .. MaxChanges /\ rows[k].nr \in 0 .. MaxChanges
<1>1. rows[k].nr \in 0 .. MaxChanges /\ MaxChanges \in Nat \ {0}
  BY TypeParts, InboundAssumption DEF RowType
<1> QED BY <1>1 DEF Wording

\* A worker projects rows of items that were written.
LEMMA ProjectingEffect ==
  ASSUME ProjectorInv, NEW w \in Workers, NEW k \in Keys, Projecting(w, k)
  PROVE  /\ wk[w].phase = "batch" /\ k \in wk[w].batch
         /\ k[1] \in Items /\ Kind(k[1]) # "none" /\ ItemInv(k[1])
<1>1. wk[w].phase = "batch" /\ k \in wk[w].batch /\ k[1] \in Items
  BY KeyParts DEF Projecting
<1>2. HandInv(w) /\ RowInv(k)
  BY DEF ProjectorInv, LedgerInv
<1>3. rows[k].status # "none"
  BY <1>1, <1>2 DEF HandInv
<1>4. Kind(k[1]) # "none"
  BY <1>2, <1>3 DEF RowInv
<1> QED BY <1>1, <1>4 DEF ProjectorInv

\* The transaction of a projector that stores: messages_platform_uniq decides
\* whether it adds a message, and recordMessage follows it.
LEMMA StoresOneOrNone ==
  ASSUME ProjectorInv, NEW w \in Workers, NEW k \in Keys, NEW inbound \in BOOLEAN,
         NEW facts \in {"none", "trigger"},
         Projecting(w, k), k[2] = "add",
         thread' = Counted(thread, msg[k[1]], inbound),
         msg' = [msg EXCEPT ![k[1]] = Stored(@, inbound, Wording(k))],
         Outcome(w, k, facts),
         UNCHANGED <<meta, ledger, reading, reward>>
  PROVE  AddsOne(w, k, facts) \/ AddsNone(w, k, "skipping", "none")
<1> DEFINE i == k[1]
<1>1. /\ wk[w].phase = "batch" /\ k \in wk[w].batch
      /\ i \in Items /\ Kind(i) # "none" /\ ItemInv(i)
  BY ProjectingEffect
<1>2. /\ msg \in [Items -> MsgType] /\ thread \in ThreadType /\ resync \in BOOLEAN
      /\ Wording(k) \in 0 .. MaxChanges /\ msg[i] \in MsgType
  BY <1>1, TypeParts, WordingType
<1>3. /\ msg' \in [Items -> MsgType]
      /\ \A j \in Items \ {i} : msg'[j] = msg[j]
      /\ msg'[i] = Stored(msg[i], inbound, Wording(k))
  <2>1. Stored(msg[i], inbound, Wording(k)) \in MsgType
    BY <1>2, StoredEffect
  <2> QED BY <1>1, <1>2, <2>1
<1>4. /\ thread' \in ThreadType
      /\ msg[i].stored => thread' = thread
      /\ ~msg[i].stored => /\ thread'.count = thread.count + 1
                           /\ thread'.unread = IF inbound THEN thread.unread + 1 ELSE thread.unread
  BY <1>2, CountedEffect
<1>5. /\ msg'[i].stored
      /\ msg[i].stored => msg'[i] = msg[i]
      /\ ~msg[i].stored => msg'[i].inbound = inbound /\ msg'[i].read = ~inbound
  BY <1>2, <1>3, StoredEffect
<1>6. UNCHANGED <<plat, sent, resync, rows, queue, reading, offered, reversed>>
  BY DEF meta, ledger, reward
<1>7. CASE msg[i].stored
  <2>1. GoTo(w, k, "skipping", "none")
    BY <1>7 DEF Outcome, Inserts
  <2>2. Projects(w, k, "skipping", "none")
    BY <1>1, <1>2, <1>3, <1>4, <1>6, <2>1 DEF Projects
  <2>3. MsgHolds(i) /\ thread' = thread
    BY <1>4, <1>5, <1>7 DEF MsgHolds
  <2> QED BY <1>7, <2>2, <2>3 DEF AddsNone
<1>8. CASE ~msg[i].stored
  <2>1. GoTo(w, k, "projected", facts)
    BY <1>8 DEF Outcome, Inserts
  <2>2. Projects(w, k, "projected", facts)
    BY <1>1, <1>2, <1>3, <1>4, <1>6, <2>1 DEF Projects
  <2>3. Kind(i) # "echo"
    BY <1>1, <1>8 DEF ItemInv, KindInv
  <2> QED BY <1>1, <1>4, <1>5, <1>8, <2>2, <2>3 DEF AddsOne
<1> QED BY <1>7, <1>8

\* A projection that writes no message, or only its wording and flags.
LEMMA LeavesMessages ==
  ASSUME ProjectorInv, NEW w \in Workers, NEW k \in Keys, Projecting(w, k),
         NEW p \in {"projected", "skipping", "failing"}, NEW f \in {"none", "reversal"},
         GoTo(w, k, p, f),
         UNCHANGED <<plat, sent, rows, queue, thread, reading, offered, reversed>>,
         resync' \in BOOLEAN,
         \/ msg' = msg
         \/ msg[k[1]].stored /\ \E v : msg' = [msg EXCEPT ![k[1]] = Moderated(@, v, rows[k].nr)],
         p # "failing" /\ k[2] = "add" /\ Expected(k[1]) => msg[k[1]].stored
  PROVE  AddsNone(w, k, p, f)
<1> DEFINE i == k[1]
<1>1. wk[w].phase = "batch" /\ k \in wk[w].batch /\ i \in Items
  BY ProjectingEffect
<1>2. msg \in [Items -> MsgType] /\ thread \in ThreadType /\ msg[i] \in MsgType
      /\ rows[k].nr \in 0 .. MaxChanges
  BY <1>1, TypeParts, WordingType
<1>3. /\ msg' \in [Items -> MsgType] /\ MsgHolds(i)
      /\ \A j \in Items \ {i} : msg'[j] = msg[j]
  <2>1. CASE msg' = msg
    BY <1>2, <2>1 DEF MsgHolds
  <2>2. CASE msg[i].stored /\ \E v : msg' = [msg EXCEPT ![i] = Moderated(@, v, rows[k].nr)]
    <3>1. PICK v : msg' = [msg EXCEPT ![i] = Moderated(msg[i], v, rows[k].nr)]
      BY <2>2
    <3> DEFINE m == Moderated(msg[i], v, rows[k].nr)
    <3>2. /\ m \in MsgType /\ m.stored = msg[i].stored /\ m.inbound = msg[i].inbound
          /\ m.read = msg[i].read
      BY <1>2, ModeratedEffect
    <3>3. msg' = [msg EXCEPT ![i] = m]
      BY <3>1
    <3> HIDE DEF m
    <3>4. msg'[i] = m /\ \A j \in Items \ {i} : msg'[j] = msg[j]
      BY <1>1, <1>2, <3>3
    <3>5. msg' \in [Items -> MsgType]
      BY <1>1, <1>2, <3>2, <3>3
    <3> QED BY <2>2, <3>2, <3>4, <3>5 DEF MsgHolds
  <2> QED BY <2>1, <2>2
<1>4. Projects(w, k, p, f)
  BY <1>1, <1>2, <1>3 DEF Projects
<1> QED BY <1>3, <1>4 DEF AddsNone

\* Whatever projector the row goes to.
LEMMA ProjectRowEffect ==
  ASSUME ProjectorInv, NEW w \in Workers, NEW k \in Keys, ProjectRow(w, k)
  PROVE  \/ \E p \in {"projected", "skipping", "failing"}, f \in {"none", "reversal"} :
               AddsNone(w, k, p, f)
         \/ \E f \in {"none", "trigger"} : AddsOne(w, k, f)
<1> DEFINE i == k[1]
<1>0. resync \in BOOLEAN
  BY TypeParts
<1>1. CASE ProjectModeration(w, k)
  <2>1. Projecting(w, k) /\ k[2] \in Moderations
        /\ UNCHANGED <<plat, sent, resync, rows, queue, thread, reading, offered, reversed>>
    BY <1>1 DEF ProjectModeration, meta, ledger, reward
  <2>2. k[2] # "add"
    BY <2>1 DEF Moderations
  <2>3. CASE msg[i].stored
    <3> DEFINE f == IF k[2] \in {"remove", "hide"} THEN "reversal" ELSE "none"
    <3>1. GoTo(w, k, "projected", f) /\ msg' = [msg EXCEPT ![i] = Moderated(@, k[2], rows[k].nr)]
      BY <1>1, <2>3 DEF ProjectModeration
    <3>2. f \in {"none", "reversal"}
      OBVIOUS
    <3> HIDE DEF f
    <3>3. AddsNone(w, k, "projected", f)
      BY <1>0, <2>1, <2>2, <2>3, <3>1, <3>2, LeavesMessages
    <3> QED BY <3>2, <3>3
  <2>4. CASE ~msg[i].stored
    <3>1. GoTo(w, k, "skipping", "none") /\ msg' = msg
      BY <1>1, <2>4 DEF ProjectModeration
    <3>2. AddsNone(w, k, "skipping", "none")
      BY <1>0, <2>1, <2>2, <3>1, LeavesMessages
    <3> QED BY <3>2
  <2> QED BY <2>3, <2>4
<1>2. CASE ProjectUnsend(w, k)
  <2>1. Projecting(w, k) /\ k[2] = "remove" /\ GoTo(w, k, "skipping", "none")
        /\ UNCHANGED <<plat, sent, resync, rows, queue, thread, reading, offered, reversed>>
    BY <1>2 DEF ProjectUnsend, meta, ledger, reward
  <2>2. \/ msg' = msg
        \/ msg[i].stored /\ \E v : msg' = [msg EXCEPT ![i] = Moderated(@, v, rows[k].nr)]
    BY <1>2 DEF ProjectUnsend
  <2>3. AddsNone(w, k, "skipping", "none")
    BY <1>0, <2>1, <2>2, LeavesMessages
  <2> QED BY <2>3
<1>3. CASE ProjectMessageEdit(w, k)
  <2> DEFINE p == IF ~msg[i].stored /\ rows[k].attempts <= GraceAttempts
                  THEN "failing" ELSE "skipping"
  <2>1. Projecting(w, k) /\ k[2] = "edit" /\ GoTo(w, k, p, "none")
        /\ UNCHANGED <<plat, sent, rows, queue, msg, thread, reading, offered, reversed>>
    BY <1>3 DEF ProjectMessageEdit, ledger, inbox, reward
  <2>2. resync' \in BOOLEAN
    BY <1>0, <1>3, Zenon DEF ProjectMessageEdit
  <2>3. p \in {"projected", "skipping", "failing"}
    OBVIOUS
  <2> HIDE DEF p
  <2>4. AddsNone(w, k, p, "none")
    BY <2>1, <2>2, <2>3, LeavesMessages
  <2> QED BY <2>3, <2>4
<1>4. CASE MentionUnreadable(w, k)
  <2>1. Projecting(w, k) /\ k[2] = "add" /\ GoTo(w, k, "skipping", "none")
        /\ UNCHANGED <<plat, sent, resync, rows, queue, msg, thread, reading, offered, reversed>>
    BY <1>4 DEF MentionUnreadable, meta, ledger, inbox, reward
  <2>2. ~Expected(i)
    BY <1>4, <2>1, AddKeys DEF MentionUnreadable, Expected
  <2>3. AddsNone(w, k, "skipping", "none")
    BY <1>0, <2>1, <2>2, LeavesMessages
  <2> QED BY <2>3
<1>5. CASE ProjectOwnComment(w, k)
  <2>1. Projecting(w, k) /\ GoTo(w, k, "skipping", "none")
        /\ UNCHANGED <<plat, sent, resync, rows, queue, msg, thread, reading, offered, reversed>>
    BY <1>5 DEF ProjectOwnComment, meta, ledger, inbox, reward
  <2>2. ~Expected(i)
    BY <1>5 DEF ProjectOwnComment, Expected
  <2>3. AddsNone(w, k, "skipping", "none")
    BY <1>0, <2>1, <2>2, LeavesMessages
  <2> QED BY <2>3
<1>6. CASE ProjectFails(w, k)
  <2>1. Projecting(w, k) /\ GoTo(w, k, "failing", "none")
        /\ UNCHANGED <<plat, sent, resync, rows, queue, msg, thread, reading, offered, reversed>>
    BY <1>6 DEF ProjectFails, meta, ledger, inbox, reward
  <2>2. AddsNone(w, k, "failing", "none")
    BY <1>0, <2>1, LeavesMessages
  <2> QED BY <2>2
<1>7. CASE ProjectComment(w, k) \/ ProjectMention(w, k) \/ ProjectDirectMessage(w, k)
  <2>1. StoreCustomer(w, k) /\ k[2] = "add"
    BY <1>7 DEF ProjectComment, ProjectMention, ProjectDirectMessage
  <2>2. AddsOne(w, k, "trigger") \/ AddsNone(w, k, "skipping", "none")
    BY <2>1, StoresOneOrNone DEF StoreCustomer
  <2> QED BY <2>2
<1>8. CASE ProjectOwnMessage(w, k)
  <2>1. AddsOne(w, k, "none") \/ AddsNone(w, k, "skipping", "none")
    BY <1>8, StoresOneOrNone DEF ProjectOwnMessage
  <2> QED BY <2>1
<1> QED BY <1>1, <1>2, <1>3, <1>4, <1>5, <1>6, <1>7, <1>8 DEF ProjectRow

\* What the end of a row has in common, whichever statement ends it and however
\* (markProcessed, markSkipped, markFailed, offerToRewards, or an exception).
Settles(w, k) ==
    /\ wk[w].at = k /\ k \in wk[w].batch
    /\ UNCHANGED <<plat, sent, resync, queue, msg, thread, reading>>
    /\ rows' \in [Keys -> RowType] /\ RowMoves(k)
    /\ \A j \in Keys \ {k} : rows'[j] = rows[j]
    /\ rows'[k].status \in {"processed", "skipped"} =>
          rows'[k] = rows[k] \/ wk[w].phase \in {"projected", "skipping"}
    /\ wk' \in [Workers -> WorkerType] /\ HandShape(w)' /\ wk'[w].batch \subseteq wk[w].batch
    /\ \A v \in Workers \ {w} : wk'[v] = wk[v]
    /\ wk'[w].phase \notin {"projected", "skipping"}
    /\ wk'[w].facts = "none" \/ (wk'[w].at = k /\ wk'[w].facts = wk[w].facts)
    /\ \/ offered' = offered
       \/ /\ wk[w].facts = "trigger" /\ wk'[w].facts = "none"
          /\ offered' = [offered EXCEPT ![k[1]] = @ + 1]
    /\ reversed' \in SUBSET Items

LEMMA AtEffect ==
  ASSUME ProjectorInv, NEW w \in Workers, NEW k \in Keys, NEW p, At(w, p, k)
  PROVE  wk[w].phase = p /\ wk[w].at = k /\ k \in wk[w].batch /\ wk[w] \in WorkerType
<1>1. HandInv(w) /\ wk[w] \in WorkerType
  BY DEF ProjectorInv, LedgerInv, TypeOK
<1> QED BY <1>1, NoKeyIsNoKey DEF At, HandInv, HandShape

\* The fence lets through only the owner, who is still projecting the row.
LEMMA SettledMoves ==
  ASSUME ProjectorInv, NEW w \in Workers, NEW k \in Keys, NEW status \in RowStatuses \ {"none"},
         status \in Due => rows[k].attempts < MaxAttempts,
         Settle(w, k, status)
  PROVE  /\ rows' \in [Keys -> RowType] /\ RowMoves(k)
         /\ \A j \in Keys \ {k} : rows'[j] = rows[j]
         /\ rows'[k] = rows[k] \/ rows'[k].status = status
<1>1. /\ rows' \in [Keys -> RowType]
      /\ \A j \in Keys \ {k} : rows'[j] = rows[j]
      /\ rows[k].owner # w => rows'[k] = rows[k]
      /\ rows[k].owner = w => rows'[k] = Release(rows[k], status)
  BY SettleEffect, TypeParts
<1>2. RowInv(k) /\ rows[k] \in RowType
  BY RowAt DEF ProjectorInv, LedgerInv
<1>3. CASE rows[k].owner = w
  <2> DEFINE r == rows[k]
  <2>1. rows[k].status = "processing"
    BY <1>2, <1>3, InboundAssumption DEF RowInv
  <2>2. /\ Release(r, status).status = status /\ Release(r, status).owner = NoWorker
        /\ Release(r, status).attempts = r.attempts /\ Release(r, status).id = r.id
        /\ Release(r, status).history = r.history
    BY <1>2, ReleasedRow
  <2>3. RowMoves(k)
    BY <1>1, <1>3, <2>1, <2>2 DEF RowMoves
  <2> QED BY <1>1, <1>3, <2>2, <2>3
<1>4. CASE rows[k].owner # w
  BY <1>1, <1>4 DEF RowMoves
<1> QED BY <1>1, <1>3, <1>4

LEMMA AdvanceShape ==
  ASSUME ProjectorInv, NEW w \in Workers, NEW k \in Keys, Advance(w, k)
  PROVE  /\ wk' \in [Workers -> WorkerType] /\ HandShape(w)' /\ wk'[w].batch \subseteq wk[w].batch
         /\ \A v \in Workers \ {w} : wk'[v] = wk[v]
         /\ wk'[w].phase \notin {"projected", "skipping"} /\ wk'[w].facts = "none"
<1>1. /\ wk'[w].batch = wk[w].batch \ {k}
      /\ wk'[w].phase = IF wk[w].batch \ {k} = {} THEN "idle" ELSE "batch"
      /\ wk'[w].at = NoKey /\ wk'[w].facts = "none"
      /\ \A v \in Workers \ {w} : wk'[v] = wk[v]
      /\ wk' \in [Workers -> WorkerType]
  BY AdvanceEffect, TypeParts
<1>2. wk'[w].phase \in {"idle", "batch"} /\ (wk'[w].phase = "idle" => wk'[w].batch = {})
  BY <1>1
<1> QED BY <1>1, <1>2 DEF HandShape

LEMMA GoToShape ==
  ASSUME ProjectorInv, NEW w \in Workers, NEW k \in Keys, k \in wk[w].batch,
         NEW p \in {"projected", "skipping", "failing", "offering"},
         NEW f \in {"none", "trigger", "reversal"}, GoTo(w, k, p, f)
  PROVE  /\ wk' \in [Workers -> WorkerType] /\ HandShape(w)' /\ wk'[w].batch = wk[w].batch
         /\ \A v \in Workers \ {w} : wk'[v] = wk[v]
         /\ wk'[w].phase = p /\ wk'[w].at = k /\ wk'[w].facts = f
<1>1. /\ wk'[w].phase = p /\ wk'[w].at = k /\ wk'[w].facts = f
      /\ wk'[w].batch = wk[w].batch
      /\ \A v \in Workers \ {w} : wk'[v] = wk[v]
      /\ wk' \in [Workers -> WorkerType]
  <2>1. p \in Phases
    BY DEF Phases
  <2> QED BY <2>1, GoToEffect, TypeParts
<1>2. HandShape(w)'
  BY <1>1, NoKeyIsNoKey DEF HandShape
<1> QED BY <1>1, <1>2

LEMMA EmptyShape ==
  ASSUME ProjectorInv, NEW w \in Workers, NEW p \in {"idle", "dead"},
         wk' = [wk EXCEPT ![w] = [IdleWorker EXCEPT !.phase = p]]
  PROVE  /\ wk' \in [Workers -> WorkerType] /\ HandShape(w)' /\ wk'[w].batch = {}
         /\ \A v \in Workers \ {w} : wk'[v] = wk[v]
         /\ wk'[w].phase = p /\ wk'[w].facts = "none" /\ wk'[w].at = NoKey
<1>1. /\ wk'[w].phase = p /\ wk'[w].at = NoKey /\ wk'[w].facts = "none"
      /\ wk'[w].batch = {}
      /\ \A v \in Workers \ {w} : wk'[v] = wk[v]
      /\ wk' \in [Workers -> WorkerType]
  <2>1. p \in Phases
    BY DEF Phases
  <2> QED BY <2>1, EmptyHands, TypeParts
<1> QED BY <1>1 DEF HandShape

LEMMA ReversedType == ASSUME ProjectorInv PROVE reversed \in SUBSET Items
  BY DEF ProjectorInv, LedgerInv, TypeOK

\* A statement that leaves the rows alone.
LEMMA RowsRest ==
  ASSUME ProjectorInv, NEW k \in Keys, rows' = rows
  PROVE  /\ rows' \in [Keys -> RowType] /\ RowMoves(k)
         /\ \A j \in Keys \ {k} : rows'[j] = rows[j]
  BY TypeParts DEF RowMoves

LEMMA SettleRowEffect ==
  ASSUME ProjectorInv, NEW w \in Workers, NEW k \in Keys, SettleRow(w, k)
  PROVE  Settles(w, k)
<1>0. reversed \in SUBSET Items /\ k[1] \in Items
  BY ReversedType, KeyParts
<1>1. CASE MarkProcessed(w, k)
  <2>1. wk[w].phase = "projected" /\ wk[w].at = k /\ k \in wk[w].batch /\ wk[w] \in WorkerType
    BY <1>1, AtEffect DEF MarkProcessed
  <2>2. UNCHANGED <<plat, sent, resync, queue, msg, thread, reading, offered, reversed>>
    BY <1>1 DEF MarkProcessed, meta, inbox, reward
  <2>3. /\ rows' \in [Keys -> RowType] /\ RowMoves(k)
        /\ \A j \in Keys \ {k} : rows'[j] = rows[j]
    BY <1>1, SettledMoves DEF MarkProcessed, RowStatuses, SettledStatuses, Due
  <2>4. /\ wk' \in [Workers -> WorkerType] /\ HandShape(w)' /\ wk'[w].batch = wk[w].batch
        /\ \A v \in Workers \ {w} : wk'[v] = wk[v]
        /\ wk'[w].phase = "offering" /\ wk'[w].at = k /\ wk'[w].facts = wk[w].facts
    <3>1. wk[w].facts \in {"none", "trigger", "reversal"}
      BY <2>1 DEF WorkerType
    <3> QED BY <1>1, <2>1, <3>1, GoToShape DEF MarkProcessed
  <2> QED BY <1>0, <2>1, <2>2, <2>3, <2>4 DEF Settles
<1>2. CASE MarkSkipped(w, k)
  <2>1. wk[w].phase = "skipping" /\ wk[w].at = k /\ k \in wk[w].batch
    BY <1>2, AtEffect DEF MarkSkipped
  <2>2. UNCHANGED <<plat, sent, resync, queue, msg, thread, reading, offered, reversed>>
    BY <1>2 DEF MarkSkipped, meta, inbox, reward
  <2>3. /\ rows' \in [Keys -> RowType] /\ RowMoves(k)
        /\ \A j \in Keys \ {k} : rows'[j] = rows[j]
    BY <1>2, SettledMoves DEF MarkSkipped, RowStatuses, SettledStatuses, Due
  <2> QED BY <1>0, <1>2, <2>1, <2>2, <2>3, AdvanceShape DEF Settles, MarkSkipped
<1>3. CASE MarkFailed(w, k)
  <2> DEFINE s == IF OutOfAttempts(rows[k]) THEN "dead_letter" ELSE "failed"
  <2>1. wk[w].phase = "failing" /\ wk[w].at = k /\ k \in wk[w].batch
    BY <1>3, AtEffect DEF MarkFailed
  <2>2. UNCHANGED <<plat, sent, resync, queue, msg, thread, reading, offered, reversed>>
    BY <1>3 DEF MarkFailed, meta, inbox, reward
  <2>3. s \in RowStatuses \ {"none"} /\ s \notin {"processed", "skipped"}
    BY DEF RowStatuses, SettledStatuses
  <2>4. s \in Due => rows[k].attempts < MaxAttempts
    BY InboundAssumption, TypeParts DEF OutOfAttempts, Due, RowType
  <2>5. Settle(w, k, s)
    BY <1>3 DEF MarkFailed
  <2> HIDE DEF s
  <2>6. /\ rows' \in [Keys -> RowType] /\ RowMoves(k)
        /\ \A j \in Keys \ {k} : rows'[j] = rows[j]
        /\ rows'[k] = rows[k] \/ rows'[k].status = s
    BY <2>3, <2>4, <2>5, SettledMoves
  <2> QED BY <1>0, <1>3, <2>1, <2>2, <2>3, <2>6, AdvanceShape DEF Settles, MarkFailed
<1>4. CASE OfferToRewards(w, k)
  <2>1. wk[w].at = k /\ k \in wk[w].batch
    BY <1>4, AtEffect DEF OfferToRewards
  <2>2. UNCHANGED <<plat, sent, resync, rows, queue, msg, thread, reading>>
    BY <1>4 DEF OfferToRewards, meta, ledger, inbox
  <2>3. \/ offered' = offered
        \/ wk[w].facts = "trigger" /\ offered' = [offered EXCEPT ![k[1]] = @ + 1]
    BY <1>4 DEF OfferToRewards
  <2>4. reversed' \in SUBSET Items
    BY <1>0, <1>4 DEF OfferToRewards
  <2>5. /\ rows' \in [Keys -> RowType] /\ RowMoves(k)
        /\ \A j \in Keys \ {k} : rows'[j] = rows[j]
    BY <2>2, RowsRest
  <2>6. /\ wk' \in [Workers -> WorkerType] /\ HandShape(w)' /\ wk'[w].batch \subseteq wk[w].batch
        /\ \A v \in Workers \ {w} : wk'[v] = wk[v]
        /\ wk'[w].phase \notin {"projected", "skipping"} /\ wk'[w].facts = "none"
    BY <1>4, AdvanceShape DEF OfferToRewards
  <2> QED BY <2>1, <2>2, <2>3, <2>4, <2>5, <2>6 DEF Settles
<1>5. CASE RewardsThrow(w, k)
  <2>1. wk[w].at = k /\ k \in wk[w].batch
    BY <1>5, AtEffect DEF RewardsThrow
  <2>2. UNCHANGED <<plat, sent, resync, rows, queue, msg, thread, reading, offered, reversed>>
    BY <1>5 DEF RewardsThrow, meta, ledger, inbox, reward
  <2>3. /\ rows' \in [Keys -> RowType] /\ RowMoves(k)
        /\ \A j \in Keys \ {k} : rows'[j] = rows[j]
    BY <2>2, RowsRest
  <2> QED BY <1>0, <1>5, <2>1, <2>2, <2>3, AdvanceShape DEF Settles, RewardsThrow
<1>6. CASE StatementFails(w, k)
  <2>1. wk[w].at = k /\ k \in wk[w].batch
    BY <1>6, AtEffect DEF StatementFails
  <2>2. UNCHANGED <<plat, sent, resync, rows, queue, msg, thread, reading, offered, reversed>>
    BY <1>6 DEF StatementFails, meta, ledger, inbox, reward
  <2>3. /\ rows' \in [Keys -> RowType] /\ RowMoves(k)
        /\ \A j \in Keys \ {k} : rows'[j] = rows[j]
    BY <2>2, RowsRest
  <2>4. CASE GoTo(w, k, "failing", "none")
    BY <1>0, <2>1, <2>2, <2>3, <2>4, GoToShape DEF Settles
  <2>5. CASE wk' = [wk EXCEPT ![w] = IdleWorker]
    <3>1. wk' = [wk EXCEPT ![w] = [IdleWorker EXCEPT !.phase = "idle"]]
      BY <2>5, IdleHands
    <3>2. /\ wk' \in [Workers -> WorkerType] /\ HandShape(w)' /\ wk'[w].batch = {}
          /\ \A v \in Workers \ {w} : wk'[v] = wk[v]
          /\ wk'[w].phase = "idle" /\ wk'[w].facts = "none"
      BY <3>1, EmptyShape
    <3> QED BY <1>0, <2>1, <2>2, <2>3, <3>2 DEF Settles
  <2> QED BY <1>6, <2>4, <2>5 DEF StatementFails
<1> QED BY <1>1, <1>2, <1>3, <1>4, <1>5, <1>6 DEF SettleRow

-----------------------------------------------------------------------------
(* The steps keep the invariant of the projector.                           *)

\* The two sets the counters stand for.
CountedItems == {i \in Items : msg[i].stored /\ Kind(i) # "echo"}
UnreadItems == {i \in Items : msg[i].stored /\ msg[i].inbound /\ ~msg[i].read}

LEMMA ItemSetsFinite ==
  /\ IsFiniteSet(CountedItems) /\ Cardinality(CountedItems) \in Nat
  /\ IsFiniteSet(UnreadItems) /\ Cardinality(UnreadItems) \in Nat
<1>1. CountedItems \in SUBSET Items /\ UnreadItems \in SUBSET Items
  BY DEF CountedItems, UnreadItems
<1>2. IsFiniteSet(CountedItems) /\ IsFiniteSet(UnreadItems)
  BY <1>1, InboundAssumption, FS_Subset
<1> QED BY <1>2, FS_CardinalityType

LEMMA CountersAre ==
  /\ CountersExact <=> thread.count = Cardinality(CountedItems)
  /\ CountersExact' <=> thread'.count = Cardinality(CountedItems')
  /\ BadgeShowsUnread <=> (~reading => thread.unread >= Cardinality(UnreadItems))
  /\ BadgeShowsUnread' <=> (~reading' => thread'.unread >= Cardinality(UnreadItems'))
  BY DEF CountersExact, BadgeShowsUnread, CountedItems, UnreadItems

LEMMA CountersRest ==
  ASSUME ProjectorInv, thread' = thread, reading' = reading,
         \A i \in Items : /\ Kind(i)' = Kind(i) /\ msg'[i].stored = msg[i].stored
                          /\ msg'[i].inbound = msg[i].inbound /\ msg'[i].read = msg[i].read
  PROVE  CountersExact' /\ BadgeShowsUnread'
<1>1. CountedItems' = CountedItems /\ UnreadItems' = UnreadItems
  BY DEF CountedItems, UnreadItems
<1>2. CountersExact /\ BadgeShowsUnread
  BY DEF ProjectorInv
<1> QED BY <1>1, <1>2, CountersAre

\* Whoever is on the row of an item has a row there, so what is expected of it
\* does not change under him.
LEMMA OnRow ==
  ASSUME ProjectorInv, NEW w \in Workers, NEW i \in Items, wk[w].at = AddKey(i)
  PROVE  rows[AddKey(i)].status # "none" /\ Kind(i) # "none"
<1>1. AddKey(i) \in Keys /\ AddKey(i) # NoKey /\ AddKey(i)[1] = i
  BY AddKeys
<1>2. HandInv(w) /\ RowInv(AddKey(i))
  BY <1>1 DEF ProjectorInv, LedgerInv
<1>3. AddKey(i) \in wk[w].batch
  BY <1>1, <1>2 DEF HandInv, HandShape
<1> QED BY <1>1, <1>2, <1>3 DEF HandInv, RowInv

\* A step that lets no message in, offers nothing and settles nothing as done.
LEMMA ItemsFrame ==
  ASSUME ProjectorInv, RowsKept, UNCHANGED offered,
         \A i \in Items : /\ Kind(i)' = Kind(i) /\ msg'[i].stored = msg[i].stored
                          /\ ~msg[i].stored => msg'[i] = msg[i],
         \A k \in Keys : rows'[k].status \in {"processed", "skipped"}
                           => rows'[k].status = rows[k].status,
         \A w \in Workers : \/ wk'[w] = wk[w]
                            \/ /\ wk'[w].facts # "trigger"
                               /\ wk'[w].phase \notin {"projected", "skipping"}
  PROVE  FactsAtAdd' /\ \A i \in Items : ItemInv(i)'
<1>1. FactsAtAdd'
  BY DEF ProjectorInv, FactsAtAdd, AddKey
<1>2. ASSUME NEW i \in Items PROVE ItemInv(i)'
  <2>1. /\ Blank(i) /\ KindInv(i) /\ TriggerInv(i) /\ DoneInv(i) /\ DropInv(i)
        /\ AddKey(i) \in Keys
    BY AddKeys DEF ProjectorInv, ItemInv
  <2>2. Blank(i)' /\ KindInv(i)'
    BY <2>1 DEF Blank, KindInv, NoMsg
  <2>3. \A w \in Workers : Triggers(w, i)' => Triggers(w, i)
    BY DEF Triggers, AddKey
  <2>4. TriggerInv(i)'
    BY <2>1, <2>3 DEF TriggerInv
  <2>5. rows[AddKey(i)].status # "none" /\ Expected(i)' => Expected(i)
    BY <2>1 DEF RowsKept, Expected, AddKey
  <2>6. DoneInv(i)'
    <3> SUFFICES ASSUME NEW w \in Workers, wk'[w].phase \in {"projected", "skipping"},
                        wk'[w].at = AddKey(i), Expected(i)'
                 PROVE  msg'[i].stored
      BY DEF DoneInv, AddKey
    <3>1. wk'[w] = wk[w]
      OBVIOUS
    <3>2. rows[AddKey(i)].status # "none"
      BY <3>1, OnRow
    <3> QED BY <2>1, <2>5, <3>1, <3>2 DEF DoneInv
  <2>7. DropInv(i)'
    <3> SUFFICES ASSUME rows'[AddKey(i)].status \in {"processed", "skipped"}, Expected(i)'
                 PROVE  msg'[i].stored
      BY DEF DropInv, AddKey
    <3> QED BY <2>1, <2>5 DEF DropInv
  <2> QED BY <2>2, <2>4, <2>6, <2>7 DEF ItemInv
<1> QED BY <1>1, <1>2

\* A projection that lets no message in.
LEMMA AddsNoneKeeps ==
  ASSUME ProjectorInv, NEW w \in Workers, NEW k \in Keys,
         NEW p \in {"projected", "skipping", "failing"}, NEW f \in {"none", "reversal"},
         AddsNone(w, k, p, f)
  PROVE  ProjectorInv'
<1>1. /\ wk[w].phase = "batch" /\ k \in wk[w].batch /\ GoTo(w, k, p, f)
      /\ UNCHANGED <<plat, sent, rows, queue, thread, reading, offered, reversed>>
      /\ msg' \in [Items -> MsgType] /\ resync' \in BOOLEAN
      /\ \A i \in Items \ {k[1]} : msg'[i] = msg[i]
      /\ MsgHolds(k[1])
      /\ p # "failing" /\ k[2] = "add" /\ Expected(k[1]) => msg[k[1]].stored
  BY DEF AddsNone, Projects
<1>2. /\ wk' \in [Workers -> WorkerType] /\ HandShape(w)' /\ wk'[w].batch = wk[w].batch
      /\ \A v \in Workers \ {w} : wk'[v] = wk[v]
      /\ wk'[w].phase = p /\ wk'[w].at = k /\ wk'[w].facts = f
  BY <1>1, GoToShape
<1>3. \A i \in Items : MsgHolds(i) /\ Kind(i)' = Kind(i)
  BY <1>1 DEF MsgHolds, Kind
<1>4. TypeOK'
  BY <1>1, <1>2, TypeParts DEF TypeOK
<1>5. LedgerInv'
  BY <1>1, <1>2, <1>4, WorkerTurn DEF ProjectorInv, RowMoves
<1>6. CountersExact' /\ BadgeShowsUnread'
  BY <1>1, <1>3, CountersRest DEF MsgHolds
<1>7. FactsAtAdd'
  BY <1>2 DEF ProjectorInv, FactsAtAdd, AddKey
<1>8. ASSUME NEW i \in Items PROVE ItemInv(i)'
  <2>1. /\ Blank(i) /\ KindInv(i) /\ TriggerInv(i) /\ DoneInv(i) /\ DropInv(i) /\ MsgHolds(i)
    BY <1>3 DEF ProjectorInv, ItemInv
  <2>2. Blank(i)' /\ KindInv(i)'
    BY <1>1, <1>3, <2>1 DEF Blank, KindInv, NoMsg, MsgHolds
  <2>3. \A v \in Workers : Triggers(v, i)' => Triggers(v, i)
    BY <1>2 DEF Triggers, AddKey
  <2>4. TriggerInv(i)'
    BY <1>1, <2>1, <2>3 DEF TriggerInv, MsgHolds
  <2>5. Expected(i)' <=> Expected(i)
    BY <1>1, <1>3 DEF Expected, AddKey
  <2>6. DoneInv(i)'
    <3> SUFFICES ASSUME NEW v \in Workers, wk'[v].phase \in {"projected", "skipping"},
                        wk'[v].at = AddKey(i), Expected(i)
                 PROVE  msg[i].stored
      BY <2>1, <2>5 DEF DoneInv, MsgHolds, AddKey
    <3>1. CASE v = w
      <4>1. k = AddKey(i)
        BY <1>2, <3>1
      <4>2. k[1] = i /\ k[2] = "add"
        BY <4>1, AddKeys
      <4> QED BY <1>1, <1>2, <3>1, <4>2
    <3>2. CASE v # w
      BY <1>2, <2>1, <3>2 DEF DoneInv
    <3> QED BY <3>1, <3>2
  <2>7. DropInv(i)'
    BY <1>1, <2>1, <2>5 DEF DropInv, MsgHolds, AddKey
  <2> QED BY <2>2, <2>4, <2>6, <2>7 DEF ItemInv
<1> QED BY <1>5, <1>6, <1>7, <1>8 DEF ProjectorInv

\* The transaction that lets a message in counts it, and raises the badge for one
\* a customer wrote (recordMessage).
LEMMA AddsOneCounts ==
  ASSUME ProjectorInv, NEW w \in Workers, NEW k \in Keys, NEW f \in {"none", "trigger"},
         AddsOne(w, k, f)
  PROVE  CountersExact' /\ BadgeShowsUnread'
<1> DEFINE i == k[1]
<1>1. /\ UNCHANGED <<plat, reading>> /\ Kind(i) # "echo"
      /\ \A j \in Items \ {i} : msg'[j] = msg[j]
      /\ ~msg[i].stored /\ msg'[i].stored /\ msg'[i].read = ~msg'[i].inbound
      /\ thread'.count = thread.count + 1
      /\ thread'.unread = IF msg'[i].inbound THEN thread.unread + 1 ELSE thread.unread
      /\ i \in Items /\ msg' \in [Items -> MsgType]
  BY KeyParts DEF AddsOne, Projects
<1>2. CountersExact /\ BadgeShowsUnread /\ thread.unread \in Nat
  BY TypeParts DEF ProjectorInv, ThreadType
<1>3. i \notin CountedItems /\ CountedItems' = CountedItems \cup {i}
  BY <1>1 DEF CountedItems, Kind
<1>4. Cardinality(CountedItems') = Cardinality(CountedItems) + 1
  BY <1>3, ItemSetsFinite, FS_AddElement
<1>5. CountersExact'
  BY <1>1, <1>2, <1>4, CountersAre
<1>6. BadgeShowsUnread'
  <2>1. CASE msg'[i].inbound
    <3>1. i \notin UnreadItems /\ UnreadItems' = UnreadItems \cup {i}
      BY <1>1, <2>1 DEF UnreadItems
    <3>2. Cardinality(UnreadItems') = Cardinality(UnreadItems) + 1
      BY <3>1, ItemSetsFinite, FS_AddElement
    <3> QED BY <1>1, <1>2, <2>1, <3>2, CountersAre, ItemSetsFinite
  <2>2. CASE ~msg'[i].inbound
    <3>1. UnreadItems' = UnreadItems
      BY <1>1, <2>2 DEF UnreadItems
    <3> QED BY <1>1, <1>2, <2>2, <3>1, CountersAre
  <2> QED BY <2>1, <2>2
<1> QED BY <1>5, <1>6

LEMMA AddsOneKeeps ==
  ASSUME ProjectorInv, NEW w \in Workers, NEW k \in Keys, NEW f \in {"none", "trigger"},
         AddsOne(w, k, f)
  PROVE  ProjectorInv'
<1>1. /\ wk[w].phase = "batch" /\ k \in wk[w].batch /\ GoTo(w, k, "projected", f)
      /\ UNCHANGED <<plat, sent, rows, queue, reading, offered, reversed>>
      /\ msg' \in [Items -> MsgType] /\ resync' \in BOOLEAN /\ thread' \in ThreadType
      /\ \A i \in Items \ {k[1]} : msg'[i] = msg[i]
      /\ Kind(k[1]) \notin {"none", "echo"} /\ ~msg[k[1]].stored /\ msg'[k[1]].stored
      /\ k[1] \in Items /\ k = AddKey(k[1])
  BY KeyParts, AddKeys DEF AddsOne, Projects
<1>2. /\ wk' \in [Workers -> WorkerType] /\ HandShape(w)' /\ wk'[w].batch = wk[w].batch
      /\ \A v \in Workers \ {w} : wk'[v] = wk[v]
      /\ wk'[w].phase = "projected" /\ wk'[w].at = k /\ wk'[w].facts = f
  BY <1>1, GoToShape
<1>3. TypeOK'
  BY <1>1, <1>2, TypeParts DEF TypeOK
<1>4. LedgerInv'
  BY <1>1, <1>2, <1>3, WorkerTurn DEF ProjectorInv, RowMoves
<1>5. CountersExact' /\ BadgeShowsUnread'
  BY AddsOneCounts
<1>6. FactsAtAdd'
  BY <1>1, <1>2 DEF ProjectorInv, FactsAtAdd, AddKey
<1>7. \A i \in Items : Kind(i)' = Kind(i) /\ (Expected(i)' <=> Expected(i))
  BY <1>1 DEF Kind, Expected, AddKey
<1>8. ASSUME NEW i \in Items, i # k[1] PROVE ItemInv(i)'
  <2>1. /\ Blank(i) /\ KindInv(i) /\ TriggerInv(i) /\ DoneInv(i) /\ DropInv(i)
        /\ msg'[i] = msg[i] /\ k # AddKey(i)
    BY <1>1, <1>8, AddKeys DEF ProjectorInv, ItemInv
  <2>2. \A v \in Workers : (Triggers(v, i)' => Triggers(v, i)) /\ (wk'[v].at = AddKey(i) => wk'[v] = wk[v])
    BY <1>2, <2>1 DEF Triggers, AddKey
  <2>3. Blank(i)' /\ KindInv(i)'
    BY <1>1, <1>7, <2>1 DEF Blank, KindInv, NoMsg
  <2>4. TriggerInv(i)'
    BY <1>1, <2>1, <2>2 DEF TriggerInv
  <2>5. DoneInv(i)' /\ DropInv(i)'
    BY <1>1, <1>7, <2>1, <2>2 DEF DoneInv, DropInv, AddKey
  <2> QED BY <2>3, <2>4, <2>5 DEF ItemInv
<1>9. ItemInv(k[1])'
  <2> DEFINE i == k[1]
  <2>1. Blank(i) /\ TriggerInv(i)
    BY <1>1 DEF ProjectorInv, ItemInv
  <2>2. offered[i] = 0 /\ \A v \in Workers : ~Triggers(v, i)
    BY <1>1, <2>1 DEF Blank, TriggerInv
  <2>3. \A v \in Workers : Triggers(v, i)' => v = w
    BY <1>2, <2>2 DEF Triggers, AddKey
  <2>4. TriggerInv(i)'
    BY <1>1, <2>2, <2>3 DEF TriggerInv
  <2>5. Blank(i)' /\ KindInv(i)' /\ DoneInv(i)' /\ DropInv(i)'
    BY <1>1, <1>7 DEF Blank, KindInv, DoneInv, DropInv
  <2> QED BY <2>4, <2>5 DEF ItemInv
<1> QED BY <1>4, <1>5, <1>6, <1>8, <1>9 DEF ProjectorInv

\* The end of a row: the facts of a message are handed over once, and only a row
\* whose message was seen is settled as done.
LEMMA SettlesKeeps ==
  ASSUME ProjectorInv, NEW w \in Workers, NEW k \in Keys, Settles(w, k)
  PROVE  ProjectorInv'
<1>1. /\ wk[w].at = k /\ k \in wk[w].batch
      /\ UNCHANGED <<plat, sent, resync, queue, msg, thread, reading>>
      /\ rows' \in [Keys -> RowType] /\ RowMoves(k)
      /\ \A j \in Keys \ {k} : rows'[j] = rows[j]
      /\ rows'[k].status \in {"processed", "skipped"} =>
            rows'[k] = rows[k] \/ wk[w].phase \in {"projected", "skipping"}
  BY DEF Settles
<1>2. /\ wk' \in [Workers -> WorkerType] /\ HandShape(w)' /\ wk'[w].batch \subseteq wk[w].batch
      /\ \A v \in Workers \ {w} : wk'[v] = wk[v]
      /\ wk'[w].phase \notin {"projected", "skipping"}
      /\ wk'[w].facts = "none" \/ (wk'[w].at = k /\ wk'[w].facts = wk[w].facts)
  BY DEF Settles
<1>3. /\ \/ offered' = offered
         \/ /\ wk[w].facts = "trigger" /\ wk'[w].facts = "none"
            /\ offered' = [offered EXCEPT ![k[1]] = @ + 1]
      /\ reversed' \in SUBSET Items
  BY DEF Settles
<1>4. offered' \in [Items -> Nat]
  <2>1. offered \in [Items -> Nat] /\ k[1] \in Items
    BY TypeParts, KeyParts
  <2> QED BY <1>3, <2>1
<1>5. TypeOK'
  BY <1>1, <1>2, <1>3, <1>4, TypeParts DEF TypeOK
<1>6. \A j \in Keys : RowMoves(j)
  BY <1>1 DEF RowMoves
<1>7. LedgerInv' /\ RowsKept
  BY <1>1, <1>2, <1>5, <1>6, WorkerTurn, MovesKeepRows DEF ProjectorInv
<1>8. \A i \in Items : Kind(i)' = Kind(i)
  BY <1>1 DEF Kind
<1>9. CountersExact' /\ BadgeShowsUnread'
  BY <1>1, <1>8, CountersRest
<1>10. FactsAtAdd'
  BY <1>1, <1>2 DEF ProjectorInv, FactsAtAdd, AddKey
<1>11. ASSUME NEW i \in Items PROVE ItemInv(i)'
  <2>1. /\ Blank(i) /\ KindInv(i) /\ TriggerInv(i) /\ DoneInv(i) /\ DropInv(i)
        /\ AddKey(i) \in Keys
    BY AddKeys DEF ProjectorInv, ItemInv
  <2>2. \A v \in Workers : Triggers(v, i)' => Triggers(v, i)
    BY <1>1, <1>2 DEF Triggers, AddKey
  <2>3. Blank(i)' /\ KindInv(i)' /\ TriggerInv(i)'
    <3>1. CASE offered'[i] = offered[i]
      BY <1>1, <1>8, <2>1, <2>2, <3>1 DEF Blank, KindInv, TriggerInv
    <3>2. CASE offered'[i] # offered[i]
      <4>1. /\ wk[w].facts = "trigger" /\ wk'[w].facts = "none" /\ i = k[1]
            /\ offered'[i] = offered[i] + 1
        <5>1. /\ wk[w].facts = "trigger" /\ wk'[w].facts = "none"
              /\ offered' = [offered EXCEPT ![k[1]] = @ + 1]
          BY <1>3, <3>2
        <5> QED BY <3>2, <5>1, TypeParts, KeyParts
      <4>2. k = AddKey(i)
        <5>1. PICK j \in Items : k = AddKey(j)
          BY <1>1, <4>1 DEF ProjectorInv, FactsAtAdd
        <5>2. k[1] = j
          BY <5>1, AddKeys
        <5> QED BY <4>1, <5>1, <5>2
      <4>3. Triggers(w, i)
        BY <1>1, <4>1, <4>2 DEF Triggers
      <4>4. msg[i].stored /\ offered[i] = 0 /\ \A v \in Workers : Triggers(v, i) => v = w
        BY <2>1, <4>3 DEF TriggerInv
      <4>5. ~Triggers(w, i)'
        BY <4>1 DEF Triggers
      <4>6. offered'[i] = 1 /\ \A v \in Workers : ~Triggers(v, i)'
        BY <2>2, <4>1, <4>4, <4>5
      <4>7. TriggerInv(i)'
        BY <4>6 DEF TriggerInv
      <4> QED BY <1>1, <1>8, <2>1, <4>4, <4>7 DEF Blank, KindInv
    <3> QED BY <3>1, <3>2
  <2>4. rows[AddKey(i)].status # "none" => (Expected(i)' <=> Expected(i))
    BY <1>7, <1>8, <2>1 DEF Expected, RowsKept, AddKey
  <2>5. DoneInv(i)'
    <3> SUFFICES ASSUME NEW v \in Workers, wk'[v].phase \in {"projected", "skipping"},
                        wk'[v].at = AddKey(i), Expected(i)'
                 PROVE  msg'[i].stored
      BY DEF DoneInv, AddKey
    <3>1. wk'[v] = wk[v]
      BY <1>2
    <3>2. rows[AddKey(i)].status # "none"
      BY <3>1, OnRow
    <3> QED BY <1>1, <2>1, <2>4, <3>1, <3>2 DEF DoneInv
  <2>6. DropInv(i)'
    <3> SUFFICES ASSUME rows'[AddKey(i)].status \in {"processed", "skipped"}, Expected(i)'
                 PROVE  msg'[i].stored
      BY DEF DropInv, AddKey
    <3>1. CASE rows'[AddKey(i)] = rows[AddKey(i)]
      BY <1>1, <2>1, <2>4, <3>1 DEF DropInv
    <3>2. CASE rows'[AddKey(i)] # rows[AddKey(i)]
      <4>1. k = AddKey(i)
        BY <1>1, <2>1, <3>2
      <4>2. wk[w].phase \in {"projected", "skipping"} /\ wk[w].at = AddKey(i)
        BY <1>1, <3>2, <4>1
      <4>3. rows[AddKey(i)].status # "none"
        BY <4>2, OnRow
      <4> QED BY <1>1, <2>1, <2>4, <4>2, <4>3 DEF DoneInv
    <3> QED BY <3>1, <3>2
  <2> QED BY <2>3, <2>5, <2>6 DEF ItemInv
<1> QED BY <1>7, <1>9, <1>10, <1>11 DEF ProjectorInv

\* An echo is recorded before its delivery, without being counted again.
LEMMA WriteKeepsInv ==
  ASSUME ProjectorInv, NEW i \in Items, NEW kd \in Kinds, Write(i, kd)
  PROVE  ProjectorInv'
<1>1. LedgerInv /\ LedgerInv'
  BY WriteKeeps DEF ProjectorInv
<1>2. /\ Kind(i)' = kd /\ kd # "none" /\ Kind(i) = "none"
      /\ \A j \in Items \ {i} : Kind(j)' = Kind(j)
      /\ \A j \in Items \ {i} : msg'[j] = msg[j]
      /\ kd # "echo" => msg' = msg
      /\ kd = "echo" => msg'[i] = [msg[i] EXCEPT !.stored = TRUE]
  BY <1>1, WriteEffect
<1>3. UNCHANGED <<rows, queue, wk, thread, reading, offered>>
  BY DEF Write, ledger, reward
<1>4. Blank(i) /\ KindInv(i) /\ msg[i] = NoMsg /\ offered[i] = 0 /\ ~msg[i].stored
  BY <1>2 DEF ProjectorInv, ItemInv, Blank, KindInv
<1>5. /\ ~msg[i].inbound /\ ~msg'[i].inbound
      /\ msg'[i].stored <=> kd = "echo"
      /\ ~msg'[i].stored => msg'[i] = msg[i]
  BY <1>2, <1>4 DEF NoMsg
<1>6. CountersExact' /\ BadgeShowsUnread'
  <2>1. CountedItems' = CountedItems
    BY <1>2, <1>4, <1>5 DEF CountedItems
  <2>2. UnreadItems' = UnreadItems
    BY <1>2, <1>5 DEF UnreadItems
  <2>3. CountersExact /\ BadgeShowsUnread
    BY DEF ProjectorInv
  <2> QED BY <1>3, <2>1, <2>2, <2>3, CountersAre
<1>7. FactsAtAdd'
  BY <1>3 DEF ProjectorInv, FactsAtAdd, AddKey
<1>8. ASSUME NEW j \in Items, j # i PROVE ItemInv(j)'
  BY <1>2, <1>3, <1>8
  DEF ProjectorInv, ItemInv, Blank, KindInv, TriggerInv, DoneInv, DropInv, Expected, Triggers, AddKey
<1>9. ItemInv(i)'
  <2>1. \A w \in Workers : wk[w].at # AddKey(i)
    BY <1>2, OnRow
  <2>2. rows[AddKey(i)].status = "none"
    <3>1. AddKey(i) \in Keys /\ AddKey(i)[1] = i
      BY AddKeys
    <3>2. RowInv(AddKey(i))
      BY <1>1, <3>1 DEF LedgerInv
    <3> QED BY <1>2, <3>1, <3>2 DEF RowInv
  <2>3. Blank(i)' /\ KindInv(i)'
    BY <1>2, <1>3, <1>4, <1>5 DEF Blank, KindInv, NoMsg
  <2>4. TriggerInv(i)' /\ DoneInv(i)' /\ DropInv(i)'
    BY <1>3, <1>4, <2>1, <2>2 DEF TriggerInv, DoneInv, DropInv, Triggers, AddKey
  <2> QED BY <2>3, <2>4 DEF ItemInv
<1> QED BY <1>1, <1>6, <1>7, <1>8, <1>9 DEF ProjectorInv

\* A statement of the ledger, or a change on the platform: the inbox rests.
LEMMA InboxRests ==
  ASSUME ProjectorInv, LedgerInv', RowsKept, UNCHANGED <<msg, thread, reading, offered>>,
         \A i \in Items : Kind(i)' = Kind(i),
         \A k \in Keys : rows'[k].status \in {"processed", "skipped"}
                           => rows'[k].status = rows[k].status,
         \A w \in Workers : \/ wk'[w] = wk[w]
                            \/ /\ wk'[w].facts # "trigger"
                               /\ wk'[w].phase \notin {"projected", "skipping"}
  PROVE  ProjectorInv'
<1>1. CountersExact' /\ BadgeShowsUnread'
  BY CountersRest
<1>2. FactsAtAdd' /\ \A i \in Items : ItemInv(i)'
  BY ItemsFrame
<1> QED BY <1>1, <1>2 DEF ProjectorInv

LEMMA InsertKeepsInv ==
  ASSUME ProjectorInv, NEW k \in Keys, NEW n \in 0 .. MaxChanges, NEW h \in BOOLEAN,
         rows[k].status = "none", Kind(k[1]) # "none",
         rows' = [rows EXCEPT ![k] = Inserted(n, h)], queue' = LastInLine(k, h),
         UNCHANGED <<meta, wk, inbox, reward>>
  PROVE  ProjectorInv'
<1>1. LedgerInv'
  BY InsertKeeps DEF ProjectorInv
<1>2. /\ rows'[k].status = "pending" /\ \A j \in Keys \ {k} : rows'[j] = rows[j]
  <2>1. rows[k].id = 0 /\ TypeOK /\ rows \in [Keys -> RowType]
    BY DEF ProjectorInv, LedgerInv, RowInv, TypeOK
  <2>2. Inserted(n, h).status = "pending"
    BY <2>1, InsertedRow
  <2> QED BY <2>1, <2>2
<1>3. UNCHANGED <<plat, wk, msg, thread, reading, offered>>
  BY DEF meta, inbox, reward
<1>4. RowsKept /\ \A j \in Keys : rows'[j].status \in {"processed", "skipped"}
                           => rows'[j].status = rows[j].status
  BY <1>2 DEF RowsKept
<1>5. \A i \in Items : Kind(i)' = Kind(i)
  BY <1>3 DEF Kind
<1> QED BY <1>1, <1>3, <1>4, <1>5, InboxRests

LEMMA IngestKeepsInv ==
  ASSUME ProjectorInv, NEW ev \in sent, Ingest(ev)
  PROVE  ProjectorInv'
<1> DEFINE k == DedupKey(ev)
<1>1. ev \in Event /\ Kind(ev.item) # "none"
  BY DEF ProjectorInv, LedgerInv, TypeOK
<1>2. k \in Keys /\ k[1] = ev.item /\ ev.nr \in 0 .. MaxChanges
  BY <1>1, InboundAssumption DEF DedupKey, Keys, Event
<1>3. UNCHANGED <<meta, wk, inbox, reward>>
  BY DEF Ingest
<1>4. CASE rows[k].status = "none"
  <2>1. rows' = [rows EXCEPT ![k] = Inserted(ev.nr, FALSE)] /\ queue' = LastInLine(k, FALSE)
    BY <1>4 DEF Ingest
  <2> HIDE DEF k
  <2> QED BY <1>1, <1>2, <1>3, <1>4, <2>1, InsertKeepsInv
<1>5. CASE rows[k].status # "none"
  <2>1. UNCHANGED <<plat, sent, resync, rows, queue, wk, msg, thread, reading, offered, reversed>>
    BY <1>3, <1>5 DEF Ingest, ledger, meta, inbox, reward
  <2>2. RowsKept /\ KindsKept /\ TypeOK' /\ (\A i \in Items : Kind(i)' = Kind(i))
        /\ \A e \in sent' : Kind(e.item)' # "none"
    BY <2>1 DEF ProjectorInv, LedgerInv, TypeOK, RowsKept, KindsKept, Kind
  <2>3. LedgerInv'
    BY <2>1, <2>2, LedgerRests DEF ProjectorInv
  <2> QED BY <2>1, <2>2, <2>3, InboxRests
<1> QED BY <1>4, <1>5

LEMMA CopyKeepsInv ==
  ASSUME ProjectorInv, NEW i \in Items, Copy(i)
  PROVE  ProjectorInv'
<1> DEFINE k == HistoryKey(i)
<1>1. k \in Keys /\ k[1] = i
  BY AddKeys DEF HistoryKey, AddKey
<1>2. plat[i].body \in 0 .. MaxChanges /\ Kind(i) # "none" /\ rows[k].status = "none"
  BY DEF ProjectorInv, LedgerInv, TypeOK, PlatType, Copy, Shown
<1>3. /\ rows' = [rows EXCEPT ![k] = Inserted(plat[i].body, TRUE)] /\ queue' = LastInLine(k, TRUE)
      /\ UNCHANGED <<meta, wk, inbox, reward>>
  BY DEF Copy
<1> HIDE DEF k
<1> QED BY <1>1, <1>2, <1>3, InsertKeepsInv

\* The two statements of an agent who opens the thread.
LEMMA MarkReadKeepsInv ==
  ASSUME ProjectorInv, MarkReadBadge \/ MarkReadMessages
  PROVE  ProjectorInv'
<1>1. UNCHANGED <<plat, sent, resync, rows, queue, wk, offered, reversed>>
  BY DEF MarkReadBadge, MarkReadMessages, meta, ledger, reward
<1>2. msg \in [Items -> MsgType] /\ thread \in ThreadType
  BY TypeParts
<1>3. /\ thread' \in ThreadType /\ thread'.count = thread.count /\ reading' \in BOOLEAN
      /\ ~reading' => thread'.unread = thread.unread
  <2>1. CASE MarkReadBadge
    <3>1. thread' = [thread EXCEPT !.unread = 0] /\ reading' = TRUE
      BY <2>1 DEF MarkReadBadge
    <3>2. thread' \in ThreadType /\ thread'.count = thread.count
      BY <1>2, <3>1 DEF ThreadType
    <3> QED BY <3>1, <3>2
  <2>2. CASE MarkReadMessages
    BY <1>2, <2>2 DEF MarkReadMessages
  <2> QED BY <2>1, <2>2
<1>4. /\ msg' \in [Items -> MsgType]
      /\ \A i \in Items : /\ msg'[i].stored = msg[i].stored
                          /\ ~msg[i].stored => msg'[i] = msg[i]
      /\ ~reading' => \A i \in Items : msg'[i].stored /\ msg'[i].inbound => msg'[i].read
  <2>1. CASE MarkReadBadge
    BY <1>2, <2>1 DEF MarkReadBadge
  <2>2. CASE MarkReadMessages
    <3>1. \A i \in Items :
             LET m == [msg[i] EXCEPT !.read = TRUE]
             IN  m \in MsgType /\ m.stored = msg[i].stored /\ m.read
      BY <1>2 DEF MsgType
    <3>2. \A i \in Items : msg'[i] = IF msg[i].stored /\ msg[i].inbound
                                     THEN [msg[i] EXCEPT !.read = TRUE] ELSE msg[i]
      BY <2>2 DEF MarkReadMessages
    <3>3. \A i \in Items : /\ msg'[i] \in MsgType /\ msg'[i].stored = msg[i].stored
                           /\ ~msg[i].stored => msg'[i] = msg[i]
                           /\ msg'[i].stored /\ msg'[i].inbound => msg'[i].read
      <4> TAKE i \in Items
      <4>1. CASE msg[i].stored /\ msg[i].inbound
        BY <3>1, <3>2, <4>1
      <4>2. CASE ~(msg[i].stored /\ msg[i].inbound)
        BY <1>2, <3>2, <4>2
      <4> QED BY <4>1, <4>2
    <3>4. msg' = [i \in Items |-> msg'[i]]
      BY <2>2 DEF MarkReadMessages
    <3> QED BY <3>3, <3>4
  <2> QED BY <2>1, <2>2
<1>5. RowsKept /\ KindsKept /\ \A i \in Items : Kind(i)' = Kind(i)
  BY <1>1 DEF RowsKept, KindsKept, Kind
<1>6. LedgerInv'
  <2>1. TypeOK'
    BY <1>1, <1>3, <1>4, TypeParts DEF TypeOK
  <2>2. \A ev \in sent' : Kind(ev.item)' # "none"
    BY <1>1 DEF ProjectorInv, LedgerInv, Kind
  <2> QED BY <1>1, <1>5, <2>1, <2>2, LedgerRests DEF ProjectorInv
<1>7. CountersExact'
  <2>1. CountedItems' = CountedItems
    BY <1>4, <1>5 DEF CountedItems
  <2>2. CountersExact
    BY DEF ProjectorInv
  <2> QED BY <1>3, <2>1, <2>2, CountersAre
<1>8. BadgeShowsUnread'
  <2> SUFFICES ASSUME ~reading' PROVE thread'.unread >= Cardinality(UnreadItems')
    BY CountersAre
  <2>1. UnreadItems' = {}
    BY <1>4 DEF UnreadItems
  <2>2. Cardinality(UnreadItems') = 0 /\ thread'.unread \in Nat
    BY <1>3, <2>1, FS_EmptySet DEF ThreadType
  <2> QED BY <2>2
<1>9. FactsAtAdd' /\ \A i \in Items : ItemInv(i)'
  BY <1>1, <1>4, <1>5, ItemsFrame
<1> QED BY <1>6, <1>7, <1>8, <1>9 DEF ProjectorInv

\* A claim, a death, a lapse, the reaper and the backoff.
LEMMA QueueStepKeepsInv ==
  ASSUME ProjectorInv,
         \/ \E w \in Workers : Claim(w) \/ Crash(w)
         \/ \E k \in Keys : LeaseExpires(k) \/ Reclaim(k) \/ BecomeDue(k)
  PROVE  ProjectorInv'
<1>0. UNCHANGED <<meta, inbox, reward>>
  BY Zenon DEF Claim, Crash, LeaseExpires, Reclaim, BecomeDue
<1>1. LedgerInv /\ UNCHANGED <<plat, msg, thread, reading, offered>>
      /\ \A i \in Items : Kind(i)' = Kind(i)
  BY <1>0 DEF ProjectorInv, meta, inbox, reward, Kind
<1>2. ASSUME NEW w \in Workers, Claim(w) PROVE ProjectorInv'
  <2>1. /\ FirstRows \in SUBSET Keys
        /\ \A k \in FirstRows : /\ rows'[k].status = "processing" /\ rows'[k].history = rows[k].history
        /\ \A k \in Keys \ FirstRows : rows'[k] = rows[k]
        /\ wk'[w].phase = "batch" /\ wk'[w].facts = wk[w].facts
        /\ \A v \in Workers \ {w} : wk'[v] = wk[v]
    BY <1>1, <1>2, ClaimEffect
  <2>2. wk[w].facts # "trigger"
    <3>1. wk[w].at = NoKey
      BY <1>1, <1>2 DEF LedgerInv, HandInv, HandShape, Claim
    <3> QED BY <3>1, AddKeys DEF ProjectorInv, FactsAtAdd
  <2>3. RowsKept /\ \A k \in Keys : rows'[k].status \in {"processed", "skipped"}
                                      => rows'[k].status = rows[k].status
    BY <2>1 DEF RowsKept
  <2> QED BY <1>1, <1>2, <2>1, <2>2, <2>3, ClaimKeeps, InboxRests
<1>3. ASSUME NEW w \in Workers, Crash(w) PROVE ProjectorInv'
  <2>1. UNCHANGED <<sent, resync, rows, queue, reversed>>
        /\ wk' = [wk EXCEPT ![w] = [IdleWorker EXCEPT !.phase = "dead"]]
    BY <1>3 DEF Crash, meta, ledger, reward
  <2>2. /\ wk' \in [Workers -> WorkerType] /\ HandShape(w)' /\ wk'[w].batch = {}
        /\ \A v \in Workers \ {w} : wk'[v] = wk[v]
        /\ wk'[w].phase = "dead" /\ wk'[w].facts = "none"
    BY <2>1, EmptyShape
  <2>3. TypeOK'
    BY <1>1, <2>1, <2>2 DEF LedgerInv, TypeOK
  <2>4. LedgerInv'
    BY <1>1, <2>1, <2>2, <2>3, WorkerTurn DEF RowMoves
  <2>5. RowsKept
    BY <2>1 DEF RowsKept
  <2> QED BY <1>1, <2>1, <2>2, <2>4, <2>5, InboxRests
<1>4. ASSUME NEW k \in Keys, LeaseExpires(k) PROVE ProjectorInv'
  <2>1. /\ \A j \in Keys \ {k} : rows'[j] = rows[j]
        /\ rows'[k].status = rows[k].status /\ rows'[k].history = rows[k].history
    BY <1>1, <1>4, LeaseExpiresEffect
  <2>2. wk' = wk /\ RowsKept
    BY <1>4, <2>1 DEF LeaseExpires, RowsKept
  <2> QED BY <1>1, <1>4, <2>1, <2>2, LeaseExpiresKeeps, InboxRests
<1>5. ASSUME NEW k \in Keys, Reclaim(k) PROVE ProjectorInv'
  <2>1. /\ \A j \in Keys \ {k} : rows'[j] = rows[j]
        /\ rows'[k].status \in {"dead_letter", "pending"} /\ rows'[k].history = rows[k].history
    BY <1>1, <1>5, ReclaimEffect
  <2>2. wk' = wk /\ RowsKept
    BY <1>5, <2>1 DEF Reclaim, RowsKept
  <2> QED BY <1>1, <1>5, <2>1, <2>2, ReclaimKeeps, InboxRests
<1>6. ASSUME NEW k \in Keys, BecomeDue(k) PROVE ProjectorInv'
  <2>1. wk' = wk /\ rows' = rows /\ RowsKept
    BY <1>6 DEF BecomeDue, RowsKept
  <2> QED BY <1>1, <1>6, <2>1, BecomeDueKeeps, InboxRests
<1> QED BY <1>2, <1>3, <1>4, <1>5, <1>6

-----------------------------------------------------------------------------
LEMMA InitInv == Init => ProjectorInv
<1> SUFFICES ASSUME Init PROVE ProjectorInv
  OBVIOUS
<1>1. /\ NoRow \in RowType /\ NoMsg \in MsgType /\ IdleWorker \in WorkerType
      /\ [kind |-> "none", nr |-> 0, hidden |-> FALSE, removed |-> FALSE, body |-> 0] \in PlatType
      /\ [count |-> 0, unread |-> 0] \in ThreadType
  <2>1. NoRow \in RowType
    BY InboundAssumption, KeysFinite DEF NoRow, RowType, RowStatuses
  <2>2. NoMsg \in MsgType
    BY InboundAssumption DEF NoMsg, MsgType
  <2>3. IdleWorker \in WorkerType
    BY DEF IdleWorker, WorkerType, Phases
  <2>4. [kind |-> "none", nr |-> 0, hidden |-> FALSE, removed |-> FALSE, body |-> 0] \in PlatType
    BY InboundAssumption DEF PlatType
  <2>5. [count |-> 0, unread |-> 0] \in ThreadType
    BY DEF ThreadType
  <2> QED BY <2>1, <2>2, <2>3, <2>4, <2>5
<1>2. TypeOK
  <2>1. plat \in [Items -> PlatType] /\ sent \in SUBSET Event /\ resync \in BOOLEAN
    BY <1>1 DEF Init
  <2>2. rows \in [Keys -> RowType] /\ wk \in [Workers -> WorkerType]
    BY <1>1 DEF Init
  <2>3. queue \in [Lanes -> Seq(Keys)]
    BY DEF Init
  <2>4. msg \in [Items -> MsgType] /\ thread \in ThreadType /\ reading \in BOOLEAN
    BY <1>1 DEF Init
  <2>5. offered \in [Items -> Nat] /\ reversed \in SUBSET Items
    BY DEF Init
  <2> QED BY <2>1, <2>2, <2>3, <2>4, <2>5 DEF TypeOK
<1>3. \A lane \in Lanes : LaneInv(lane)
  BY DEF Init, LaneInv
<1>4. \A k \in Keys : RowInv(k)
  BY InboundAssumption DEF Init, RowInv, NoRow
<1>5. \A w \in Workers : HandInv(w) /\ wk[w].facts = "none" /\ wk[w].phase = "idle"
  BY DEF Init, HandInv, HandShape, IdleWorker
<1>6. LedgerInv
  BY <1>2, <1>3, <1>4, <1>5 DEF LedgerInv, Init
<1>7. FactsAtAdd
  BY <1>5 DEF FactsAtAdd
<1>8. ASSUME NEW i \in Items PROVE ItemInv(i)
  <2>1. msg[i] = NoMsg /\ ~msg[i].stored /\ offered[i] = 0 /\ Kind(i) = "none"
    BY DEF Init, NoMsg, Kind
  <2>2. rows[AddKey(i)].status = "none"
    BY AddKeys DEF Init, NoRow
  <2> QED BY <1>5, <2>1, <2>2 DEF ItemInv, Blank, KindInv, TriggerInv, DoneInv, DropInv, Triggers
<1>9. CountersExact /\ BadgeShowsUnread
  <2>1. CountedItems = {} /\ UnreadItems = {}
    BY DEF Init, CountedItems, UnreadItems, NoMsg
  <2>2. thread.count = 0 /\ thread.unread = 0
    BY DEF Init
  <2> QED BY <2>1, <2>2, CountersAre, FS_EmptySet
<1> QED BY <1>6, <1>7, <1>8, <1>9 DEF ProjectorInv

LEMMA StepInv == ProjectorInv /\ [Next]_vars => ProjectorInv'
<1> SUFFICES ASSUME ProjectorInv, [Next]_vars PROVE ProjectorInv'
  OBVIOUS
<1>1. ASSUME NEW i \in Items, NEW kd \in Kinds, Write(i, kd) PROVE ProjectorInv'
  BY <1>1, WriteKeepsInv
<1>2. ASSUME NEW i \in Items, NEW v \in Moderations, Change(i, v) PROVE ProjectorInv'
  <2>1. LedgerInv' /\ \A j \in Items : Kind(j)' = Kind(j)
    BY <1>2, ChangeKeeps, ChangeEffect DEF ProjectorInv
  <2>2. UNCHANGED <<rows, wk, msg, thread, reading, offered>> /\ RowsKept
    BY <1>2 DEF Change, ledger, inbox, reward, RowsKept
  <2> QED BY <2>1, <2>2, InboxRests
<1>3. ASSUME EndResync \/ \E ev \in sent : IngestFails(ev) PROVE ProjectorInv'
  <2>1. /\ UNCHANGED <<plat, rows, queue, wk, msg, thread, reading, offered, reversed>>
        /\ sent' \subseteq sent /\ resync' \in BOOLEAN
    BY <1>3, TypeParts DEF EndResync, IngestFails, ledger, inbox, reward
  <2>2. RowsKept /\ KindsKept /\ TypeOK' /\ (\A i \in Items : Kind(i)' = Kind(i))
        /\ \A ev \in sent' : Kind(ev.item)' # "none"
    BY <2>1 DEF ProjectorInv, LedgerInv, TypeOK, RowsKept, KindsKept, Kind
  <2>3. LedgerInv'
    BY <2>1, <2>2, LedgerRests DEF ProjectorInv
  <2> QED BY <2>1, <2>2, <2>3, InboxRests
<1>4. ASSUME NEW i \in Items, CopyComment(i) \/ CopyMention(i) \/ CopyMessage(i) PROVE ProjectorInv'
  BY <1>4, CopyKeepsInv DEF CopyComment, CopyMention, CopyMessage
<1>5. ASSUME NEW ev \in sent, Ingest(ev) PROVE ProjectorInv'
  BY <1>5, IngestKeepsInv
<1>6. ASSUME \/ \E w \in Workers : Claim(w) \/ Crash(w)
             \/ \E k \in Keys : LeaseExpires(k) \/ Reclaim(k) \/ BecomeDue(k)
      PROVE  ProjectorInv'
  BY <1>6, QueueStepKeepsInv
<1>7. ASSUME NEW w \in Workers, NEW k \in Keys, ProjectRow(w, k) PROVE ProjectorInv'
  BY <1>7, ProjectRowEffect, AddsNoneKeeps, AddsOneKeeps
<1>8. ASSUME NEW w \in Workers, NEW k \in Keys, SettleRow(w, k) PROVE ProjectorInv'
  BY <1>8, SettleRowEffect, SettlesKeeps
<1>9. ASSUME MarkReadBadge \/ MarkReadMessages PROVE ProjectorInv'
  BY <1>9, MarkReadKeepsInv
<1>10. ASSUME UNCHANGED vars PROVE ProjectorInv'
  <2>1. UNCHANGED <<plat, sent, resync, rows, queue, wk, msg, thread, reading, offered, reversed>>
    BY <1>10 DEF vars
  <2>2. RowsKept /\ KindsKept /\ TypeOK' /\ (\A i \in Items : Kind(i)' = Kind(i))
        /\ \A ev \in sent' : Kind(ev.item)' # "none"
    BY <2>1 DEF ProjectorInv, LedgerInv, TypeOK, RowsKept, KindsKept, Kind
  <2>3. LedgerInv'
    BY <2>1, <2>2, LedgerRests DEF ProjectorInv
  <2> QED BY <2>1, <2>2, <2>3, InboxRests
<1> QED BY <1>1, <1>2, <1>3, <1>4, <1>5, <1>6, <1>7, <1>8, <1>9, <1>10 DEF Next

\* The inductive invariant of the ledger and its projectors: what the database's
\* constraints and the order of a projector's statements leave true between any
\* two steps of any workers.
THEOREM ProjectorInvariant == Spec => []ProjectorInv
<1>1. Init => ProjectorInv
  BY InitInv
<1>2. ProjectorInv /\ [Next]_vars => ProjectorInv'
  BY StepInv
<1> QED BY <1>1, <1>2, PTL DEF Spec

\* Whatever crashes, lapsed leases, failed statements and history walks make of a
\* delivery, its message is stored, reaches the reward engine at most once, and
\* its row is handed out at most max_attempts times (projectRow, offerToRewards,
\* markFailed, reclaimExpiredLeases).
THEOREM NothingIsLostOrDoubled == Spec => []NothingLostOrDoubled
<1>1. ProjectorInv => NothingLostOrDoubled
  <2> SUFFICES ASSUME ProjectorInv PROVE NothingLostOrDoubled
    OBVIOUS
  <2>1. TypeOK /\ AttemptsWithinBudget
    BY DEF ProjectorInv, LedgerInv, RowInv, AttemptsWithinBudget
  <2>2. OfferedAtMostOnce
    <3> SUFFICES ASSUME NEW i \in Items
                 PROVE  /\ offered[i] <= 1
                        /\ offered[i] = 1 => \A w \in Workers :
                              ~(wk[w].facts = "trigger" /\ wk[w].at = <<i, "add">>)
      BY DEF OfferedAtMostOnce
    <3>1. TriggerInv(i)
      BY DEF ProjectorInv, ItemInv
    <3> QED BY <3>1 DEF TriggerInv, Triggers, AddKey
  <2>3. NothingSilentlyDropped
    BY DEF ProjectorInv, ItemInv, DropInv, Expected, AddKey, NothingSilentlyDropped
  <2> QED BY <2>1, <2>2, <2>3 DEF NothingLostOrDoubled
<1> QED BY <1>1, ProjectorInvariant, PTL

\* The counter of the conversation is the number of its messages, however often
\* their rows are projected again (recordMessage after insertInbound).
THEOREM CountersStayExact == Spec => []CountersExact
<1>1. ProjectorInv => CountersExact
  BY DEF ProjectorInv
<1> QED BY <1>1, ProjectorInvariant, PTL

\* Between two agents' readings the badge stands for every unread message
\* (markRead clears it before it marks the messages).
THEOREM BadgeHidesNothing == Spec => []BadgeShowsUnread
<1>1. ProjectorInv => BadgeShowsUnread
  BY DEF ProjectorInv
<1> QED BY <1>1, ProjectorInvariant, PTL

-----------------------------------------------------------------------------
(* Refinement: the ledger of deliveries is a leased queue.  The mapping is   *)
(* Queue in InboundLedger.  An owned row is being projected, so what passes  *)
(* the fence finishes a held entry; and the row a worker is on is in its     *)
(* batch, so whoever settles has the entry in his hands.                     *)

LEMMA RowDecides ==
  ASSUME NEW k \in Keys, rows'[k] = rows[k]
  PROVE  QueueState(k)' = QueueState(k) /\ Reapable(k)' = Reapable(k)
  BY DEF QueueState, Reapable

LEMMA QueueRests ==
  ASSUME \A k \in Keys : /\ QueueState(k)' = QueueState(k) /\ rows'[k].owner = rows[k].owner
                         /\ Reapable(k)' <=> Reapable(k),
         \A w \in Workers : QueueHands(w)' = QueueHands(w)
  PROVE  UNCHANGED Queue!queueVars
<1>1. [k \in Keys |-> QueueState(k)]' = [k \in Keys |-> QueueState(k)]
  OBVIOUS
<1>2. [k \in Keys |-> rows[k].owner]' = [k \in Keys |-> rows[k].owner]
  OBVIOUS
<1>3. [w \in Workers |-> QueueHands(w)]' = [w \in Workers |-> QueueHands(w)]
  OBVIOUS
<1>4. {k \in Keys : Reapable(k)}' = {k \in Keys : Reapable(k)}
  OBVIOUS
<1> QED BY <1>1, <1>2, <1>3, <1>4 DEF Queue!queueVars

\* A worker that gives back a row it owns, and takes it out of its hands.
LEMMA QueueFinish ==
  ASSUME NEW w \in Workers, NEW k \in Keys, NEW to \in SettledStatuses \cup {"waiting"},
         k \in QueueHands(w), rows[k].owner = w, QueueState(k) = "held",
         QueueState(k)' = to, rows'[k].owner = NoWorker, ~Reapable(k)',
         \A j \in Keys \ {k} : rows'[j] = rows[j],
         QueueHands(w)' = QueueHands(w) \ {k},
         \A v \in Workers \ {w} : QueueHands(v)' = QueueHands(v)
  PROVE  Queue!Next
<1>1. \A j \in Keys \ {k} : QueueState(j)' = QueueState(j) /\ Reapable(j)' = Reapable(j)
  BY RowDecides
<1>2. Queue!Finish(w, k, to)
  <2>1. [j \in Keys |-> rows[j].owner][k] = w /\ [j \in Keys |-> QueueState(j)][k] = "held"
    OBVIOUS
  <2>2. [v \in Workers |-> QueueHands(v)]'
          = [[v \in Workers |-> QueueHands(v)] EXCEPT ![w] = @ \ {k}]
    OBVIOUS
  <2>3. [j \in Keys |-> QueueState(j)]' = [[j \in Keys |-> QueueState(j)] EXCEPT ![k] = to]
    BY <1>1
  <2>4. [j \in Keys |-> rows[j].owner]' = [[j \in Keys |-> rows[j].owner] EXCEPT ![k] = NoWorker]
    OBVIOUS
  <2>5. {j \in Keys : Reapable(j)}' = {j \in Keys : Reapable(j)} \ {k}
    BY <1>1
  <2> QED BY <2>1, <2>2, <2>3, <2>4, <2>5 DEF Queue!Finish, Queue!Returned
<1>3. k \in [v \in Workers |-> QueueHands(v)][w]
  OBVIOUS
<1> QED BY <1>2, <1>3 DEF Queue!Next

\* A worker that drops rows from its hands and writes nothing.
LEMMA QueueLetsGo ==
  ASSUME NEW w \in Workers, NEW S \in SUBSET QueueHands(w),
         \A k \in Keys : rows'[k] = rows[k],
         QueueHands(w)' = QueueHands(w) \ S,
         \A v \in Workers \ {w} : QueueHands(v)' = QueueHands(v)
  PROVE  Queue!Next
<1>1. \A k \in Keys : QueueState(k)' = QueueState(k) /\ Reapable(k)' = Reapable(k)
  BY RowDecides
<1>2. Queue!LetGo(w, S)
  <2>1. [v \in Workers |-> QueueHands(v)]'
          = [[v \in Workers |-> QueueHands(v)] EXCEPT ![w] = @ \ S]
    OBVIOUS
  <2>2. [k \in Keys |-> QueueState(k)]' = [k \in Keys |-> QueueState(k)]
    BY <1>1
  <2>3. [k \in Keys |-> rows[k].owner]' = [k \in Keys |-> rows[k].owner]
    OBVIOUS
  <2>4. {k \in Keys : Reapable(k)}' = {k \in Keys : Reapable(k)}
    BY <1>1
  <2> QED BY <2>1, <2>2, <2>3, <2>4 DEF Queue!LetGo
<1>3. S \in SUBSET [v \in Workers |-> QueueHands(v)][w]
  OBVIOUS
<1> QED BY <1>2, <1>3 DEF Queue!Next

LEMMA HandsOfOthers ==
  ASSUME NEW v \in Workers, wk'[v] = wk[v]
  PROVE  QueueHands(v)' = QueueHands(v)
  BY DEF QueueHands

LEMMA AllHands ==
  ASSUME UNCHANGED wk
  PROVE  /\ \A w \in Workers : QueueHands(w)' = QueueHands(w)
         /\ [w \in Workers |-> QueueHands(w)]' = [w \in Workers |-> QueueHands(w)]
<1>1. \A w \in Workers : QueueHands(w)' = QueueHands(w)
  BY HandsOfOthers
<1> QED BY <1>1

LEMMA AllRows ==
  ASSUME UNCHANGED rows
  PROVE  \A k \in Keys : /\ QueueState(k)' = QueueState(k) /\ rows'[k].owner = rows[k].owner
                         /\ Reapable(k)' <=> Reapable(k)
  BY DEF QueueState, Reapable

\* A delivery, or an item a walk read, is offered to the queue.
LEMMA QueueOffer ==
  ASSUME LedgerInv, NEW k \in Keys, NEW n \in 0 .. MaxChanges, NEW h \in BOOLEAN,
         rows[k].status = "none", rows' = [rows EXCEPT ![k] = Inserted(n, h)], UNCHANGED wk
  PROVE  Queue!Next
<1>1. /\ rows'[k].status = "pending" /\ rows'[k].owner = rows[k].owner
      /\ \A j \in Keys \ {k} : rows'[j] = rows[j]
  <2>1. RowInv(k) /\ TypeOK /\ rows \in [Keys -> RowType]
    BY DEF LedgerInv, TypeOK
  <2>2. Inserted(n, h).status = "pending" /\ Inserted(n, h).owner = NoWorker
    BY <2>1, InsertedRow DEF RowInv
  <2>3. rows[k].owner = NoWorker
    BY <2>1 DEF RowInv
  <2> QED BY <2>1, <2>2, <2>3
<1>2. /\ QueueState(k) = "absent" /\ QueueState(k)' = "waiting" /\ ~Reapable(k) /\ ~Reapable(k)'
      /\ \A j \in Keys \ {k} : QueueState(j)' = QueueState(j) /\ Reapable(j)' = Reapable(j)
  BY <1>1 DEF QueueState, Reapable
<1>3. Queue!Offer(k)
  <2>1. [j \in Keys |-> QueueState(j)][k] = "absent"
    BY <1>2
  <2>2. [j \in Keys |-> QueueState(j)]' = [[j \in Keys |-> QueueState(j)] EXCEPT ![k] = "waiting"]
    BY <1>2
  <2>3. [j \in Keys |-> rows[j].owner]' = [j \in Keys |-> rows[j].owner]
    BY <1>1
  <2>4. {j \in Keys : Reapable(j)}' = {j \in Keys : Reapable(j)}
    BY <1>2
  <2> QED BY <2>1, <2>2, <2>3, <2>4, AllHands DEF Queue!Offer
<1> QED BY <1>3 DEF Queue!Next

\* A claim takes the head of the lines, all of the batch at once.
LEMMA QueueTake ==
  ASSUME LedgerInv, NEW w \in Workers, Claim(w)
  PROVE  Queue!Next
<1>0. PICK S : S = FirstRows
  OBVIOUS
<1>1. /\ S \in SUBSET Keys
      /\ \A k \in S : /\ rows[k].status \in Due /\ rows'[k].status = "processing"
                      /\ rows'[k].owner = w /\ rows'[k].leased = TRUE
      /\ \A k \in Keys \ S : rows'[k] = rows[k]
      /\ wk'[w].phase = "batch" /\ wk'[w].batch = S
      /\ \A v \in Workers \ {w} : wk'[v] = wk[v]
  BY <1>0, ClaimEffect
<1>2. /\ \A k \in S : /\ QueueState(k) = "waiting" /\ QueueState(k)' = "held"
                      /\ ~Reapable(k) /\ ~Reapable(k)'
      /\ \A k \in Keys \ S : QueueState(k)' = QueueState(k) /\ Reapable(k)' = Reapable(k)
  BY <1>1 DEF QueueState, Reapable, Due
<1>3. QueueHands(w)' = S /\ \A v \in Workers \ {w} : QueueHands(v)' = QueueHands(v)
  BY <1>1 DEF QueueHands
<1>4. Queue!Take(w, S)
  <2>1. [v \in Workers |-> QueueHands(v)]' = [[v \in Workers |-> QueueHands(v)] EXCEPT ![w] = S]
    BY <1>3
  <2>2. [k \in Keys |-> QueueState(k)]'
          = [k \in Keys |-> IF k \in S THEN "held" ELSE [j \in Keys |-> QueueState(j)][k]]
    BY <1>2
  <2>3. [k \in Keys |-> rows[k].owner]'
          = [k \in Keys |-> IF k \in S THEN w ELSE [j \in Keys |-> rows[j].owner][k]]
    BY <1>1
  <2>4. {k \in Keys : Reapable(k)}' = {k \in Keys : Reapable(k)}
    BY <1>2
  <2> QED BY <2>1, <2>2, <2>3, <2>4 DEF Queue!Take
<1>5. S \in SUBSET Queue!Waiting
  BY <1>1, <1>2 DEF Queue!Waiting
<1> QED BY <1>4, <1>5 DEF Queue!Next

\* A lease runs out.
LEMMA QueueLapse ==
  ASSUME LedgerInv, NEW k \in Keys, LeaseExpires(k)
  PROVE  Queue!Next
<1>1. /\ \A j \in Keys \ {k} : rows'[j] = rows[j]
      /\ rows'[k].status = rows[k].status /\ rows'[k].owner = rows[k].owner
      /\ rows'[k].leased = FALSE /\ rows[k].status = "processing" /\ UNCHANGED wk
  BY LeaseExpiresEffect DEF LeaseExpires
<1>2. /\ QueueState(k) = "held" /\ QueueState(k)' = "held" /\ Reapable(k)'
      /\ \A j \in Keys \ {k} : QueueState(j)' = QueueState(j) /\ Reapable(j)' = Reapable(j)
  BY <1>1 DEF QueueState, Reapable
<1>3. Queue!Lapse({k})
  <2>1. [j \in Keys |-> QueueState(j)]' = [j \in Keys |-> QueueState(j)]
    BY <1>2
  <2>2. [j \in Keys |-> rows[j].owner]' = [j \in Keys |-> rows[j].owner]
    BY <1>1
  <2>3. {j \in Keys : Reapable(j)}' = {j \in Keys : Reapable(j)} \cup {k}
    BY <1>2
  <2> QED BY <1>1, <2>1, <2>2, <2>3, AllHands DEF Queue!Lapse
<1>4. {k} \in SUBSET Queue!Held
  BY <1>2 DEF Queue!Held
<1> QED BY <1>3, <1>4 DEF Queue!Next

\* The reaper takes only what has lapsed.
LEMMA QueueReap ==
  ASSUME LedgerInv, NEW k \in Keys, Reclaim(k)
  PROVE  Queue!Next
<1>1. /\ \A j \in Keys \ {k} : rows'[j] = rows[j]
      /\ rows[k].status = "processing" /\ rows'[k].status \in {"dead_letter", "pending"}
      /\ rows'[k].owner = NoWorker /\ Reapable(k) /\ UNCHANGED wk
  BY ReclaimEffect DEF Reclaim
<1> DEFINE to == IF rows'[k].status = "pending" THEN "waiting" ELSE "dead_letter"
<1>2. /\ QueueState(k) = "held" /\ QueueState(k)' = to /\ ~Reapable(k)'
      /\ to \in SettledStatuses \cup {"waiting"}
      /\ \A j \in Keys \ {k} : QueueState(j)' = QueueState(j) /\ Reapable(j)' = Reapable(j)
  BY <1>1 DEF QueueState, Reapable, SettledStatuses
<1> HIDE DEF to
<1>3. Queue!Reap(k, to)
  <2>1. k \in {j \in Keys : Reapable(j)}
    BY <1>1
  <2>2. [j \in Keys |-> QueueState(j)]' = [[j \in Keys |-> QueueState(j)] EXCEPT ![k] = to]
    BY <1>2
  <2>3. [j \in Keys |-> rows[j].owner]' = [[j \in Keys |-> rows[j].owner] EXCEPT ![k] = NoWorker]
    BY <1>1
  <2>4. {j \in Keys : Reapable(j)}' = {j \in Keys : Reapable(j)} \ {k}
    BY <1>2
  <2> QED BY <1>1, <2>1, <2>2, <2>3, <2>4, AllHands DEF Queue!Reap, Queue!Returned
<1>4. k \in Queue!Held
  BY <1>2 DEF Queue!Held
<1> QED BY <1>2, <1>3, <1>4 DEF Queue!Next

\* A worker that only moves on to another phase of the same row.
LEMMA WorkerRests ==
  ASSUME NEW w \in Workers, UNCHANGED rows,
         wk'[w].batch = wk[w].batch,
         wk[w].phase # "offering", wk'[w].phase # "offering",
         \A v \in Workers \ {w} : wk'[v] = wk[v]
  PROVE  UNCHANGED Queue!queueVars
<1>1. QueueHands(w)' = QueueHands(w)
  BY DEF QueueHands
<1>2. \A v \in Workers : QueueHands(v)' = QueueHands(v)
  BY <1>1, HandsOfOthers
<1> QED BY <1>2, AllRows, QueueRests

\* The hands of a worker that ends a row it has not settled yet, or has settled
\* and only offers.
LEMMA HandsSettled ==
  ASSUME NEW w \in Workers, NEW k \in wk[w].batch, wk[w].phase # "offering",
         \/ wk'[w].phase = "offering" /\ wk'[w].at = k /\ wk'[w].batch = wk[w].batch
         \/ wk'[w].phase # "offering" /\ wk'[w].batch = wk[w].batch \ {k}
  PROVE  k \in QueueHands(w) /\ QueueHands(w)' = QueueHands(w) \ {k}
  BY DEF QueueHands

\* A settling statement: the fence lets it through, and the entry is finished, or
\* it does not, and the worker lets the entry go.
LEMMA SettleIsQueueStep ==
  ASSUME ProjectorInv, NEW w \in Workers, NEW k \in Keys,
         NEW status \in SettledStatuses \cup {"failed"}, Settle(w, k, status),
         k \in QueueHands(w), QueueHands(w)' = QueueHands(w) \ {k},
         \A v \in Workers \ {w} : wk'[v] = wk[v]
  PROVE  Queue!Next
<1>1. \A v \in Workers \ {w} : QueueHands(v)' = QueueHands(v)
  BY HandsOfOthers
<1>2. /\ status \in RowStatuses \ {"none"}
      /\ status # "processing" /\ status \notin {"none", "pending"}
  BY DEF RowStatuses, SettledStatuses
<1>3. /\ \A j \in Keys \ {k} : rows'[j] = rows[j]
      /\ rows[k].owner # w => rows'[k] = rows[k]
      /\ rows[k].owner = w => rows'[k] = Release(rows[k], status)
  BY <1>2, SettleEffect, TypeParts
<1>4. CASE rows[k].owner # w
  <2>1. \A j \in Keys : rows'[j] = rows[j]
    BY <1>3, <1>4
  <2>2. {k} \in SUBSET QueueHands(w)
    OBVIOUS
  <2> QED BY <1>1, <2>1, <2>2, QueueLetsGo
<1>5. CASE rows[k].owner = w
  <2> DEFINE r == rows[k]
  <2>1. RowInv(k) /\ r \in RowType
    BY RowAt DEF ProjectorInv, LedgerInv
  <2>2. rows[k].status = "processing" /\ QueueState(k) = "held"
    BY <1>5, <2>1, InboundAssumption DEF RowInv, QueueState
  <2>3. Release(r, status).status = status /\ Release(r, status).owner = NoWorker
    BY <1>2, <2>1, ReleasedRow
  <2>4. rows'[k].status = status /\ rows'[k].owner = NoWorker
    BY <1>3, <1>5, <2>3
  <2>5. PICK to \in SettledStatuses \cup {"waiting"} :
          to = IF status = "failed" THEN "waiting" ELSE status
    OBVIOUS
  <2>6. QueueState(k)' = to /\ ~Reapable(k)'
    BY <1>2, <2>4, <2>5 DEF QueueState, Reapable
  <2> QED BY <1>1, <1>3, <1>5, <2>2, <2>4, <2>6, QueueFinish
<1> QED BY <1>4, <1>5

\* A poll that ends with an exception, and a process that dies, let go of all.
LEMMA EndIsQueueStep ==
  ASSUME ProjectorInv, NEW w \in Workers, NEW p \in {"idle", "dead"}, UNCHANGED rows,
         wk' = [wk EXCEPT ![w] = [IdleWorker EXCEPT !.phase = p]]
  PROVE  Queue!Next
<1>1. wk'[w].batch = {} /\ \A v \in Workers \ {w} : wk'[v] = wk[v]
  BY EmptyShape
<1>2. QueueHands(w)' = {} /\ \A v \in Workers \ {w} : QueueHands(v)' = QueueHands(v)
  BY <1>1, HandsOfOthers DEF QueueHands
<1>3. PICK S : S = QueueHands(w)
  OBVIOUS
<1>4. S \in SUBSET QueueHands(w) /\ QueueHands(w)' = QueueHands(w) \ S
  BY <1>2, <1>3
<1> QED BY <1>2, <1>4, QueueLetsGo

LEMMA SettleRowIsQueueStep ==
  ASSUME ProjectorInv, NEW w \in Workers, NEW k \in Keys, SettleRow(w, k)
  PROVE  Queue!Next \/ UNCHANGED Queue!queueVars
<1>0. wk \in [Workers -> WorkerType]
  BY TypeParts
<1>1. CASE MarkProcessed(w, k)
  <2>1. wk[w].phase = "projected" /\ wk[w].at = k /\ k \in wk[w].batch
    BY <1>1, AtEffect DEF MarkProcessed
  <2>2. /\ wk'[w].phase = "offering" /\ wk'[w].at = k /\ wk'[w].batch = wk[w].batch
        /\ \A v \in Workers \ {w} : wk'[v] = wk[v]
    BY <1>0, <1>1, GoToEffect DEF MarkProcessed
  <2>3. k \in QueueHands(w) /\ QueueHands(w)' = QueueHands(w) \ {k}
    BY <2>1, <2>2, HandsSettled
  <2> QED BY <1>1, <2>2, <2>3, SettleIsQueueStep DEF MarkProcessed, SettledStatuses
<1>2. CASE MarkSkipped(w, k) \/ MarkFailed(w, k)
  <2>1. wk[w].phase # "offering" /\ k \in wk[w].batch
    BY <1>2, AtEffect DEF MarkSkipped, MarkFailed
  <2>2. /\ wk'[w].phase # "offering" /\ wk'[w].batch = wk[w].batch \ {k}
        /\ \A v \in Workers \ {w} : wk'[v] = wk[v]
    BY <1>0, <1>2, AdvanceEffect DEF MarkSkipped, MarkFailed
  <2>3. k \in QueueHands(w) /\ QueueHands(w)' = QueueHands(w) \ {k}
    BY <2>1, <2>2, HandsSettled
  <2>4. PICK status \in SettledStatuses \cup {"failed"} : Settle(w, k, status)
    BY <1>2 DEF MarkSkipped, MarkFailed, SettledStatuses
  <2> QED BY <2>2, <2>3, <2>4, SettleIsQueueStep
<1>3. CASE OfferToRewards(w, k) \/ RewardsThrow(w, k)
  <2>1. wk[w].phase = "offering" /\ wk[w].at = k /\ k \in wk[w].batch /\ rows' = rows
    BY <1>3, AtEffect DEF OfferToRewards, RewardsThrow, ledger
  <2>2. /\ wk'[w].phase # "offering" /\ wk'[w].batch = wk[w].batch \ {k}
        /\ \A v \in Workers \ {w} : wk'[v] = wk[v]
    BY <1>0, <1>3, AdvanceEffect DEF OfferToRewards, RewardsThrow
  <2>3. \A v \in Workers : QueueHands(v)' = QueueHands(v)
    BY <2>1, <2>2, HandsOfOthers DEF QueueHands
  <2> QED BY <2>1, <2>3, AllRows, QueueRests
<1>4. CASE StatementFails(w, k)
  <2>1. rows' = rows
    BY <1>4 DEF StatementFails, ledger
  <2>2. CASE wk' = [wk EXCEPT ![w] = IdleWorker]
    BY <2>1, <2>2, IdleHands, EndIsQueueStep
  <2>3. CASE (At(w, "projected", k) \/ At(w, "skipping", k)) /\ GoTo(w, k, "failing", "none")
    <3>1. wk[w].phase # "offering"
      BY <2>3, AtEffect
    <3>2. /\ wk'[w].phase # "offering" /\ wk'[w].batch = wk[w].batch
          /\ \A v \in Workers \ {w} : wk'[v] = wk[v]
      BY <1>0, <2>3, GoToEffect
    <3> QED BY <2>1, <3>1, <3>2, WorkerRests
  <2> QED BY <1>4, <2>2, <2>3 DEF StatementFails
<1> QED BY <1>1, <1>2, <1>3, <1>4 DEF SettleRow

LEMMA ProjectRowRests ==
  ASSUME ProjectorInv, NEW w \in Workers, NEW k \in Keys, ProjectRow(w, k)
  PROVE  UNCHANGED Queue!queueVars
<1>1. PICK p \in {"projected", "skipping", "failing"}, f \in {"none", "trigger", "reversal"} :
        Projects(w, k, p, f)
  BY ProjectRowEffect DEF AddsNone, AddsOne
<1>2. wk[w].phase = "batch" /\ GoTo(w, k, p, f) /\ rows' = rows
  BY <1>1 DEF Projects
<1>3. /\ wk'[w].phase = p /\ wk'[w].batch = wk[w].batch
      /\ \A v \in Workers \ {w} : wk'[v] = wk[v]
  BY <1>2, TypeParts, GoToEffect
<1> QED BY <1>2, <1>3, WorkerRests

\* Every step of the ledger is a step of the queue, or none.
LEMMA StepIsQueueStep == ProjectorInv /\ [Next]_vars => [Queue!Next]_(Queue!queueVars)
<1> SUFFICES ASSUME ProjectorInv, [Next]_vars
             PROVE  Queue!Next \/ UNCHANGED Queue!queueVars
  OBVIOUS
<1>0. LedgerInv
  BY DEF ProjectorInv
<1>1. ASSUME UNCHANGED <<rows, wk>> PROVE UNCHANGED Queue!queueVars
  BY <1>1, AllRows, AllHands, QueueRests
<1>2. ASSUME \/ \E i \in Items, kd \in Kinds : Write(i, kd)
             \/ \E i \in Items, v \in Moderations : Change(i, v)
             \/ EndResync \/ MarkReadBadge \/ MarkReadMessages
             \/ \E ev \in sent : IngestFails(ev)
             \/ \E k \in Keys : BecomeDue(k)
             \/ UNCHANGED vars
      PROVE  UNCHANGED <<rows, wk>>
  BY <1>2 DEF Write, Change, EndResync, MarkReadBadge, MarkReadMessages, IngestFails, BecomeDue,
              ledger, vars
<1>3. ASSUME NEW ev \in sent, Ingest(ev) PROVE Queue!Next \/ UNCHANGED Queue!queueVars
  <2> DEFINE k == DedupKey(ev)
  <2>1. ev \in Event
    BY <1>0 DEF LedgerInv, TypeOK
  <2>2. k \in Keys /\ ev.nr \in 0 .. MaxChanges /\ wk' = wk
    BY <1>3, <2>1, InboundAssumption DEF DedupKey, Keys, Event, Ingest
  <2>3. CASE rows[k].status = "none"
    <3>1. rows' = [rows EXCEPT ![k] = Inserted(ev.nr, FALSE)]
      BY <1>3, <2>3 DEF Ingest
    <3> HIDE DEF k
    <3> QED BY <1>0, <2>2, <2>3, <3>1, QueueOffer
  <2>4. CASE rows[k].status # "none"
    BY <1>1, <1>3, <2>2, <2>4 DEF Ingest, ledger
  <2> QED BY <2>3, <2>4
<1>4. ASSUME NEW i \in Items, CopyComment(i) \/ CopyMention(i) \/ CopyMessage(i) PROVE Queue!Next
  <2> DEFINE k == HistoryKey(i)
  <2>1. Copy(i)
    BY <1>4 DEF CopyComment, CopyMention, CopyMessage
  <2>2. k \in Keys /\ plat[i].body \in 0 .. MaxChanges
    BY <1>0, AddKeys DEF HistoryKey, AddKey, LedgerInv, TypeOK, PlatType
  <2>3. rows[k].status = "none" /\ rows' = [rows EXCEPT ![k] = Inserted(plat[i].body, TRUE)] /\ wk' = wk
    BY <2>1 DEF Copy
  <2> HIDE DEF k
  <2> QED BY <1>0, <2>2, <2>3, QueueOffer
<1>5. ASSUME NEW w \in Workers, Crash(w) PROVE Queue!Next
  BY <1>5, EndIsQueueStep DEF Crash, ledger
<1> QED BY <1>0, <1>1, <1>2, <1>3, <1>4, <1>5, QueueTake, QueueLapse, QueueReap,
           ProjectRowRests, SettleRowIsQueueStep DEF Next

\* The ledger of deliveries is a leased queue, for every set of items, every number
\* of workers, every batch size and budget: a worker that lost its lease cannot
\* take back what the next owner recorded, a settled row never becomes work again,
\* and the reaper takes a row only when its lease is over (claimBatch, the fences
\* of markProcessed, markSkipped and markFailed, reclaimExpiredLeases).
THEOREM InboundImplementsLeasedQueue == Spec => InboundIsLeasedQueue
<1>1. Init => Queue!Init
  <2> SUFFICES ASSUME Init PROVE Queue!Init
    OBVIOUS
  <2>1. \A k \in Keys : QueueState(k) = "absent" /\ rows[k].owner = NoWorker /\ ~Reapable(k)
    BY DEF Init, NoRow, QueueState, Reapable
  <2>2. \A w \in Workers : QueueHands(w) = {}
    BY DEF Init, IdleWorker, QueueHands
  <2> QED BY <2>1, <2>2 DEF Queue!Init
<1> QED BY <1>1, StepIsQueueStep, ProjectorInvariant, PTL
        DEF Spec, InboundIsLeasedQueue, Queue!Spec
=============================================================================
