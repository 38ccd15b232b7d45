---------------------------- MODULE AuditJournal ----------------------------
(***************************************************************************)
(* The durable event journal (ADR-018, audit_service).  Writers record     *)
(* events inside their own transactions, which commit in any order or roll *)
(* back.  A consumer reads the journal page by page behind a cursor over   *)
(* (xid, id) and is shown only events of transactions older than every     *)
(* transaction still open (pg_snapshot_xmin).                              *)
(***************************************************************************)
EXTENDS Naturals, FiniteSets

CONSTANTS
  Writers,        \* database sessions that change something
  Limit,          \* page size
  MaxXid, MaxId   \* bounds of the model: transactions and events written

ASSUME JournalAssumption ==
  /\ Limit \in Nat \ {0}
  /\ MaxXid \in Nat /\ MaxId \in Nat

VARIABLES
  xid,        \* transaction id of each writer, 0 while it has none
  pending,    \* events each writer has recorded but not committed
  events,     \* committed rows of audit_events
  next_xid,   \* the next transaction id to be assigned
  next_id,    \* the next value of the identity column
  page,       \* the items of the consumer's last read
  cursor,     \* what the consumer read up to
  delivered   \* every event the consumer has been given

reader == <<page, cursor, delivered>>
vars == <<xid, pending, events, next_xid, next_id, reader>>

Event == [xid : Nat, id : Nat]
Start == [xid |-> 0, id |-> 0]   \* no `after` parameter

\* ORDER BY xid, id
Before(e, f) == e.xid < f.xid \/ (e.xid = f.xid /\ e.id < f.id)

TypeOK ==
  /\ xid \in [Writers -> Nat]
  /\ pending \in [Writers -> SUBSET Event]
  /\ \A w \in Writers : \A e \in pending[w] : e.xid = xid[w] /\ e.xid # 0
  /\ events \subseteq Event
  /\ next_xid \in Nat /\ next_id \in Nat
  /\ page \subseteq delivered
  /\ cursor \in Event
  /\ delivered \subseteq Event

Init ==
  /\ xid = [w \in Writers |-> 0]
  /\ pending = [w \in Writers |-> {}]
  /\ events = {}
  /\ next_xid = 1
  /\ next_id = 1
  /\ page = {}
  /\ cursor = Start
  /\ delivered = {}

-----------------------------------------------------------------------------
(* Writers.                                                                *)

\* The first write of a transaction assigns its id, before any event of it:
\* the reservation of an idempotency key, a row lock, or the event itself.
Begin(w) ==
  /\ xid[w] = 0 /\ next_xid <= MaxXid
  /\ xid' = [xid EXCEPT ![w] = next_xid]
  /\ next_xid' = next_xid + 1
  /\ UNCHANGED <<pending, events, next_id, reader>>

\* record, and the flush that inserts the row.
Record(w) ==
  /\ xid[w] # 0 /\ next_id <= MaxId
  /\ pending' = [pending EXCEPT ![w] = @ \cup {[xid |-> xid[w], id |-> next_id]}]
  /\ next_id' = next_id + 1
  /\ UNCHANGED <<xid, events, next_xid, reader>>

\* Slip: what was recorded outlives the transaction and goes with the next.
FinishUncleared(w, kept) ==
  /\ xid[w] # 0
  /\ events' = events \cup kept
  /\ xid' = [xid EXCEPT ![w] = 0]
  /\ UNCHANGED <<pending, next_xid, next_id, reader>>

\* The events stay with the change they describe, or go with it.
Finish(w, kept) ==
  /\ xid[w] # 0
  /\ events' = events \cup kept
  /\ xid' = [xid EXCEPT ![w] = 0]
  /\ pending' = [pending EXCEPT ![w] = {}]
  /\ UNCHANGED <<next_xid, next_id, reader>>

Commit(w)   == Finish(w, pending[w])
Rollback(w) == Finish(w, {})

-----------------------------------------------------------------------------
(* The consumer.                                                           *)

Open == {w \in Writers : xid[w] # 0}

\* Slip: everything committed is shown at once.
SettledAlways(e) == TRUE

\* Slip: only transactions older than the newest open one are waited for.
SettledTooEarly(e) == \E w \in Open : e.xid < xid[w]

\* xid < pg_snapshot_xmin: no transaction that old is open any more.
Settled(e) == e.xid < next_xid /\ \A w \in Open : e.xid < xid[w]

\* Slip: the cursor is compared by xid alone.
AfterByXid(e) == cursor.xid < e.xid

\* Slip: the page starts at the cursor.
AfterInclusive(e) == ~Before(e, cursor)

After(e) == Before(cursor, e)

Readable == {e \in events : Settled(e) /\ After(e)}

\* LIMIT: the smallest elements in the order, as many as fit.
IsPage(items) ==
  /\ items \subseteq Readable
  /\ Cardinality(items) <= Limit
  /\ \A e \in items, f \in Readable \ items : Before(e, f)
  /\ items # Readable => Cardinality(items) = Limit

\* list_events: the cursor moves to the last event of the page.
Read ==
  \E items \in SUBSET Readable, last \in Readable :
    /\ IsPage(items)
    /\ last \in items /\ \A e \in items : e = last \/ Before(e, last)
    /\ page' = items
    /\ cursor' = last
    /\ delivered' = delivered \cup items
    /\ UNCHANGED <<xid, pending, events, next_xid, next_id>>

-----------------------------------------------------------------------------
Next ==
  \/ \E w \in Writers : Begin(w) \/ Record(w) \/ Commit(w) \/ Rollback(w)
  \/ Read

\* Transactions end, since requests do, and the consumer goes on reading.
Fairness ==
  /\ \A w \in Writers : WF_vars(Commit(w) \/ Rollback(w))
  /\ WF_vars(Read)

Spec == Init /\ [][Next]_vars /\ Fairness

-----------------------------------------------------------------------------
(* Properties.                                                             *)

(* No gaps: whatever is committed, now or later, lies ahead of the cursor  *)
(* or has been given to the consumer, though transactions commit out of    *)
(* order and ids are assigned before commits.                              *)
NothingBehindCursor ==
  /\ \A e \in events : Before(cursor, e) \/ e \in delivered
  /\ \A w \in Open : \A e \in pending[w] : Before(cursor, e)

(* A consumer that goes on from its cursor is given no event twice, and    *)
(* the events of every page come after those of the pages before it.       *)
DeliveredOnce ==
  [][cursor' # cursor => \A e \in page', f \in delivered : Before(f, e)]_vars

(* Read again from an earlier cursor, the journal gives the same events:   *)
(* below the horizon of a reader the order is final.                       *)
HistoryIsFinal ==
  [][\A e \in events' \ events, f \in events :
       Settled(f) => Before(f, e)]_vars

Feed == INSTANCE EventFeed WITH log <- {e \in events : Settled(e)}, given <- delivered

(* What consumers see of the journal is a log that grows at its end only,  *)
(* of which each is given beginnings, though transactions commit in any    *)
(* order and every page is read at another horizon.                        *)
ImplementsFeed == Feed!Spec

(* Every committed event reaches the consumer: the horizon moves as soon   *)
(* as the transactions open before it have ended.                          *)
EveryEventDelivered ==
  \A x \in 1 .. MaxXid, i \in 1 .. MaxId :
    [xid |-> x, id |-> i] \in events ~> [xid |-> x, id |-> i] \in delivered
=============================================================================
