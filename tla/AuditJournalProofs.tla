------------------------- MODULE AuditJournalProofs -------------------------
(***************************************************************************)
(* Theorems about AuditJournal, for any number of writers, any page size   *)
(* and transactions that overlap in any order.                             *)
(***************************************************************************)
EXTENDS AuditJournal, TLAPS

\* Open transactions, and so the events they will commit, have ids the
\* consumer's cursor has not reached.
OpenAhead ==
  /\ cursor.xid < next_xid
  /\ \A w \in Open : cursor.xid < xid[w] /\ xid[w] < next_xid

\* The cursor is the last event given out.
CursorIsLast == \A f \in delivered : f = cursor \/ Before(f, cursor)

\* Whatever is committed lies ahead of the cursor or has been given out.
Behind == \A e \in events : Before(cursor, e) \/ e \in delivered

JournalInv == TypeOK /\ OpenAhead /\ CursorIsLast /\ Behind

LEMMA BeforeTransitive ==
  ASSUME NEW e \in Event, NEW f \in Event, NEW g \in Event, Before(e, f), Before(f, g)
  PROVE  Before(e, g)
BY DEF Event, Before

LEMMA BeforeTotal ==
  ASSUME NEW e \in Event, NEW f \in Event
  PROVE  e = f \/ Before(e, f) \/ Before(f, e)
BY DEF Event, Before

LEMMA JournalInit == Init => JournalInv
BY DEF Init, JournalInv, TypeOK, OpenAhead, CursorIsLast, Behind, Open, Start, Event

LEMMA BeginStep ==
  ASSUME JournalInv, NEW w \in Writers, Begin(w)
  PROVE  JournalInv'
<1> USE DEF JournalInv, Begin, reader
<1>1. TypeOK'
  <2>1. pending[w] = {}
    BY DEF TypeOK, Event
  <2>2. QED
    BY <2>1, JournalAssumption DEF TypeOK
<1>2. OpenAhead'
  BY JournalAssumption DEF OpenAhead, Open, TypeOK, Event
<1>3. CursorIsLast' /\ Behind'
  BY DEF CursorIsLast, Behind, Before
<1>4. QED
  BY <1>1, <1>2, <1>3

LEMMA RecordStep ==
  ASSUME JournalInv, NEW w \in Writers, Record(w)
  PROVE  JournalInv'
<1> USE DEF JournalInv, Record, reader
<1>1. TypeOK'
  <2>1. [xid |-> xid[w], id |-> next_id] \in Event
    BY DEF TypeOK, Event
  <2>2. QED
    BY <2>1 DEF TypeOK
<1>2. OpenAhead'
  BY DEF OpenAhead, Open
<1>3. CursorIsLast' /\ Behind'
  BY DEF CursorIsLast, Behind, Before
<1>4. QED
  BY <1>1, <1>2, <1>3

LEMMA FinishStep ==
  ASSUME JournalInv, NEW w \in Writers, Commit(w) \/ Rollback(w)
  PROVE  JournalInv'
<1> PICK kept \in SUBSET pending[w] : Finish(w, kept)
  BY DEF Commit, Rollback
<1> USE DEF JournalInv, Finish, reader
<1>1. TypeOK'
  BY DEF TypeOK
<1>2. OpenAhead'
  BY DEF OpenAhead, Open, TypeOK
<1>3. CursorIsLast'
  BY DEF CursorIsLast, Before
<1>4. Behind'
  <2> SUFFICES ASSUME NEW e \in kept PROVE Before(cursor, e)
    BY DEF Behind, Before
  <2>1. e.xid = xid[w] /\ e \in Event
    BY DEF TypeOK
  <2>2. QED
    BY <2>1 DEF Before, OpenAhead, Open, TypeOK, Event
<1>5. QED
  BY <1>1, <1>2, <1>3, <1>4

\* A page lies between the old cursor and the new one, and leaves nothing
\* out: what is not given yet, or not settled yet, comes after the new one.
LEMMA ReadStep ==
  ASSUME JournalInv, Read
  PROVE  /\ JournalInv'
         /\ \A e \in page', f \in delivered : Before(f, e)
<1> USE DEF JournalInv
<1>1. PICK items \in SUBSET Readable, last \in Readable :
        /\ IsPage(items)
        /\ last \in items /\ \A e \in items : e = last \/ Before(e, last)
        /\ page' = items
        /\ cursor' = last
        /\ delivered' = delivered \cup items
        /\ UNCHANGED <<xid, pending, events, next_xid, next_id>>
  BY DEF Read
<1>2. /\ items \subseteq events /\ events \subseteq Event /\ delivered \subseteq Event
      /\ \A e \in items : Settled(e) /\ Before(cursor, e)
      /\ cursor \in Event /\ last \in Event
  BY <1>1 DEF Readable, After, TypeOK
<1>3. TypeOK'
  BY <1>1, <1>2 DEF TypeOK
<1>4. OpenAhead'
  BY <1>1, <1>2 DEF OpenAhead, Open, Settled
<1>5. \A e \in items, f \in delivered : Before(f, e)
  BY <1>2, BeforeTransitive DEF CursorIsLast
<1>6. CursorIsLast'
  <2> SUFFICES ASSUME NEW f \in delivered' PROVE f = last \/ Before(f, last)
    BY <1>1 DEF CursorIsLast, Before
  <2>1. QED
    BY <1>1, <1>5
<1>7. Behind'
  <2> SUFFICES ASSUME NEW e \in events, e \notin delivered, e \notin items
               PROVE  Before(last, e)
    BY <1>1 DEF Behind, Before
  <2>1. Before(cursor, e) /\ e \in Event
    BY <1>2 DEF Behind
  <2>2. CASE Settled(e)
    BY <1>1, <2>1, <2>2 DEF Readable, After, IsPage
  <2>3. CASE ~ Settled(e)
    <3>1. last.xid < next_xid /\ \A w \in Open : last.xid < xid[w]
      BY <1>1 DEF Readable, Settled
    <3>2. ~ (e.xid < next_xid) \/ \E w \in Open : ~ (e.xid < xid[w])
      BY <2>3 DEF Settled
    <3>3. next_xid \in Nat /\ \A w \in Open : xid[w] \in Nat
      BY DEF TypeOK, Open
    <3>4. last.xid < e.xid
      BY <1>2, <2>1, <3>1, <3>2, <3>3 DEF Event
    <3>5. QED
      BY <3>4 DEF Before
  <2>4. QED
    BY <2>2, <2>3
<1>8. QED
  BY <1>1, <1>3, <1>4, <1>5, <1>6, <1>7

LEMMA JournalStep == JournalInv /\ [Next]_vars => JournalInv'
<1> SUFFICES ASSUME JournalInv, [Next]_vars PROVE JournalInv'
  OBVIOUS
<1>1. CASE UNCHANGED vars
  BY <1>1 DEF vars, reader, JournalInv, TypeOK, OpenAhead, CursorIsLast, Behind, Open, Before
<1>2. QED
  BY <1>1, BeginStep, RecordStep, FinishStep, ReadStep DEF Next

LEMMA JournalInvariant == Spec => []JournalInv
BY JournalInit, JournalStep, PTL DEF Spec

(* Every row of the journal is an event of a transaction, and what a       *)
(* transaction recorded is committed or dropped with it (record).          *)
THEOREM JournalTypeCorrect == Spec => []TypeOK
<1>1. JournalInv => TypeOK
  BY DEF JournalInv
<1>2. QED
  BY <1>1, JournalInvariant, PTL

(* list_events leaves no gap: nothing that is or will be committed is      *)
(* behind the cursor unless the consumer has it.                           *)
THEOREM NoGap == Spec => []NothingBehindCursor
<1>1. JournalInv => NothingBehindCursor
  <2> SUFFICES ASSUME JournalInv, NEW w \in Open, NEW e \in pending[w]
               PROVE  Before(cursor, e)
    BY DEF JournalInv, Behind, NothingBehindCursor
  <2>1. e.xid = xid[w] /\ cursor.xid < xid[w]
    BY DEF JournalInv, TypeOK, OpenAhead, Open
  <2>2. QED
    BY <2>1 DEF Before
<1>2. QED
  BY <1>1, JournalInvariant, PTL

(* A consumer that goes on from next_cursor is given every event once, in  *)
(* the order of the journal.                                               *)
THEOREM GivenOnceInOrder == Spec => DeliveredOnce
<1>1. JournalInv /\ [Next]_vars =>
        [cursor' # cursor => \A e \in page', f \in delivered : Before(f, e)]_vars
  <2> SUFFICES ASSUME JournalInv, Next, cursor' # cursor
               PROVE  \A e \in page', f \in delivered : Before(f, e)
    OBVIOUS
  <2>1. Read
    BY DEF Next, Begin, Record, Commit, Rollback, Finish, reader
  <2>2. QED
    BY <2>1, ReadStep
<1>2. QED
  BY <1>1, JournalInvariant, PTL DEF Spec, DeliveredOnce

(* Two readers agree on the past: no event is ever committed before one    *)
(* that list_events could already show.                                    *)
THEOREM PastIsFinal == Spec => HistoryIsFinal
<1>1. JournalInv /\ [Next]_vars =>
        [\A e \in events' \ events, f \in events : Settled(f) => Before(f, e)]_vars
  <2> SUFFICES ASSUME JournalInv, Next, NEW e \in events' \ events, NEW f \in events, Settled(f)
               PROVE  Before(f, e)
    OBVIOUS
  <2>1. PICK w \in Writers : Commit(w) \/ Rollback(w)
    BY DEF Next, Begin, Record, Read
  <2>2. w \in Open /\ e \in pending[w]
    BY <2>1 DEF Commit, Rollback, Finish, Open
  <2>3. e.xid = xid[w] /\ f.xid < xid[w]
    BY <2>2 DEF JournalInv, TypeOK, Open, Settled
  <2>4. QED
    BY <2>3 DEF Before
<1>2. QED
  BY <1>1, JournalInvariant, PTL DEF Spec, HistoryIsFinal

-----------------------------------------------------------------------------
(* The journal implements the feed.                                        *)

GivenIsCommitted == delivered \subseteq events

LEMMA GivenStays ==
  ASSUME GivenIsCommitted, [Next]_vars
  PROVE  GivenIsCommitted'
<1> USE DEF GivenIsCommitted
<1>1. ASSUME NEW w \in Writers, Begin(w) \/ Record(w) \/ Commit(w) \/ Rollback(w)
      PROVE  GivenIsCommitted'
  BY <1>1 DEF Begin, Record, Commit, Rollback, Finish, reader
<1>2. CASE Read
  BY <1>2 DEF Read, Readable
<1>3. CASE UNCHANGED vars
  BY <1>3 DEF vars, reader
<1>4. QED
  BY <1>1, <1>2, <1>3 DEF Next

\* The horizon only moves on, and what it uncovers was behind it.
LEMMA HorizonMoves ==
  ASSUME JournalInv, NEW w \in Writers, Begin(w) \/ Record(w) \/ Commit(w) \/ Rollback(w)
  PROVE  /\ \A e \in events : Settled(e) => e \in events' /\ Settled(e)'
         /\ \A e \in events', f \in events :
              Settled(f) /\ ~(e \in events /\ Settled(e)) => Before(f, e)
         /\ delivered' = delivered
<1>1. /\ events \subseteq events' /\ delivered' = delivered
      /\ \A e \in events' \ events : e \in pending[w] /\ xid[w] # 0
  BY DEF Begin, Record, Commit, Rollback, Finish, reader, JournalInv, TypeOK
<1>2. /\ next_xid \in Nat /\ next_xid' \in Nat /\ next_xid <= next_xid'
      /\ \A v \in Writers : xid[v] \in Nat
  BY DEF Begin, Record, Commit, Rollback, Finish, JournalInv, TypeOK
<1>3. \A v \in Open' : xid'[v] = next_xid \/ (v \in Open /\ xid'[v] = xid[v])
  BY DEF Begin, Record, Commit, Rollback, Finish, Open, JournalInv, TypeOK
<1>4. events \subseteq Event
  BY DEF JournalInv, TypeOK
<1>5. \A e \in events : Settled(e) => Settled(e)'
  BY <1>2, <1>3, <1>4 DEF Settled, Event
<1>6. ASSUME NEW e \in events', NEW f \in events, Settled(f), ~(e \in events /\ Settled(e))
      PROVE  Before(f, e)
  <2>1. CASE e \in events
    <3>1. ~ (e.xid < next_xid) \/ \E v \in Open : ~ (e.xid < xid[v])
      BY <1>6, <2>1 DEF Settled
    <3>2. f.xid < next_xid /\ \A v \in Open : f.xid < xid[v]
      BY <1>6 DEF Settled
    <3>3. \A v \in Open : xid[v] \in Nat
      BY <1>2 DEF Open
    <3>4. f.xid < e.xid
      BY <1>2, <1>4, <2>1, <3>1, <3>2, <3>3 DEF Event
    <3>5. QED
      BY <3>4 DEF Before
  <2>2. CASE e \notin events
    <3>1. w \in Open /\ e.xid = xid[w]
      BY <1>1, <2>2 DEF Open, JournalInv, TypeOK
    <3>2. QED
      BY <1>6, <3>1 DEF Settled, Before
  <2>3. QED
    BY <2>1, <2>2
<1>7. QED
  BY <1>1, <1>5, <1>6

LEMMA WritersPublish ==
  ASSUME JournalInv, NEW w \in Writers, Begin(w) \/ Record(w) \/ Commit(w) \/ Rollback(w)
  PROVE  Feed!Publish
BY HorizonMoves DEF Feed!Publish, Feed!InOrder

LEMMA ReadGives ==
  ASSUME JournalInv, GivenIsCommitted, Read
  PROVE  Feed!Give
<1>1. JournalInv' /\ GivenIsCommitted'
  BY ReadStep, GivenStays DEF Next
<1>2. PICK items \in SUBSET Readable, last \in Readable :
        /\ last \in items
        /\ delivered' = delivered \cup items
        /\ UNCHANGED <<xid, pending, events, next_xid, next_id>>
  BY DEF Read
<1>3. \A e \in events : Settled(e)' <=> Settled(e)
  BY <1>2 DEF Settled, Open
<1>4. last \notin delivered
  <2>1. Before(cursor, last) /\ cursor \in Event /\ last \in Event
    BY <1>2 DEF Readable, After, JournalInv, TypeOK
  <2>2. QED
    BY <2>1 DEF JournalInv, CursorIsLast, Before, Event
<1>5. \A e \in delivered' : e \in events /\ Settled(e)
  <2>1. \A e \in delivered' : e \in events /\ e \in Event /\ (e = cursor' \/ Before(e, cursor'))
    BY <1>1, <1>2 DEF GivenIsCommitted, JournalInv, CursorIsLast, TypeOK, Before
  <2>2. /\ cursor' \in Event /\ next_xid \in Nat /\ \A v \in Open : xid[v] \in Nat
        /\ cursor'.xid < next_xid /\ \A v \in Open : cursor'.xid < xid[v]
    BY <1>1, <1>2 DEF JournalInv, OpenAhead, Open, TypeOK
  <2>3. QED
    BY <2>1, <2>2 DEF Settled, Before, Event
<1>6. ASSUME NEW e \in delivered', NEW f \in events \ delivered'
      PROVE  Before(e, f)
  <2>1. e \in Event /\ f \in Event /\ cursor' \in Event
    BY <1>1, <1>2, <1>6 DEF JournalInv, TypeOK
  <2>2. (e = cursor' \/ Before(e, cursor')) /\ Before(cursor', f)
    BY <1>1, <1>2, <1>6 DEF JournalInv, CursorIsLast, Behind, Before
  <2>3. QED
    BY <2>1, <2>2, BeforeTransitive
<1>7. QED
  BY <1>2, <1>3, <1>4, <1>5, <1>6 DEF Feed!Give, Feed!InOrder

(* The consumer of the journal is fed as ADR-018 promises: from a log that *)
(* grows at its end, without gaps, repetitions or changes of order.        *)
THEOREM JournalIsFeed == Spec => ImplementsFeed
<1>1. Init => GivenIsCommitted /\ Feed!Init
  BY DEF Init, GivenIsCommitted, Feed!Init
<1>2. Spec => []GivenIsCommitted
  BY <1>1, GivenStays, PTL DEF Spec
<1>3. JournalInv /\ GivenIsCommitted /\ [Next]_vars =>
        [Feed!Next]_<<{e \in events : Settled(e)}, delivered>>
  <2> SUFFICES ASSUME JournalInv, GivenIsCommitted, [Next]_vars
               PROVE  [Feed!Next]_<<{e \in events : Settled(e)}, delivered>>
    OBVIOUS
  <2>1. ASSUME NEW w \in Writers, Begin(w) \/ Record(w) \/ Commit(w) \/ Rollback(w)
        PROVE  Feed!Next
    BY <2>1, WritersPublish DEF Feed!Next
  <2>2. CASE Read
    BY <2>2, ReadGives DEF Feed!Next
  <2>3. CASE UNCHANGED vars
    BY <2>3 DEF vars, reader, Settled, Open
  <2>4. QED
    BY <2>1, <2>2, <2>3 DEF Next
<1>4. QED
  BY <1>1, <1>2, <1>3, JournalInvariant, PTL DEF Spec, ImplementsFeed, Feed!Spec
=============================================================================
