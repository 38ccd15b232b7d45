----------------------- MODULE ExternalRegistryProofs ------------------------
(***************************************************************************)
(* Theorems about ExternalRegistry, for any number of concurrent imports,  *)
(* any revisions and any messages.                                         *)
(***************************************************************************)
EXTENDS ExternalRegistry, TLAPS

\* A recorded event names the message that took effect, the only one.
EventsInv ==
  /\ \A m \in Messages : applied[m] > 0 =>
       m.event # None /\ events[m.event] = m /\ applied[m] = 1
  /\ \A e \in Events : events[e] # None => events[e].event = e /\ applied[events[e]] > 0
  /\ AcknowledgedIsApplied

\* What a request has read of the rows is still so: they stay registered, and
\* the revision it inserts is nobody else's.
StillRegistered(w) ==
  \A r \in Revisions : seen[w].rows[r] # None =>
    revisions[r] # None /\ revisions[r].verified = seen[w].rows[r].verified

StillInserting(w) ==
  seen[w].rows[message[w].revision] = None =>
    /\ revisions[message[w].revision] = None
    /\ \A v \in Importers : v # w /\ pc[v] = "pinned" /\ message[v].revision = message[w].revision
         => seen[v].rows[message[v].revision] # None

RowsInv == \A w \in Importers : pc[w] = "pinned" => StillRegistered(w) /\ StillInserting(w)

RegistryInv == TypeOK /\ EventsInv /\ RowsInv /\ CurrentIsVerified

-----------------------------------------------------------------------------
(* What the operators return.                                              *)

LEMMA WrittenObject ==
  ASSUME NEW old \in Object, NEW new \in Object, NEW stored \in Object
  PROVE  /\ Written(old, new, stored) \in Object
         /\ Written(old, new, stored).current =
              IF new.current = old.current THEN stored.current ELSE new.current
BY DEF Written, Object

LEMMA WrittenRow ==
  ASSUME NEW old \in Row, NEW new \in Row, NEW stored \in Row
  PROVE  /\ Written(old, new, stored) \in Row
         /\ new.verified = old.verified => Written(old, new, stored).verified = stored.verified
         /\ stored = old => Written(old, new, stored) = new
BY DEF Written, Row

LEMMA RegisteredRows ==
  ASSUME NEW m \in Messages, NEW rows \in Rows, NEW v \in BOOLEAN
  PROVE  /\ Registered(m, rows, v) \in Rows
         /\ Registered(m, rows, v)[m.revision] # None
         /\ \A r \in Revisions : rows[r] = None /\ r # m.revision =>
              Registered(m, rows, v)[r] = None
         /\ \A r \in Revisions : rows[r] # None =>
              /\ Registered(m, rows, v)[r] # None
              /\ Registered(m, rows, v)[r].verified = rows[r].verified
<1> DEFINE new == Registered(m, rows, v)
<1>1. m \in Message /\ m.revision \in Revisions
  BY RegistryAssumption DEF Message
<1>2. NewRow(m, v) \in Row
  BY <1>1 DEF NewRow, Message, Row
<1>3. ASSUME NEW row \in Row
      PROVE  /\ Completed(row, m) \in Row /\ Completed(row, m).verified = row.verified
             /\ [row EXCEPT !.superseded_by = m.revision] \in Row
             /\ [row EXCEPT !.superseded_by = m.revision].verified = row.verified
  BY <1>1 DEF Completed, Message, Row
<1>4. ASSUME NEW r \in Revisions
      PROVE  /\ new[r] \in Row \cup {None}
             /\ rows[r] = None => (new[r] # None <=> r = m.revision)
             /\ rows[r] # None => new[r] \in Row /\ new[r].verified = rows[r].verified
  <2>1. new[r] = IF r = m.revision
                 THEN IF rows[r] = None THEN NewRow(m, v) ELSE Completed(rows[r], m)
                 ELSE IF r = m.supersedes /\ rows[r] # None /\ rows[r].superseded_by = None
                 THEN [rows[r] EXCEPT !.superseded_by = m.revision]
                 ELSE rows[r]
    BY DEF Registered
  <2>2. CASE rows[r] = None
    BY <2>1, <2>2, <1>2, RegistryAssumption
  <2>3. CASE rows[r] # None
    <3>1. rows[r] \in Row
      BY <2>3 DEF Rows
    <3>2. QED
      BY <2>1, <2>3, <3>1, <1>3
  <2>4. QED
    BY <2>2, <2>3
<1>5. new \in Rows
  BY <1>4 DEF Registered, Rows
<1>6. QED
  BY <1>1, <1>4, <1>5, RegistryAssumption

LEMMA ReorderedObject ==
  ASSUME NEW o \in Object, NEW m \in Messages, NEW rows
  PROVE  /\ Reordered(o, m, rows) \in Object
         /\ Reordered(o, m, rows).current # o.current =>
              /\ Reordered(o, m, rows).current = m.revision
              /\ Verified(rows[m.revision])
              /\ ~Late(o, m, rows)
<1>1. m.revision \in Revisions /\ m.time \in Nat
  BY RegistryAssumption DEF Message
<1>2. QED
  BY <1>1 DEF Reordered, Object

-----------------------------------------------------------------------------
(* What a commit does to the rows.                                         *)

\* The rows a request has read, and those it leaves.
Old(w) == seen[w].rows
New(w) == Registered(message[w], seen[w].rows, seen[w].authoritative)

LEMMA CommitRows ==
  ASSUME RegistryInv, NEW w \in Importers, pc[w] = "pinned", revisions' = Stored(Old(w), New(w))
  PROVE  /\ revisions' \in Rows
         /\ \A r \in Revisions : revisions[r] # None =>
              revisions'[r] # None /\ revisions'[r].verified = revisions[r].verified
         /\ \A r \in Revisions : revisions[r] = None /\ r # message[w].revision =>
              revisions'[r] = None
         /\ revisions'[message[w].revision] # None
         /\ revisions'[message[w].revision].verified = New(w)[message[w].revision].verified
<1> DEFINE m == message[w]
<1>1. m \in Messages /\ m.revision \in Revisions
  BY RegistryAssumption DEF RegistryInv, TypeOK, Message
<1>2. Old(w) \in Rows /\ seen[w].authoritative \in BOOLEAN /\ revisions \in Rows
  BY DEF RegistryInv, TypeOK, Old
<1>3. /\ New(w) \in Rows
      /\ New(w)[m.revision] # None
      /\ \A r \in Revisions : Old(w)[r] = None /\ r # m.revision => New(w)[r] = None
      /\ \A r \in Revisions : Old(w)[r] # None =>
           New(w)[r] # None /\ New(w)[r].verified = Old(w)[r].verified
  BY <1>1, <1>2, RegisteredRows DEF Old, New
<1>4. StillRegistered(w) /\ StillInserting(w)
  BY DEF RegistryInv, RowsInv
<1>5. ASSUME NEW r \in Revisions
      PROVE  /\ revisions'[r] \in Row \cup {None}
             /\ revisions[r] # None =>
                  revisions'[r] # None /\ revisions'[r].verified = revisions[r].verified
             /\ revisions[r] = None /\ r # m.revision => revisions'[r] = None
             /\ r = m.revision =>
                  revisions'[r] # None /\ revisions'[r].verified = New(w)[r].verified
  <2>1. revisions'[r] = IF New(w)[r] = Old(w)[r] THEN revisions[r]
                        ELSE IF Old(w)[r] = None THEN New(w)[r]
                        ELSE Written(Old(w)[r], New(w)[r], revisions[r])
    BY DEF Stored
  <2>2. CASE Old(w)[r] = None
    <3>1. r = m.revision => revisions[r] = None
      BY <2>2, <1>4 DEF StillInserting, Old
    <3>2. r # m.revision => New(w)[r] = Old(w)[r]
      BY <2>2, <1>3
    <3>3. r = m.revision => New(w)[r] # None /\ revisions'[r] = New(w)[r]
      BY <2>1, <2>2, <1>3
    <3>4. New(w)[r] \in Row \cup {None} /\ revisions[r] \in Row \cup {None}
      BY <1>2, <1>3 DEF Rows
    <3>5. QED
      BY <2>1, <3>1, <3>2, <3>3, <3>4
  <2>3. CASE Old(w)[r] # None
    <3>1. revisions[r] # None /\ revisions[r].verified = Old(w)[r].verified
      BY <2>3, <1>4 DEF StillRegistered, Old
    <3>2. New(w)[r] # None /\ New(w)[r].verified = Old(w)[r].verified
      BY <2>3, <1>3
    <3>3. Old(w)[r] \in Row /\ New(w)[r] \in Row /\ revisions[r] \in Row
      BY <2>3, <3>1, <3>2, <1>2, <1>3 DEF Rows
    <3>4. /\ Written(Old(w)[r], New(w)[r], revisions[r]) \in Row
          /\ Written(Old(w)[r], New(w)[r], revisions[r]).verified = revisions[r].verified
      BY <3>2, <3>3, WrittenRow
    <3>5. revisions'[r] \in Row /\ revisions'[r].verified = revisions[r].verified
      BY <2>1, <2>3, <3>3, <3>4
    <3>6. QED
      BY <3>1, <3>2, <3>5, RegistryAssumption
  <2>4. QED
    BY <2>2, <2>3
<1>6. revisions' \in Rows
  BY <1>5 DEF Stored, Rows
<1>7. QED
  BY <1>1, <1>5, <1>6

-----------------------------------------------------------------------------
(* The invariant.                                                          *)

LEMMA RegistryInit == Init => RegistryInv
BY RegistryAssumption DEF Init, RegistryInv, TypeOK, EventsInv, RowsInv, CurrentIsVerified,
   AcknowledgedIsApplied, Unknown, NoRows, Nothing, Object, Rows

LEMMA NothingType == Nothing \in [authoritative : BOOLEAN, object : Object, rows : Rows]
BY DEF Nothing, Unknown, NoRows, Object, Rows

LEMMA SeenReceived ==
  ASSUME NEW s \in [authoritative : BOOLEAN, object : Object, rows : Rows],
         NEW a \in BOOLEAN, NEW o \in Object
  PROVE  [s EXCEPT !.authoritative = a, !.object = o]
           \in [authoritative : BOOLEAN, object : Object, rows : Rows]
OBVIOUS

\* A request that ends without effect.
LEMMA AnswerStep ==
  ASSUME RegistryInv, NEW w \in Importers, NEW what, Answer(w, what), UNCHANGED message,
         what \in {"event_conflict", "event_in_progress", "integrity_conflict", "failed"},
         UNCHANGED <<authoritative, object, revisions, events, applied, confirmations>>
  PROVE  RegistryInv'
<1> USE DEF RegistryInv, Answer
<1>1. TypeOK'
  BY NothingType DEF TypeOK
<1>2. EventsInv'
  BY DEF EventsInv, AcknowledgedIsApplied, TypeOK
<1>3. RowsInv'
  BY DEF RowsInv, StillRegistered, StillInserting, TypeOK
<1>4. CurrentIsVerified'
  BY DEF CurrentIsVerified
<1>5. QED
  BY <1>1, <1>2, <1>3, <1>4

LEMMA ReceiveStep ==
  ASSUME RegistryInv, NEW w \in Importers, NEW m \in Messages, Receive(w, m)
  PROVE  RegistryInv'
<1> USE DEF RegistryInv, Receive
<1>1. m \in Message /\ (m.event # None => m.event \in Events)
  BY RegistryAssumption DEF Message
<1>2. TypeOK'
  <2>1. [seen[w] EXCEPT !.authoritative = authoritative, !.object = object]
          \in [authoritative : BOOLEAN, object : Object, rows : Rows]
    BY SeenReceived DEF TypeOK
  <2>2. CASE ~Recorded(m)
    <3>1. seen' = [seen EXCEPT ![w] = [@ EXCEPT !.authoritative = authoritative, !.object = object]]
      BY <2>2
    <3>2. seen' \in [Importers -> [authoritative : BOOLEAN, object : Object, rows : Rows]]
      BY <2>1, <3>1 DEF TypeOK
    <3>3. \A v \in Importers : v # w => seen'[v] = seen[v]
      BY <3>1 DEF TypeOK
    <3>4. QED
      BY <2>2, <3>2, <3>3 DEF TypeOK
  <2>3. CASE Recorded(m)
    BY <2>3, NothingType DEF TypeOK, Answer
  <2>4. QED
    BY <2>2, <2>3
<1>3. EventsInv'
  <2>1. ASSUME NEW v \in Importers, answer'[v] \in {"applied", "replayed"},
               message'[v].event # None
        PROVE  applied[message'[v]] > 0
    <3>1. CASE v = w
      <4>1. Recorded(m) /\ SameEvent(m) /\ message'[w] = m
        BY <2>1, <3>1 DEF TypeOK, Answer
      <4>2. QED
        BY <1>1, <3>1, <4>1 DEF EventsInv, Recorded, SameEvent
    <3>2. CASE v # w
      <4>1. message'[v] = message[v] /\ answer'[v] = answer[v]
        BY <3>2 DEF TypeOK, Answer
      <4>2. QED
        BY <2>1, <4>1 DEF EventsInv, AcknowledgedIsApplied
    <3>3. QED
      BY <3>1, <3>2
  <2>2. QED
    BY <2>1 DEF EventsInv, AcknowledgedIsApplied
<1>4. RowsInv'
  <2>1. pc'[w] # "pinned" /\ \A v \in Importers : v # w =>
           pc'[v] = pc[v] /\ seen'[v] = seen[v] /\ message'[v] = message[v]
    BY DEF TypeOK, Answer
  <2>2. QED
    BY <2>1 DEF RowsInv, StillRegistered, StillInserting
<1>5. CurrentIsVerified'
  BY DEF CurrentIsVerified
<1>6. QED
  BY <1>2, <1>3, <1>4, <1>5

LEMMA PinStep ==
  ASSUME RegistryInv, NEW w \in Importers, Pin(w)
  PROVE  RegistryInv'
<1> USE DEF RegistryInv, Pin
<1>1. CASE OtherBytes(message[w])
  BY <1>1, AnswerStep
<1>2. CASE ~OtherBytes(message[w])
  <2>1. seen' = [seen EXCEPT ![w] = [@ EXCEPT !.rows = revisions]]
    BY <1>2
  <2>2. /\ \A v \in Importers : v # w => seen'[v] = seen[v] /\ pc'[v] = pc[v]
        /\ seen'[w].rows = revisions
    BY <1>2, <2>1 DEF TypeOK
  <2>3. TypeOK'
    <3>1. [seen[w] EXCEPT !.rows = revisions]
            \in [authoritative : BOOLEAN, object : Object, rows : Rows]
      BY DEF TypeOK
    <3>2. seen' \in [Importers -> [authoritative : BOOLEAN, object : Object, rows : Rows]]
      BY <2>1, <3>1 DEF TypeOK
    <3>3. QED
      BY <1>2, <2>2, <3>2 DEF TypeOK
  <2>4. EventsInv'
    BY <1>2 DEF EventsInv, AcknowledgedIsApplied
  <2>5. RowsInv'
    <3>1. ASSUME NEW v \in Importers, pc[v] = "pinned", v # w,
                 message[v].revision = message[w].revision
          PROVE  seen[v].rows[message[v].revision] # None
      BY <3>1 DEF Inserting
    <3>2. QED
      BY <1>2, <2>2, <3>1 DEF RowsInv, StillRegistered, StillInserting
  <2>6. CurrentIsVerified'
    BY <1>2 DEF CurrentIsVerified
  <2>7. QED
    BY <2>3, <2>4, <2>5, <2>6
<1>3. QED
  BY <1>1, <1>2

LEMMA ApplyStep ==
  ASSUME RegistryInv, NEW w \in Importers, pc[w] = "pinned", ~Recorded(message[w]),
         Apply(w, message[w], Old(w), New(w)), Answer(w, "applied"),
         UNCHANGED <<authoritative, message>>
  PROVE  RegistryInv'
<1> DEFINE m == message[w]
           o == seen[w].object
           n == Reordered(o, m, New(w))
<1> USE DEF RegistryInv, Apply, Answer
<1>1. m \in Messages /\ m \in Message /\ m.revision \in Revisions
  BY RegistryAssumption DEF TypeOK, Message
<1>2. /\ revisions' \in Rows
      /\ \A r \in Revisions : revisions[r] # None =>
           revisions'[r] # None /\ revisions'[r].verified = revisions[r].verified
      /\ \A r \in Revisions : revisions[r] = None /\ r # m.revision => revisions'[r] = None
      /\ revisions'[m.revision] # None
      /\ revisions'[m.revision].verified = New(w)[m.revision].verified
  BY CommitRows
<1>3. o \in Object /\ object \in Object
  BY DEF TypeOK
<1>4. n \in Object /\ (n.current # o.current => n.current = m.revision /\ Verified(New(w)[m.revision]))
  BY <1>1, <1>3, ReorderedObject
<1>5. /\ object' \in Object
      /\ object'.current = IF n.current = o.current THEN object.current ELSE n.current
  BY <1>3, <1>4, WrittenObject
<1>6. TypeOK'
  <2>1. confirmations' \subseteq [revision : Revisions, time : Nat]
    BY <1>1 DEF TypeOK, Message
  <2>2. events' \in [Events -> Messages \cup {None}] /\ applied' \in [Messages -> Nat]
    BY <1>1 DEF TypeOK
  <2>3. QED
    BY <1>2, <1>5, <2>1, <2>2, NothingType DEF TypeOK
<1>7. EventsInv'
  <2>1. CASE m.event = None
    <3>1. UNCHANGED <<events, applied, message>>
      BY <2>1
    <3>2. \A v \in Importers : v # w => answer'[v] = answer[v]
      BY DEF TypeOK
    <3>3. AcknowledgedIsApplied'
      BY <2>1, <3>1, <3>2 DEF EventsInv, AcknowledgedIsApplied
    <3>4. QED
      BY <3>1, <3>3 DEF EventsInv
  <2>2. CASE m.event # None
    <3>1. m.event \in Events /\ events[m.event] = None /\ applied[m] = 0
      <4>1. m.event \in Events /\ events[m.event] = None
        BY <1>1, <2>2 DEF Message, Recorded
      <4>2. applied[m] \in Nat /\ m # None
        BY <1>1, RegistryAssumption DEF TypeOK
      <4>3. ~(applied[m] > 0)
        BY <1>1, <4>1, <4>2 DEF EventsInv
      <4>4. QED
        BY <4>1, <4>2, <4>3
    <3>2. /\ events' = [events EXCEPT ![m.event] = m]
          /\ applied' = [applied EXCEPT ![m] = @ + 1]
      BY <2>2
    <3>3. applied'[m] = 1 /\ events'[m.event] = m
      BY <1>1, <3>1, <3>2 DEF TypeOK
    <3>4. \A k \in Messages : k # m => applied'[k] = applied[k]
      BY <3>2 DEF TypeOK
    <3>5. \A e \in Events : e # m.event => events'[e] = events[e]
      BY <3>2 DEF TypeOK
    <3>6. ASSUME NEW k \in Messages, applied'[k] > 0
          PROVE  k.event # None /\ events'[k.event] = k /\ applied'[k] = 1
      <4>1. CASE k = m
        BY <2>2, <3>3, <4>1
      <4>2. CASE k # m
        <5>1. k.event # None /\ events[k.event] = k /\ applied[k] = 1
          BY <3>4, <3>6, <4>2 DEF EventsInv
        <5>2. k.event \in Events /\ k.event # m.event
          BY <3>1, <5>1, RegistryAssumption DEF Message
        <5>3. QED
          BY <3>4, <3>5, <4>2, <5>1, <5>2
      <4>3. QED
        BY <4>1, <4>2
    <3>7. ASSUME NEW e \in Events, events'[e] # None
          PROVE  events'[e].event = e /\ applied'[events'[e]] > 0
      <4>1. CASE e = m.event
        BY <3>3, <4>1
      <4>2. CASE e # m.event
        <5>1. events'[e] = events[e] /\ events[e] \in Messages
          BY <3>5, <3>7, <4>2 DEF TypeOK
        <5>2. events[e].event = e /\ applied[events[e]] > 0
          BY <3>7, <5>1 DEF EventsInv
        <5>3. QED
          BY <3>4, <4>2, <5>1, <5>2
      <4>3. QED
        BY <4>1, <4>2
    <3>8. ASSUME NEW v \in Importers, answer'[v] \in {"applied", "replayed"},
                 message[v].event # None
          PROVE  applied'[message[v]] > 0
      <4>1. CASE v = w
        BY <3>3, <4>1
      <4>2. CASE v # w
        <5>1. answer'[v] = answer[v]
          BY <4>2 DEF TypeOK
        <5>2. applied[message[v]] > 0
          BY <3>8, <5>1 DEF EventsInv, AcknowledgedIsApplied
        <5>3. QED
          BY <3>2, <5>2, <1>1 DEF TypeOK
      <4>3. QED
        BY <4>1, <4>2
    <3>9. QED
      BY <3>6, <3>7, <3>8 DEF EventsInv, AcknowledgedIsApplied
  <2>3. QED
    BY <2>1, <2>2
<1>8. RowsInv'
  <2> SUFFICES ASSUME NEW v \in Importers, pc'[v] = "pinned"
               PROVE  (StillRegistered(v) /\ StillInserting(v))'
    BY DEF RowsInv
  <2>1. v # w /\ pc[v] = "pinned" /\ seen'[v] = seen[v]
    BY DEF TypeOK
  <2>2. StillRegistered(v) /\ StillInserting(v) /\ StillInserting(w)
    BY <2>1 DEF RowsInv
  <2>3. message[v].revision \in Revisions
    BY <2>1, RegistryAssumption DEF TypeOK, Message
  <2>4. StillRegistered(v)'
    BY <1>2, <2>1, <2>2 DEF StillRegistered
  <2>5. seen[v].rows[message[v].revision] = None => revisions'[message[v].revision] = None
    <3> SUFFICES ASSUME seen[v].rows[message[v].revision] = None
                 PROVE  revisions'[message[v].revision] = None
      OBVIOUS
    <3>1. revisions[message[v].revision] = None
      BY <2>2 DEF StillInserting
    <3>2. CASE message[v].revision # m.revision
      BY <1>2, <2>3, <3>1, <3>2
    <3>3. CASE message[v].revision = m.revision
      <4>1. Old(w)[m.revision] # None
        BY <2>1, <2>2, <3>3 DEF StillInserting, Old
      <4>2. revisions[m.revision] # None
        BY <1>1, <4>1 DEF RowsInv, StillRegistered, Old
      <4>3. QED
        BY <3>1, <3>3, <4>2
    <3>4. QED
      BY <3>2, <3>3
  <2>6. \A u \in Importers : pc'[u] = "pinned" => pc[u] = "pinned" /\ seen'[u] = seen[u]
    BY DEF TypeOK
  <2>7. StillInserting(v)'
    BY <2>1, <2>2, <2>5, <2>6 DEF StillInserting
  <2>8. QED
    BY <2>4, <2>7
<1>9. CurrentIsVerified'
  <2> SUFFICES ASSUME object'.current # None
               PROVE  revisions'[object'.current] # None /\ revisions'[object'.current].verified
    BY DEF CurrentIsVerified
  <2>1. CASE n.current = o.current
    <3>1. object'.current = object.current /\ object.current \in Revisions
      BY <1>3, <1>5, <2>1 DEF Object
    <3>2. QED
      BY <1>2, <3>1 DEF CurrentIsVerified
  <2>2. CASE n.current # o.current
    BY <1>2, <1>4, <1>5, <2>2 DEF Verified
  <2>3. QED
    BY <2>1, <2>2
<1>10. QED
  BY <1>6, <1>7, <1>8, <1>9

LEMMA RegistryInvariant == Spec => []RegistryInv
<1>1. RegistryInv /\ [Next]_vars => RegistryInv'
  <2> SUFFICES ASSUME RegistryInv, [Next]_vars PROVE RegistryInv'
    OBVIOUS
  <2>1. ASSUME NEW w \in Importers, Commit(w) PROVE RegistryInv'
    <3>1. CASE RecordedMeanwhile(message[w])
      BY <2>1, <3>1, AnswerStep DEF Commit
    <3>2. CASE ~RecordedMeanwhile(message[w])
      BY <2>1, <3>2, ApplyStep DEF Commit, RecordedMeanwhile, Old, New
    <3>3. QED
      BY <3>1, <3>2
  <2>2. ASSUME NEW w \in Importers, Fail(w) PROVE RegistryInv'
    BY <2>2, AnswerStep DEF Fail
  <2>3. CASE UpdateProvider \/ UNCHANGED vars
    <3>1. /\ UNCHANGED <<object, revisions, events, request, applied, confirmations>>
          /\ authoritative' \in BOOLEAN
      BY <2>3 DEF UpdateProvider, vars, RegistryInv, TypeOK
    <3>2. QED
      BY <3>1 DEF RegistryInv, TypeOK, EventsInv, AcknowledgedIsApplied, RowsInv, StillRegistered,
                  StillInserting, CurrentIsVerified, request
  <2>4. QED
    BY <2>1, <2>2, <2>3, ReceiveStep, PinStep DEF Next
<1>2. QED
  BY <1>1, RegistryInit, PTL DEF Spec

-----------------------------------------------------------------------------
(* An event takes effect at most once, and so does whatever message bears  *)
(* its id: run_event and the constraint on external_events.                *)
THEOREM EventTakesEffectOnce == Spec => []AppliedOnce
<1>1. RegistryInv => AppliedOnce
  BY DEF RegistryInv, EventsInv, AppliedOnce
<1>2. QED
  BY <1>1, RegistryInvariant, PTL

(* What a provider is told to be done is done.                             *)
THEOREM NothingAcknowledgedIsLost == Spec => []AcknowledgedIsApplied
<1>1. RegistryInv => AcknowledgedIsApplied
  BY DEF RegistryInv, EventsInv
<1>2. QED
  BY <1>1, RegistryInvariant, PTL

(* No unverified message ever becomes the current revision.                *)
THEOREM OnlyVerifiedIsCurrent == Spec => []CurrentIsVerified
<1>1. RegistryInv => CurrentIsVerified
  BY DEF RegistryInv
<1>2. QED
  BY <1>1, RegistryInvariant, PTL

(* The state of the registry keeps its shape, and no request inherits what *)
(* an earlier one has read.                                                *)
THEOREM RegistryTypeCorrect == Spec => []TypeOK
<1>1. RegistryInv => TypeOK
  BY DEF RegistryInv
<1>2. QED
  BY <1>1, RegistryInvariant, PTL

(* An import on fresh data never returns to an explicit ancestor.          *)
THEOREM NoReturnToAncestor == Spec => SupersededStaysBehind
<1>1. RegistryInv /\ [Next]_vars =>
        [\A w \in Importers :
           NotOvertaken(w) /\ answer'[w] = "applied" /\ object.current \notin {None, object'.current}
             => ~IsAncestor(revisions', object'.current, object.current)]_vars
  <2> SUFFICES ASSUME RegistryInv, Next, NEW w \in Importers, NotOvertaken(w),
                      answer'[w] = "applied", object.current \notin {None, object'.current}
               PROVE  ~IsAncestor(revisions', object'.current, object.current)
    OBVIOUS
  <2> USE DEF RegistryInv
  <2>1. \E v \in Importers : Commit(v) /\ ~RecordedMeanwhile(message[v])
    <3>1. PICK v \in Importers : (\E k \in Messages : Receive(v, k)) \/ Pin(v) \/ Commit(v) \/ Fail(v)
      BY DEF Next, UpdateProvider
    <3>2. Commit(v) /\ ~RecordedMeanwhile(message[v])
      BY <3>1 DEF Receive, Pin, Commit, Fail
    <3>3. QED
      BY <3>2
  <2>2. PICK v \in Importers : Commit(v) /\ ~RecordedMeanwhile(message[v])
    BY <2>1
  <2>3. v = w
    <3> SUFFICES ASSUME v # w PROVE FALSE
      OBVIOUS
    <3>1. answer'[w] = answer[w] /\ answer[w] = "none"
      BY <2>2 DEF Commit, Answer, TypeOK, NotOvertaken
    <3>2. QED
      BY <3>1
  <2> DEFINE m == message[w]
             n == Reordered(object, m, New(w))
  <2>4. /\ object' = Written(object, n, object)
        /\ revisions' = Stored(revisions, New(w))
    BY <2>2, <2>3 DEF Commit, Apply, NotOvertaken, New
  <2>5. m \in Messages /\ object \in Object /\ revisions \in Rows /\ seen[w].authoritative \in BOOLEAN
        /\ seen[w].rows = revisions
    BY DEF TypeOK, NotOvertaken
  <2>6. New(w) \in Rows
    BY <2>5, RegisteredRows DEF New
  <2>7. \A r \in Revisions : revisions[r] # None => New(w)[r] # None
    BY <2>5, RegisteredRows DEF New
  <2>8. \A r \in Revisions : revisions'[r] = New(w)[r]
    <3> SUFFICES ASSUME NEW r \in Revisions PROVE revisions'[r] = New(w)[r]
      OBVIOUS
    <3>1. revisions'[r] = IF New(w)[r] = revisions[r] THEN revisions[r]
                          ELSE IF revisions[r] = None THEN New(w)[r]
                          ELSE Written(revisions[r], New(w)[r], revisions[r])
      BY <2>4 DEF Stored
    <3>2. CASE revisions[r] = None
      BY <3>1, <3>2
    <3>3. CASE revisions[r] # None
      <4>1. revisions[r] \in Row /\ New(w)[r] \in Row
        BY <2>5, <2>6, <2>7, <3>3 DEF Rows
      <4>2. Written(revisions[r], New(w)[r], revisions[r]) = New(w)[r]
        BY <4>1, WrittenRow
      <4>3. QED
        BY <3>1, <3>3, <4>2
    <3>4. QED
      BY <3>2, <3>3
  <2>9. revisions' = New(w)
    BY <2>4, <2>6, <2>8 DEF Stored, Rows
  <2>10. n \in Object /\ (n.current # object.current => n.current = m.revision /\ ~Late(object, m, New(w)))
    BY <2>5, ReorderedObject
  <2>11. object'.current = n.current
    BY <2>4, <2>5, <2>10, WrittenObject
  <2>12. object'.current = m.revision /\ object.current \notin {None, m.revision}
         /\ ~Late(object, m, New(w))
    BY <2>10, <2>11
  <2>13. QED
    BY <2>9, <2>12 DEF Late
<1>2. QED
  BY <1>1, RegistryInvariant, PTL DEF Spec, SupersededStaysBehind

-----------------------------------------------------------------------------
(* Confirmed states go back in time only where imports overlap, or where   *)
(* an unconfirmed successor is older than the state it replaces.           *)

Orderly(m) ==
  /\ \A w \in Importers : pc[w] = "idle"
  /\ m.confirmed \/ m.time >= object.as_of

OrderlyNext ==
  \/ \E w \in Importers :
       \/ \E m \in Messages : Orderly(m) /\ Receive(w, m)
       \/ Pin(w) \/ Commit(w) \/ Fail(w)
  \/ UpdateProvider

OneByOne == Init /\ [][OrderlyNext]_vars

\* The request being served, if any, is the only one and still up to date.
OnlyRequest(w) ==
  /\ \A v \in Importers : pc[v] # "idle" => v = w
  /\ seen[w].object = object
  /\ message[w].confirmed \/ message[w].time >= object.as_of

OrderInv ==
  /\ \A c \in confirmations : c.time <= object.as_of
  /\ \A w \in Importers : pc[w] # "idle" => OnlyRequest(w)

LEMMA ReorderedInOrder ==
  ASSUME NEW o \in Object, NEW m \in Messages, NEW rows,
         m.confirmed \/ m.time >= o.as_of
  PROVE  /\ Reordered(o, m, rows).as_of \in Nat
         /\ Reordered(o, m, rows).as_of >= o.as_of
         /\ m.confirmed /\ Verified(rows[m.revision]) /\ ~Late(o, m, rows) =>
              Reordered(o, m, rows).as_of = m.time /\ m.time >= o.as_of
<1>1. m.time \in Nat /\ o.as_of \in Nat
  BY RegistryAssumption DEF Message, Object
<1>2. ~Late(o, m, rows) => m.time >= o.as_of
  BY <1>1 DEF Late
<1> DEFINE n == Reordered(o, m, rows)
           accepted == Verified(rows[m.revision]) /\ ~Late(o, m, rows)
<1>3. CASE ~accepted
  <2>1. n = o
    BY <1>3 DEF Reordered
  <2>2. QED
    BY <1>1, <1>3, <2>1
<1>4. CASE accepted
  <2>1. m.time >= o.as_of
    BY <1>1, <1>2, <1>4
  <2>2. n.as_of \in {m.time, o.as_of} /\ (m.confirmed => n.as_of = m.time)
    BY <1>4 DEF Reordered, Follows, Object
  <2> HIDE DEF n
  <2>3. n.as_of \in Nat /\ n.as_of >= o.as_of
    BY <1>1, <2>1, <2>2
  <2>4. QED
    BY <2>1, <2>2, <2>3 DEF n
<1>5. QED
  BY <1>3, <1>4

LEMMA ImportInOrder ==
  ASSUME RegistryInv, OrderInv, NEW w \in Importers, Commit(w)
  PROVE  /\ OrderInv'
         /\ \A c \in confirmations' \ confirmations, d \in confirmations : c.time >= d.time
<1> DEFINE m == message[w]
           n == Reordered(object, m, New(w))
<1>1. /\ pc[w] = "pinned" /\ pc'[w] = "idle" /\ message' = message
      /\ \A v \in Importers : v # w => pc'[v] = pc[v]
  BY DEF Commit, Answer, RegistryInv, TypeOK
<1>2. OnlyRequest(w) /\ \A v \in Importers : pc'[v] = "idle" \/ pc'[v] \in {"received", "pinned"}
  BY <1>1 DEF OrderInv, RegistryInv, TypeOK
<1>3. \A v \in Importers : pc'[v] = "idle"
  BY <1>1, <1>2 DEF OnlyRequest
<1>4. CASE RecordedMeanwhile(m)
  <2>1. UNCHANGED <<object, confirmations>>
    BY <1>4 DEF Commit
  <2>2. QED
    BY <1>3, <2>1 DEF OrderInv
<1>5. CASE ~RecordedMeanwhile(m)
  <2>1. /\ object' = Written(object, n, object)
        /\ confirmations' =
             IF m.confirmed /\ Verified(New(w)[m.revision]) /\ ~Late(object, m, New(w))
             THEN confirmations \cup {[revision |-> m.revision, time |-> m.time]}
             ELSE confirmations
    BY <1>2, <1>5 DEF Commit, Apply, OnlyRequest, New
  <2>2. m \in Messages /\ object \in Object
    BY <1>1 DEF RegistryInv, TypeOK
  <2>3. m.confirmed \/ m.time >= object.as_of
    BY <1>2 DEF OnlyRequest
  <2>4. n \in Object
    BY <2>2, ReorderedObject
  <2>5. object'.as_of = n.as_of
    BY <2>1, <2>2, <2>4 DEF Written, Object
  <2>6. /\ n.as_of \in Nat /\ n.as_of >= object.as_of
        /\ m.confirmed /\ Verified(New(w)[m.revision]) /\ ~Late(object, m, New(w)) =>
             n.as_of = m.time /\ m.time >= object.as_of
    BY <2>2, <2>3, ReorderedInOrder
  <2>7. \A c \in confirmations : c.time \in Nat /\ c.time <= object.as_of
    BY DEF OrderInv, RegistryInv, TypeOK
  <2>8. object.as_of \in Nat /\ m.time \in Nat
    BY <2>2, RegistryAssumption DEF Object, Message
  <2> HIDE DEF m, n
  <2>9. \A c \in confirmations' \ confirmations : c.time = m.time /\ m.time = n.as_of
    BY <2>1, <2>6
  <2>10. \A c \in confirmations' : c.time <= object'.as_of
    BY <2>5, <2>6, <2>7, <2>8, <2>9
  <2>11. \A c \in confirmations' \ confirmations, d \in confirmations : c.time >= d.time
    BY <2>6, <2>7, <2>8, <2>9
  <2>12. QED
    BY <1>3, <2>10, <2>11 DEF OrderInv
<1>6. QED
  BY <1>4, <1>5

LEMMA OtherwiseInOrder ==
  ASSUME RegistryInv, OrderInv, [OrderlyNext]_vars, ~ \E w \in Importers : Commit(w)
  PROVE  OrderInv' /\ confirmations' = confirmations
<1>1. ASSUME NEW w \in Importers, NEW m \in Messages, Orderly(m), Receive(w, m)
      PROVE  OrderInv' /\ confirmations' = confirmations
  <2>1. /\ UNCHANGED <<object, confirmations>>
        /\ \A v \in Importers : pc'[v] # "idle" => v = w
    BY <1>1 DEF Receive, Answer, Orderly, RegistryInv, TypeOK
  <2>2. pc'[w] # "idle" => message'[w] = m /\ seen'[w].object = object
    BY <1>1 DEF Receive, Answer, RegistryInv, TypeOK
  <2>3. QED
    BY <1>1, <2>1, <2>2 DEF OrderInv, OnlyRequest, Orderly
<1>2. ASSUME NEW w \in Importers, Pin(w) \/ Fail(w)
      PROVE  OrderInv' /\ confirmations' = confirmations
  <2>1. /\ UNCHANGED <<object, confirmations, message>>
        /\ \A v \in Importers : pc'[v] # "idle" => pc[v] # "idle" /\ seen'[v].object = seen[v].object
    BY <1>2 DEF Pin, Fail, Answer, RegistryInv, TypeOK
  <2>2. QED
    BY <2>1 DEF OrderInv, OnlyRequest
<1>3. CASE UpdateProvider \/ UNCHANGED vars
  BY <1>3 DEF UpdateProvider, vars, request, OrderInv, OnlyRequest
<1>4. QED
  BY <1>1, <1>2, <1>3 DEF OrderlyNext

(* Imports that come one after another, whose unconfirmed messages are not *)
(* older than the state they meet, never confirm an older state (ADR-024). *)
THEOREM ConfirmedInOrder == OneByOne => NeverOlderConfirmed
<1>1. [OrderlyNext]_vars => [Next]_vars
  BY DEF OrderlyNext, Next
<1>2. OneByOne => []RegistryInv
  BY <1>1, RegistryInvariant, PTL DEF OneByOne, Spec
<1>3. Init => OrderInv
  BY DEF Init, OrderInv
<1>4. RegistryInv /\ OrderInv /\ [OrderlyNext]_vars =>
        /\ OrderInv'
        /\ [\A c \in confirmations' \ confirmations, d \in confirmations : c.time >= d.time]_vars
  BY ImportInOrder, OtherwiseInOrder
<1>5. QED
  BY <1>2, <1>3, <1>4, PTL DEF OneByOne, NeverOlderConfirmed
=============================================================================
