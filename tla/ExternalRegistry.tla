--------------------------- MODULE ExternalRegistry --------------------------
(***************************************************************************)
(* One object of the external registry (ADR-024): its pinned revisions,    *)
(* which of them is current, and the exchange events that report them.     *)
(* Facts and snapshots (a snapshot is a confirmed import of each item) are *)
(* imported by concurrent requests.  None locks the object: a request      *)
(* reads the object, later its revisions, decides on what it read, and     *)
(* writes the columns it changed when it commits.                          *)
(***************************************************************************)
EXTENDS Naturals

CONSTANTS
  Importers,   \* requests served at the same time
  Revisions, Digests, Events,
  None,
  Messages     \* what providers send

Message ==
  [event : Events \cup {None}, revision : Revisions, digest : Digests \cup {None},
   supersedes : Revisions \cup {None}, time : Nat,
   confirmed : BOOLEAN, revoked : BOOLEAN]

Row ==
  [digest : Digests \cup {None}, supersedes : Revisions \cup {None},
   superseded_by : Revisions \cup {None}, verified : BOOLEAN, revoked : BOOLEAN]

ASSUME RegistryAssumption ==
  /\ None \notin Revisions /\ None \notin Digests
  /\ None \notin Events /\ None \notin Messages /\ None \notin Row
  /\ Messages \subseteq Message
  /\ \A m \in Messages : m.supersedes # m.revision   \* SUPERSEDES_ITSELF

VARIABLES
  authoritative,  \* the provider may state facts of this type
  object,         \* the row of external_objects
  revisions,      \* its rows of external_revisions
  events,         \* the message recorded for each event id
  pc, message, answer,
  seen,           \* what a request has read
  applied,        \* history: how often each event message took effect
  confirmations   \* history: confirmed states that took effect

request == <<pc, message, answer, seen>>
vars == <<authoritative, object, revisions, events, request, applied, confirmations>>

Object ==
  [current : Revisions \cup {None},
   state : {"unknown", "unconfirmed", "current", "pending_reconciliation"},
   as_of : Nat, status : {"active", "revoked"}]

\* The rows of the registered revisions; None for the others.
Rows == [Revisions -> Row \cup {None}]

Unknown == [current |-> None, state |-> "unknown", as_of |-> 0, status |-> "active"]
NoRows == [r \in Revisions |-> None]
Nothing == [authoritative |-> FALSE, object |-> Unknown, rows |-> NoRows]

TypeOK ==
  /\ authoritative \in BOOLEAN
  /\ object \in Object
  /\ revisions \in Rows
  /\ events \in [Events -> Messages \cup {None}]
  /\ pc \in [Importers -> {"idle", "received", "pinned"}]
  /\ message \in [Importers -> Messages \cup {None}]
  /\ answer \in [Importers -> {"none", "applied", "replayed", "event_conflict",
                               "event_in_progress", "integrity_conflict", "failed"}]
  /\ seen \in [Importers -> [authoritative : BOOLEAN, object : Object, rows : Rows]]
  /\ \A w \in Importers :
       IF pc[w] = "idle" THEN seen[w] = Nothing
       ELSE message[w] \in Messages /\ answer[w] = "none"
  /\ applied \in [Messages -> Nat]
  /\ confirmations \subseteq [revision : Revisions, time : Nat]

\* The object exists (a project was linked to it); nothing is known of it.
Init ==
  /\ authoritative \in BOOLEAN
  /\ object = Unknown
  /\ revisions = NoRows
  /\ events = [e \in Events |-> None]
  /\ pc = [w \in Importers |-> "idle"]
  /\ message = [w \in Importers |-> None]
  /\ answer = [w \in Importers |-> "none"]
  /\ seen = [w \in Importers |-> Nothing]
  /\ applied = [m \in Messages |-> 0]
  /\ confirmations = {}

-----------------------------------------------------------------------------
(* Reading.                                                                *)

Recorded(m) == m.event # None /\ events[m.event] # None

\* Slip: the next request is served with what this one has read.
AnswerUncleared(w, what) ==
  /\ pc' = [pc EXCEPT ![w] = "idle"]
  /\ answer' = [answer EXCEPT ![w] = what]
  /\ UNCHANGED seen

\* The request ends; its transaction, if it has not committed, is undone.
Answer(w, what) ==
  /\ pc' = [pc EXCEPT ![w] = "idle"]
  /\ answer' = [answer EXCEPT ![w] = what]
  /\ seen' = [seen EXCEPT ![w] = Nothing]

\* Slip: an event is recognised by its id alone.
SameEventById(m) == TRUE

SameEvent(m) == events[m.event] = m

\* run_event looks for the event; get_or_create_object reads the object.
Receive(w, m) ==
  /\ pc[w] = "idle"
  /\ message' = [message EXCEPT ![w] = m]
  /\ \/ Recorded(m) /\ SameEvent(m) /\ Answer(w, "replayed")
     \/ Recorded(m) /\ ~SameEvent(m) /\ Answer(w, "event_conflict")
     \/ /\ ~Recorded(m)
        /\ pc' = [pc EXCEPT ![w] = "received"]
        /\ answer' = [answer EXCEPT ![w] = "none"]
        /\ seen' = [seen EXCEPT ![w].authoritative = authoritative, ![w].object = object]
  /\ UNCHANGED <<authoritative, object, revisions, events, applied, confirmations>>

\* Another request has inserted the row and not committed: an INSERT waits.
Inserting(r) ==
  \E v \in Importers : pc[v] = "pinned" /\ message[v].revision = r /\ seen[v].rows[r] = None

OtherBytes(m) ==
  /\ revisions[m.revision] # None
  /\ m.digest # None
  /\ revisions[m.revision].digest \notin {None, m.digest}

\* register_revision reads the revisions (here: all at one moment) and inserts.
Pin(w) ==
  /\ pc[w] = "received"
  /\ ~Inserting(message[w].revision)
  /\ \/ OtherBytes(message[w]) /\ Answer(w, "integrity_conflict")
     \/ /\ ~OtherBytes(message[w])
        /\ pc' = [pc EXCEPT ![w] = "pinned"]
        /\ seen' = [seen EXCEPT ![w].rows = revisions]
        /\ UNCHANGED answer
  /\ UNCHANGED <<message, authoritative, object, revisions, events, applied, confirmations>>

-----------------------------------------------------------------------------
(* Deciding, on what the request has read.                                 *)

\* A column is written only if the request gave it another value.
Written(old, new, stored) == [f \in DOMAIN stored |-> IF new[f] = old[f] THEN stored[f] ELSE new[f]]

NewRow(m, verified) ==
  [digest |-> m.digest, supersedes |-> m.supersedes, superseded_by |-> None,
   verified |-> verified, revoked |-> m.revoked]

\* Missing columns are filled in, others stay.
Completed(row, m) ==
  [row EXCEPT !.digest = IF @ = None THEN m.digest ELSE @,
              !.supersedes = IF @ = None THEN m.supersedes ELSE @]

\* The rows as the request leaves them, given those it read.
Registered(m, rows, verified) ==
  [r \in Revisions |->
     IF r = m.revision
     THEN IF rows[r] = None THEN NewRow(m, verified) ELSE Completed(rows[r], m)
     ELSE IF r = m.supersedes /\ rows[r] # None /\ rows[r].superseded_by = None
     THEN [rows[r] EXCEPT !.superseded_by = m.revision]
     ELSE rows[r]]

\* `newer` supersedes `older` through a chain of registered revisions: every
\* set that holds what `newer` supersedes, and with a revision what that one
\* supersedes, holds `older`.
IsAncestor(rows, older, newer) ==
  \A S \in SUBSET (Revisions \cup {None}) :
    (\A r \in {newer} \cup (S \ {None}) : rows[r] # None => rows[r].supersedes \in S)
      => older \in S

\* Slip: what counts is whether the provider is authoritative by now.
VerifiedNow(row) == authoritative

Verified(row) == row.verified

\* Slip: only the direct predecessor of the current revision is late.
LateParent(o, m, rows) ==
  \/ o.current \notin {None, m.revision} /\ rows[o.current].supersedes = m.revision
  \/ m.confirmed /\ m.time < o.as_of

\* An explicit ancestor of the current revision, or older than a known state.
Late(o, m, rows) ==
  \/ o.current \notin {None, m.revision} /\ IsAncestor(rows, m.revision, o.current)
  \/ m.confirmed /\ m.time < o.as_of

\* It replaces the current revision: confirmed, the first, or its successor.
Follows(o, m, rows) ==
  m.confirmed \/ o.current = None \/ rows[m.revision].supersedes = o.current

\* _apply_order: the object after message m, given the object and its rows.
Reordered(o, m, rows) ==
  IF ~Verified(rows[m.revision]) \/ Late(o, m, rows) THEN o
  ELSE IF o.current = m.revision
  THEN IF m.confirmed THEN [o EXCEPT !.state = "current", !.as_of = m.time] ELSE o
  ELSE IF Follows(o, m, rows)
  THEN [current |-> m.revision, as_of |-> m.time,
        state |-> IF m.confirmed \/ o.current # None THEN "current" ELSE "unconfirmed",
        status |-> IF rows[m.revision].revoked THEN "revoked" ELSE "active"]
  ELSE [o EXCEPT !.state = "pending_reconciliation"]

-----------------------------------------------------------------------------
(* Writing.                                                                *)

\* Slip: nothing keeps two rows of one event apart.
RecordedBefore(m) == FALSE

\* The unique constraint on (provider_id, event_id).
RecordedMeanwhile(m) == Recorded(m)

\* The rows read are `old`, the rows wanted are `new`.
Stored(old, new) ==
  [r \in Revisions |->
     IF new[r] = old[r] THEN revisions[r]
     ELSE IF old[r] = None THEN new[r]
     ELSE Written(old[r], new[r], revisions[r])]

Apply(w, m, old, new) ==
  /\ object' = Written(seen[w].object, Reordered(seen[w].object, m, new), object)
  /\ revisions' = Stored(old, new)
  /\ IF m.event = None THEN UNCHANGED <<events, applied>>
     ELSE /\ events' = [events EXCEPT ![m.event] = m]
          /\ applied' = [applied EXCEPT ![m] = @ + 1]
  /\ confirmations' =
       IF m.confirmed /\ Verified(new[m.revision]) /\ ~Late(seen[w].object, m, new)
       THEN confirmations \cup {[revision |-> m.revision, time |-> m.time]}
       ELSE confirmations

Commit(w) ==
  LET m == message[w]
      old == seen[w].rows
  IN  /\ pc[w] = "pinned"
      /\ \/ /\ RecordedMeanwhile(m)
            /\ Answer(w, "event_in_progress")
            /\ UNCHANGED <<object, revisions, events, applied, confirmations>>
         \/ /\ ~RecordedMeanwhile(m)
            /\ Apply(w, m, old, Registered(m, old, seen[w].authoritative))
            /\ Answer(w, "applied")
      /\ UNCHANGED <<authoritative, message>>

\* Any error, an INSERT that lost its race included.
Fail(w) ==
  /\ pc[w] # "idle"
  /\ Answer(w, "failed")
  /\ UNCHANGED <<authoritative, object, revisions, events, message, applied, confirmations>>

\* update_provider changes fact_types.
UpdateProvider ==
  /\ authoritative' = ~authoritative
  /\ UNCHANGED <<object, revisions, events, request, applied, confirmations>>

-----------------------------------------------------------------------------
Next ==
  \/ \E w \in Importers :
       \/ \E m \in Messages : Receive(w, m)
       \/ Pin(w) \/ Commit(w) \/ Fail(w)
  \/ UpdateProvider

Spec == Init /\ [][Next]_vars

-----------------------------------------------------------------------------
(* Properties.                                                             *)

(* A repeated event is confirmed without a second mutation, though its     *)
(* deliveries overlap, and a different message under its id has no effect. *)
AppliedOnce ==
  \A m, n \in Messages :
    m.event # None /\ m.event = n.event /\ applied[m] > 0 /\ applied[n] > 0
      => m = n /\ applied[m] = 1

(* Who is told that an event is done sent the very message that took       *)
(* effect: a provider may forget what has been acknowledged.               *)
AcknowledgedIsApplied ==
  \A w \in Importers :
    answer[w] \in {"applied", "replayed"} /\ message[w].event # None
      => applied[message[w]] > 0

(* An unverified message is stored but never moves the current revision,   *)
(* not even when the provider becomes authoritative later, or imports of   *)
(* one revision under different authority overlap.                         *)
CurrentIsVerified ==
  object.current # None =>
    revisions[object.current] # None /\ revisions[object.current].verified

NotOvertaken(w) ==
  pc[w] = "pinned" /\ seen[w].object = object /\ seen[w].rows = revisions

(* An import that no other import overtook never makes current a revision  *)
(* which the current one explicitly supersedes, at whatever distance.      *)
SupersededStaysBehind ==
  [][\A w \in Importers :
       NotOvertaken(w) /\ answer'[w] = "applied" /\ object.current \notin {None, object'.current}
         => ~IsAncestor(revisions', object'.current, object.current)]_vars

(* ADR-024 and import_snapshot: what a provider confirms becomes current   *)
(* as of its time, never an older confirmed state.                         *)
NeverOlderConfirmed ==
  [][\A c \in confirmations' \ confirmations, d \in confirmations : c.time >= d.time]_vars
=============================================================================
