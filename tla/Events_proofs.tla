---------------------------- MODULE Events_proofs ----------------------------
(***************************************************************************)
(* Rows match objects, requests rely on what is true, and the events are a  *)
(* board: for any number of clients, files, events and comments.            *)
(***************************************************************************)
EXTENDS Events, SequenceTheorems, TLAPS

-----------------------------------------------------------------------------
(* Table file and S3 *)

\* No file is in two uploads, and S3 deletes what was stored.
UploadsDisjoint == \A F, G \in uploads : F # G => F \cap G = {}
DeletionsKnown == deleting \subseteq Known

\* Files that have, or had, a row a request may have found.
Shared == rows \cup PathsOf(named)

FilesInv == FilesTypeOK /\ RowsMatchObjects /\ UploadsDisjoint /\ DeletionsKnown

\* What a step of the files leaves the requests with: only files in an upload get
\* rows, what was answered stays answered, and at most one file more is shared.
FilesStepKeeps ==
  /\ rows' \ rows \subseteq Uploading
  /\ Known \ Uploading \subseteq (Known \ Uploading)'
  /\ Shared' = Shared \/ \E f \in File : Shared' = Shared \cup {f}

\* The files of an upload are stored.
LEMMA UploadingKnown ==
  ASSUME FilesInv
  PROVE  Uploading \subseteq Known
<1> SUFFICES ASSUME NEW f \in Uploading PROVE f \in Known
  OBVIOUS
<1>1. f \in File
  BY DEF FilesInv, FilesTypeOK, Uploading
<1> QED BY <1>1 DEF FilesInv, RowsMatchObjects

\* A new upload's files were unknown.
LEMMA UploadKeeps ==
  ASSUME FilesInv, NEW F \in SUBSET File, Upload(F)
  PROVE  FilesInv' /\ FilesStepKeeps
<1> USE DEF FilesInv, Upload
<1>1. FilesTypeOK'
  BY DEF FilesTypeOK
<1>2. Uploading' = Uploading \cup F /\ Known' = Known \cup F /\ Uploading \subseteq Known
  <2>1. Uploading' = Uploading \cup F
    BY DEF Uploading
  <2>2. Known' = Known \cup F
    BY DEF Known, FilesTypeOK
  <2> QED BY <2>1, <2>2, UploadingKnown
<1>3. RowsMatchObjects'
  BY <1>2 DEF RowsMatchObjects, FilesTypeOK
<1>4. UploadsDisjoint'
  BY <1>2 DEF UploadsDisjoint, Uploading
<1>5. FilesStepKeeps
  BY <1>2 DEF FilesStepKeeps, Shared
<1> QED BY <1>1, <1>2, <1>3, <1>4, <1>5 DEF DeletionsKnown

\* A row that is saved ends the wait of one file.
LEMMA SaveRowKeeps ==
  ASSUME FilesInv, NEW F \in uploads, NEW f \in F, SaveRow(F, f)
  PROVE  FilesInv' /\ FilesStepKeeps
<1> USE DEF FilesInv, SaveRow, Left
<1>0. F \subseteq File /\ f \in File
  BY DEF FilesTypeOK
<1>1. FilesTypeOK'
  BY <1>0 DEF FilesTypeOK
<1>2. Known' = Known /\ PathsOf(named)' = PathsOf(named)
  BY DEF Known, PathsOf
<1>3. Uploading' = Uploading \ {f}
  <2>1. \A G \in uploads : f \in G => G = F
    BY DEF UploadsDisjoint
  <2>2. Uploading' = (UNION (uploads \ {F})) \cup (F \ {f})
    BY DEF Uploading
  <2> QED BY <2>1, <2>2 DEF Uploading
<1>4. f \in Known /\ f \in Uploading
  BY <1>0 DEF RowsMatchObjects, Uploading
<1>5. RowsMatchObjects'
  BY <1>2, <1>3, <1>4 DEF RowsMatchObjects, FilesTypeOK
<1>6. UploadsDisjoint'
  BY DEF UploadsDisjoint
<1>7. FilesStepKeeps
  <2>1. Shared' = Shared \cup {f}
    BY <1>2 DEF Shared
  <2> QED BY <1>0, <1>2, <1>3, <1>4, <2>1 DEF FilesStepKeeps
<1> QED BY <1>1, <1>2, <1>5, <1>6, <1>7 DEF DeletionsKnown

\* The files of an upload that fails are lost.
LEMMA AbortUploadKeeps ==
  ASSUME FilesInv, NEW F \in uploads, AbortUpload(F)
  PROVE  FilesInv' /\ FilesStepKeeps
<1> USE DEF FilesInv, AbortUpload
<1>1. FilesTypeOK' /\ F \subseteq File
  BY DEF FilesTypeOK
<1>2. Known' = Known /\ Shared' = Shared
  BY DEF Known, Shared, PathsOf
<1>3. Uploading' \subseteq Uploading /\ Uploading \subseteq Uploading' \cup F
  BY DEF Uploading
<1>4. RowsMatchObjects'
  BY <1>1, <1>2, <1>3 DEF RowsMatchObjects, FilesTypeOK
<1>5. UploadsDisjoint'
  BY DEF UploadsDisjoint
<1>6. FilesStepKeeps
  BY <1>2, <1>3 DEF FilesStepKeeps
<1> QED BY <1>1, <1>2, <1>4, <1>5, <1>6 DEF DeletionsKnown

\* A removal takes rows whose paths it names, which all were shared.
LEMMA RemoveKeeps ==
  ASSUME FilesInv, NEW N \in SUBSET Name, Remove(N)
  PROVE  FilesInv' /\ FilesStepKeeps
<1> USE DEF FilesInv, Remove
<1>1. FilesTypeOK'
  BY DEF FilesTypeOK, KeysOf, PathsOf
<1>2. Known' = Known /\ Uploading' = Uploading
  BY DEF Known, Uploading
<1>3. PathsOf(N) \subseteq Shared
  BY DEF PathsOf, Shared, Answered, RowsMatchObjects
<1>4. PathsOf(named)' = PathsOf(named) \cup PathsOf(N)
  BY DEF PathsOf
<1>5. RowsMatchObjects'
  BY <1>2 DEF RowsMatchObjects, FilesTypeOK, KeysOf, PathsOf
<1>6. UploadsDisjoint'
  BY DEF UploadsDisjoint
<1>7. FilesStepKeeps
  BY <1>2, <1>3, <1>4 DEF FilesStepKeeps, Shared
<1>8. DeletionsKnown'
  BY <1>2 DEF DeletionsKnown, KeysOf, Known
<1> QED BY <1>1, <1>5, <1>6, <1>7, <1>8

\* An answer of S3 touches one object that was named by its key.
LEMMA AnswerKeeps ==
  ASSUME FilesInv, NEW f \in File, ObjectDeleted(f) \/ DeletionRefused(f)
  PROVE  FilesInv' /\ FilesStepKeeps
<1> USE DEF FilesInv, ObjectDeleted, DeletionRefused
<1>1. FilesTypeOK'
  BY DEF FilesTypeOK
<1>2. Uploading' = Uploading /\ Shared' = Shared /\ rows' = rows
  BY DEF Uploading, Shared, PathsOf
<1>3. Known' = Known /\ deleting' \subseteq deleting
  BY DEF Known, FilesTypeOK, DeletionsKnown
<1>4. RowsMatchObjects'
  BY <1>2, <1>3 DEF RowsMatchObjects, FilesTypeOK
<1>5. UploadsDisjoint' /\ DeletionsKnown'
  BY <1>3 DEF UploadsDisjoint, DeletionsKnown
<1>6. FilesStepKeeps
  BY <1>2, <1>3 DEF FilesStepKeeps
<1> QED BY <1>1, <1>4, <1>5, <1>6

\* Whatever happens to the files.
LEMMA FilesNextKeeps ==
  ASSUME FilesInv, FilesNext
  PROVE  FilesInv' /\ FilesStepKeeps
<1>1. CASE \E F \in Batches : Upload(F)
  BY <1>1, UploadKeeps, FilesAssumption
<1>2. CASE \E F \in uploads : AbortUpload(F)
  BY <1>2, AbortUploadKeeps
<1>3. CASE \E F \in uploads : \E f \in F : SaveRow(F, f)
  BY <1>3, SaveRowKeeps
<1>4. CASE \E N \in SUBSET Name : Remove(N)
  BY <1>4, RemoveKeeps
<1>5. CASE \E f \in File : ObjectDeleted(f) \/ DeletionRefused(f)
  BY <1>5, AnswerKeeps
<1> QED BY <1>1, <1>2, <1>3, <1>4, <1>5 DEF FilesNext

\* Steps of the requests leave the files alone.
LEMMA FilesAlone ==
  ASSUME FilesInv, UNCHANGED fileVars
  PROVE  FilesInv' /\ Shared' = Shared /\ Known' = Known /\ Uploading' = Uploading
BY DEF FilesInv, fileVars, FilesTypeOK, RowsMatchObjects, UploadsDisjoint, DeletionsKnown,
       Shared, PathsOf, Known, Uploading

-----------------------------------------------------------------------------
(* The requests *)

OnEvent == {"update", "remove", "createEventComment"}

\* What a request has in its locals, at each await.
Knows(r) == LET q == req[r] IN
  /\ q.pc = "idle" => q = Idle
  /\ q.op \in OnEvent => q.event \in DOMAIN events
  /\ q.op = "remove" => q.asked = {}
  /\ q.pc # "save" => q.images = {}
  /\ q.asked \subseteq Known \ Uploading
  /\ q.images \subseteq Shared

Current(r) == LET q == req[r] IN
  /\ q.op \in OnEvent /\ "event" \notin overtaken[r] => events[q.event].state = "live"
  /\ q.pc \in {"findImages", "save"} /\ "role" \notin overtaken[r] => May(r, q)
  /\ q.pc = "save" /\ "images" \notin overtaken[r] => q.images = q.asked \cap rows

RequestsInv == \A r \in Client : Knows(r) /\ Current(r)

BoardTypeOK ==
  /\ role \in [Client -> Role]
  /\ events \in Seq(Event)
  /\ comments \in Seq(Comment)
  /\ \A c \in DOMAIN comments : comments[c].event \in DOMAIN events
  /\ req \in [Client -> Request]
  /\ overtaken \in [Client -> SUBSET {"event", "role", "images"}]

EventsInv == FilesInv /\ BoardTypeOK /\ RequestsInv

LEMMA InvImplies == EventsInv => TypeOK /\ RowsMatchObjects /\ RequestsAreCurrent
  BY DEF EventsInv, FilesInv, BoardTypeOK, TypeOK, RequestsInv, RequestsAreCurrent, Current, OnEvent

LEMMA InitInv == Init => EventsInv
<1> SUFFICES ASSUME Init PROVE EventsInv
  OBVIOUS
<1>1. FilesInv
  BY DEF Init, FilesInit, FilesInv, FilesTypeOK, RowsMatchObjects, UploadsDisjoint, DeletionsKnown,
         Uploading, Known
<1>2. BoardTypeOK
  BY RolesAssumption DEF Init, BoardTypeOK, Role, Request, Idle, Begun, Op, PC
<1>3. RequestsInv
  BY DEF Init, RequestsInv, Knows, Current, Idle, Begun, OnEvent
<1> QED BY <1>1, <1>2, <1>3 DEF EventsInv

\* A request that goes on by itself, and one that is answered, disturb no other.
LEMMA OthersKeep ==
  ASSUME EventsInv, NEW r \in Client, UNCHANGED <<fileVars, role, events>>,
         NEW q \in Client, q # r, req'[q] = req[q], overtaken'[q] = overtaken[q]
  PROVE  Knows(q)' /\ Current(q)'
<1>1. Shared' = Shared /\ Known' = Known /\ Uploading' = Uploading /\ rows' = rows
  BY FilesAlone DEF EventsInv, fileVars
<1>2. Knows(q) /\ Current(q)
  BY DEF EventsInv, RequestsInv
<1> QED BY <1>1, <1>2 DEF Knows, Current, May

\* Faithful to Continue: one request moves on, with its locals as they should be.
LEMMA ContinueKeeps ==
  ASSUME EventsInv, NEW r \in Client, NEW q \in Request, Continue(r, q),
         UNCHANGED <<fileVars, role, boardVars>>, Knows(r)', Current(r)'
  PROVE  EventsInv'
<1>1. FilesInv'
  BY FilesAlone DEF EventsInv
<1>2. BoardTypeOK'
  BY DEF EventsInv, BoardTypeOK, Continue, boardVars
<1>3. ASSUME NEW p \in Client, p # r PROVE Knows(p)' /\ Current(p)'
  <2>1. req'[p] = req[p] /\ overtaken'[p] = overtaken[p]
    BY <1>3 DEF Continue, EventsInv, BoardTypeOK
  <2> QED BY <1>3, <2>1, OthersKeep DEF boardVars
<1> QED BY <1>1, <1>2, <1>3 DEF EventsInv, RequestsInv

\* An idle request knows nothing.
LEMMA IdleKnows ==
  ASSUME NEW r \in Client, req'[r] = Idle
  PROVE  Knows(r)' /\ Current(r)'
BY DEF Knows, Current, Idle, Begun, OnEvent

LEMMA FinishKeeps ==
  ASSUME EventsInv, NEW r \in Client, Finish(r), UNCHANGED <<fileVars, role, events>>,
         comments' \in Seq(Comment), \A c \in DOMAIN comments' : comments'[c].event \in DOMAIN events
  PROVE  EventsInv'
<1>1. FilesInv'
  BY FilesAlone DEF EventsInv
<1>2. BoardTypeOK'
  BY DEF EventsInv, BoardTypeOK, Finish, Idle, Begun, Request, Op, PC
<1>3. Knows(r)' /\ Current(r)'
  BY IdleKnows DEF Finish, EventsInv, BoardTypeOK
<1>4. ASSUME NEW p \in Client, p # r PROVE Knows(p)' /\ Current(p)'
  <2>1. req'[p] = req[p] /\ overtaken'[p] = overtaken[p]
    BY <1>4 DEF Finish, EventsInv, BoardTypeOK
  <2> QED BY <1>4, <2>1, OthersKeep
<1> QED BY <1>1, <1>2, <1>3, <1>4 DEF EventsInv, RequestsInv

\* The lookups: a request begins, is validated, finds its images.
LEMMA BeginCreateKeeps ==
  ASSUME EventsInv, NEW r \in Client, BeginCreate(r)
  PROVE  EventsInv'
<1>1. PICK F \in SUBSET Answered :
        /\ role[r] # "none"
        /\ Continue(r, Begun("create", AfterValidate("create", F), 0, F))
        /\ UNCHANGED <<fileVars, role, boardVars>>
  BY DEF BeginCreate
<1> DEFINE q == Begun("create", AfterValidate("create", F), 0, F)
<1>2. /\ q.op = "create" /\ q.pc = (IF F = {} THEN "save" ELSE "findImages")
      /\ q.asked = F /\ q.images = {}
  BY DEF Begun, AfterValidate
<1>3. q \in Request
  BY DEF Begun, AfterValidate, Request, Op, PC, Answered, Known
<1> HIDE DEF q
<1>4. req'[r] = q
  BY <1>1 DEF q, Continue, EventsInv, BoardTypeOK
<1>5. Shared' = Shared /\ Known' = Known /\ Uploading' = Uploading
  BY <1>1, FilesAlone DEF EventsInv
<1>6. Knows(r)'
  BY <1>2, <1>4, <1>5 DEF Knows, OnEvent, Answered
<1>7. Current(r)'
  BY <1>1, <1>2, <1>4 DEF Current, OnEvent, May
<1> QED BY <1>1, <1>3, <1>6, <1>7, ContinueKeeps DEF q

LEMMA BeginOnEventKeeps ==
  ASSUME EventsInv, NEW r \in Client, NEW op \in OnEvent, NEW e \in DOMAIN events,
         NEW F \in SUBSET Answered, op = "remove" => F = {}, BeginOnEvent(r, op, e, F)
  PROVE  EventsInv'
<1> DEFINE q == Begun(op, "validate", e, F)
<1>1. Continue(r, q) /\ UNCHANGED <<fileVars, role, boardVars>> /\ events[e].state = "live"
  BY DEF BeginOnEvent, Found
<1>2. q \in Request
  BY DEF Begun, Request, Op, PC, Answered, Known, OnEvent, EventsInv, BoardTypeOK
<1>3. req'[r] = q
  BY <1>1 DEF Continue, EventsInv, BoardTypeOK
<1>4. Shared' = Shared /\ Known' = Known /\ Uploading' = Uploading
  BY <1>1, FilesAlone DEF EventsInv
<1>5. Knows(r)'
  BY <1>1, <1>3, <1>4 DEF Begun, Knows, OnEvent, Answered, boardVars
<1>6. Current(r)'
  BY <1>1, <1>3 DEF Begun, Current, OnEvent, boardVars
<1> QED BY <1>1, <1>2, <1>5, <1>6, ContinueKeeps

LEMMA ValidateKeeps ==
  ASSUME EventsInv, NEW r \in Client, Validate(r)
  PROVE  EventsInv'
<1>1. req[r].pc = "validate" /\ UNCHANGED <<fileVars, role, boardVars>>
  BY DEF Validate
<1>2. CASE Finish(r)
  BY <1>1, <1>2, FinishKeeps DEF EventsInv, BoardTypeOK, boardVars
<1>3. CASE ~ Finish(r)
  <2> DEFINE q == [req[r] EXCEPT !.pc = AfterValidate(req[r].op, req[r].asked)]
  <2>1. Continue(r, q) /\ May(r, req[r])
    BY <1>3 DEF Validate
  <2>2. /\ req[r] \in Request /\ q \in Request /\ req'[r] = q
        /\ q.op = req[r].op /\ q.event = req[r].event /\ q.asked = req[r].asked
        /\ q.images = req[r].images /\ q.pc = AfterValidate(req[r].op, req[r].asked)
    BY <2>1 DEF Continue, EventsInv, BoardTypeOK, Request, AfterValidate, PC
  <2>3. Shared' = Shared /\ Known' = Known /\ Uploading' = Uploading
    BY <1>1, FilesAlone DEF EventsInv
  <2>4. Knows(r) /\ Current(r)
    BY DEF EventsInv, RequestsInv
  <2>5. Knows(r)'
    BY <1>1, <2>2, <2>3, <2>4 DEF Knows, AfterValidate, boardVars
  <2>6. May(r, req[r])' /\ overtaken' = overtaken
    BY <1>1, <2>1, <2>2 DEF May, boardVars, Continue
  <2>7. req[r].images = {} /\ (AfterValidate(req[r].op, req[r].asked) = "save" => req[r].asked = {})
    BY <1>1, <2>4 DEF Knows, AfterValidate
  <2>8. Current(r)'
    BY <1>1, <2>2, <2>4, <2>6, <2>7 DEF Current, boardVars
  <2> QED BY <1>1, <2>1, <2>2, <2>5, <2>8, ContinueKeeps
<1> QED BY <1>2, <1>3

LEMMA FindImagesKeeps ==
  ASSUME EventsInv, NEW r \in Client, FindImages(r)
  PROVE  EventsInv'
<1> DEFINE q == [req[r] EXCEPT !.pc = "save", !.images = req[r].asked \cap rows]
<1>1. /\ req[r].pc = "findImages" /\ UNCHANGED <<fileVars, role, boardVars>>
      /\ Continue(r, q)
  BY DEF FindImages, FindAllByPath
<1>2. /\ q \in Request /\ req'[r] = q /\ q.op = req[r].op /\ q.event = req[r].event
      /\ q.asked = req[r].asked /\ q.images = req[r].asked \cap rows /\ q.pc = "save"
  BY <1>1 DEF Continue, EventsInv, BoardTypeOK, Request, PC
<1>3. Shared' = Shared /\ Known' = Known /\ Uploading' = Uploading /\ rows' = rows
  BY <1>1, FilesAlone DEF EventsInv, fileVars
<1>4. Knows(r) /\ Current(r)
  BY DEF EventsInv, RequestsInv
<1>5. Knows(r)'
  BY <1>1, <1>2, <1>3, <1>4 DEF Knows, boardVars, Shared
<1>6. May(r, req[r])' <=> May(r, req[r])
  BY <1>1, <1>2 DEF May, boardVars
<1>7. Current(r)'
  BY <1>1, <1>2, <1>3, <1>4, <1>6 DEF Current, boardVars, Continue
<1> QED BY <1>1, <1>2, <1>5, <1>7, ContinueKeeps

\* A write to the events keeps their authors, and overtakes the requests that found
\* alive what it removes.
LEMMA EventsWriteKeeps ==
  ASSUME EventsInv, NEW r \in Client, UNCHANGED <<fileVars, role, comments>>,
         events' \in Seq(Event), DOMAIN events \subseteq DOMAIN events',
         \A e \in DOMAIN events : events'[e].author = events[e].author,
         req' = [req EXCEPT ![r] = Idle],
         overtaken' \in [Client -> SUBSET {"event", "role", "images"}],
         \A q \in Client : q # r =>
           /\ overtaken[q] \subseteq overtaken'[q]
           /\ req[q].op \in OnEvent /\ events'[req[q].event].state # events[req[q].event].state
                => "event" \in overtaken'[q]
  PROVE  EventsInv'
<1>1. FilesInv' /\ Shared' = Shared /\ Known' = Known /\ Uploading' = Uploading /\ rows' = rows
  BY FilesAlone DEF EventsInv, fileVars
<1>2. BoardTypeOK'
  <2>1. req' \in [Client -> Request]
    BY DEF EventsInv, BoardTypeOK, Idle, Begun, Request, Op, PC
  <2> QED BY <2>1 DEF EventsInv, BoardTypeOK
<1>3. Knows(r)' /\ Current(r)'
  BY IdleKnows DEF EventsInv, BoardTypeOK
<1>4. ASSUME NEW q \in Client, q # r PROVE Knows(q)' /\ Current(q)'
  <2>1. Knows(q) /\ Current(q)
    BY DEF EventsInv, RequestsInv
  <2>2. req'[q] = req[q] /\ overtaken[q] \subseteq overtaken'[q]
    BY <1>4 DEF EventsInv, BoardTypeOK
  <2>3. Knows(q)'
    BY <1>1, <2>1, <2>2 DEF Knows
  <2>4. req[q].op \in OnEvent => req[q].event \in DOMAIN events
    BY <2>1 DEF Knows
  <2>5. req[q].op \in OnEvent /\ "event" \notin overtaken'[q]
          => events'[req[q].event].state = "live"
    BY <1>4, <2>1, <2>2 DEF Current
  <2>6. May(q, req[q]) => May(q, req[q])'
    BY <2>2, <2>4 DEF May, OnEvent
  <2>7. Current(q)'
    BY <1>1, <2>1, <2>2, <2>5, <2>6 DEF Current
  <2> QED BY <2>3, <2>7
<1> QED BY <1>1, <1>2, <1>3, <1>4 DEF EventsInv, RequestsInv

LEMMA InsertEventKeeps ==
  ASSUME EventsInv, NEW r \in Client, InsertEvent(r)
  PROVE  EventsInv'
<1> DEFINE e == [author |-> r, state |-> "live", images |-> req[r].images]
<1>1. events \in Seq(Event) /\ e \in Event
  BY DEF EventsInv, BoardTypeOK, Request, Event
<1>2. events' = Append(events, e)
  BY DEF InsertEvent
<1> HIDE DEF e
<1>3. /\ events' \in Seq(Event) /\ DOMAIN events \subseteq DOMAIN events'
      /\ \A i \in DOMAIN events : events'[i] = events[i]
  BY <1>1, <1>2
<1>4. \A q \in Client : req[q].op \in OnEvent => events'[req[q].event] = events[req[q].event]
  BY <1>3 DEF EventsInv, RequestsInv, Knows
<1>5. /\ req' = [req EXCEPT ![r] = Idle] /\ overtaken' = [overtaken EXCEPT ![r] = {}]
      /\ UNCHANGED <<fileVars, role, comments>>
  BY DEF InsertEvent, Finish
<1> QED BY <1>3, <1>4, <1>5, EventsWriteKeeps DEF EventsInv, BoardTypeOK

\* The row that is saved, and its type.
LEMMA SavedRow ==
  ASSUME EventsInv, NEW r \in Client, SaveEvent(r)
  PROVE  /\ req[r].event \in DOMAIN events
         /\ events' \in Seq(Event) /\ DOMAIN events' = DOMAIN events
         /\ \A e \in DOMAIN events :
              events'[e] = IF e = req[r].event THEN [events[e] EXCEPT !.images = req[r].images]
                                               ELSE events[e]
         /\ \A e \in DOMAIN events : /\ events'[e].author = events[e].author
                                     /\ events'[e].state = events[e].state
<1>1. req[r].event \in DOMAIN events /\ events \in Seq(Event) /\ req[r].images \in SUBSET File
  BY DEF EventsInv, RequestsInv, Knows, OnEvent, SaveEvent, BoardTypeOK, Request
<1>2. events' = [events EXCEPT ![req[r].event] = [@ EXCEPT !.images = req[r].images]]
  BY DEF SaveEvent, Saved
<1>3. \A e \in DOMAIN events : events[e] \in Event
  BY <1>1
<1>4. events[req[r].event] \in Event
  BY <1>1, <1>3
<1>5. [events[req[r].event] EXCEPT !.images = req[r].images] \in Event
  BY <1>1, <1>4 DEF Event
<1>6. events' \in Seq(Event) /\ DOMAIN events' = DOMAIN events
  BY <1>1, <1>2, <1>5
<1>7. \A e \in DOMAIN events :
        events'[e] = IF e = req[r].event THEN [events[e] EXCEPT !.images = req[r].images]
                                         ELSE events[e]
  BY <1>1, <1>2
<1> QED BY <1>1, <1>3, <1>6, <1>7 DEF Event

LEMMA SaveEventKeeps ==
  ASSUME EventsInv, NEW r \in Client, SaveEvent(r)
  PROVE  EventsInv'
<1>1. \A q \in Client : req[q].op \in OnEvent => req[q].event \in DOMAIN events
  BY DEF EventsInv, RequestsInv, Knows
<1>2. /\ req' = [req EXCEPT ![r] = Idle] /\ overtaken' = [overtaken EXCEPT ![r] = {}]
      /\ UNCHANGED <<fileVars, role, comments>>
  BY DEF SaveEvent, Finish
<1> QED BY <1>1, <1>2, SavedRow, EventsWriteKeeps DEF EventsInv, BoardTypeOK

\* The row that is removed.
LEMMA RemovedRow ==
  ASSUME EventsInv, NEW r \in Client, SoftDelete(r)
  PROVE  /\ req[r].event \in DOMAIN events
         /\ events' \in Seq(Event) /\ DOMAIN events' = DOMAIN events
         /\ \A e \in DOMAIN events :
              events'[e] = IF e = req[r].event THEN [events[e] EXCEPT !.state = "soft"]
                                               ELSE events[e]
         /\ \A e \in DOMAIN events : /\ events'[e].author = events[e].author
                                     /\ events'[e].images = events[e].images
<1>1. req[r].event \in DOMAIN events /\ events \in Seq(Event)
  BY DEF EventsInv, RequestsInv, Knows, OnEvent, SoftDelete, BoardTypeOK
<1>2. events' = [events EXCEPT ![req[r].event] = [@ EXCEPT !.state = "soft"]]
  BY DEF SoftDelete
<1>3. \A e \in DOMAIN events : events[e] \in Event
  BY <1>1
<1>4. events[req[r].event] \in Event
  BY <1>1, <1>3
<1>5. [events[req[r].event] EXCEPT !.state = "soft"] \in Event
  BY <1>4 DEF Event
<1>6. events' \in Seq(Event) /\ DOMAIN events' = DOMAIN events
  BY <1>1, <1>2, <1>5
<1>7. \A e \in DOMAIN events :
        events'[e] = IF e = req[r].event THEN [events[e] EXCEPT !.state = "soft"]
                                         ELSE events[e]
  BY <1>1, <1>2
<1> QED BY <1>1, <1>3, <1>6, <1>7 DEF Event

LEMMA SoftDeleteKeeps ==
  ASSUME EventsInv, NEW r \in Client, SoftDelete(r)
  PROVE  EventsInv'
<1>1. \A q \in Client : req[q].op \in OnEvent => req[q].event \in DOMAIN events
  BY DEF EventsInv, RequestsInv, Knows
<1>2. req' = [req EXCEPT ![r] = Idle] /\ UNCHANGED <<fileVars, role, comments>>
  BY DEF SoftDelete
<1>3. overtaken' \in [Client -> SUBSET {"event", "role", "images"}]
  BY DEF SoftDelete, EventsInv, BoardTypeOK
<1>4. \A q \in Client : q # r => overtaken'[q] = IF req[q].event = req[r].event
                                                 THEN overtaken[q] \cup {"event"} ELSE overtaken[q]
  BY DEF SoftDelete
<1>5. \A q \in Client : q # r =>
        /\ overtaken[q] \subseteq overtaken'[q]
        /\ req[q].op \in OnEvent /\ events'[req[q].event].state # events[req[q].event].state
             => "event" \in overtaken'[q]
  BY <1>1, <1>4, RemovedRow
<1> QED BY <1>2, <1>3, <1>5, RemovedRow, EventsWriteKeeps

LEMMA InsertCommentKeeps ==
  ASSUME EventsInv, NEW r \in Client, InsertComment(r)
  PROVE  EventsInv'
<1> DEFINE c == [event |-> req[r].event, by |-> r, images |-> req[r].images]
<1>1. comments \in Seq(Comment) /\ c \in Comment /\ c.event \in DOMAIN events
  BY DEF EventsInv, BoardTypeOK, RequestsInv, Knows, OnEvent, InsertComment, Request, Comment
<1>2. comments' = Append(comments, c)
  BY DEF InsertComment
<1> HIDE DEF c
<1>3. comments' \in Seq(Comment)
  BY <1>1, <1>2
<1>4. \A i \in DOMAIN comments' : comments'[i].event \in DOMAIN events
  BY <1>1, <1>2 DEF EventsInv, BoardTypeOK
<1>5. Finish(r) /\ UNCHANGED <<fileVars, role, events>>
  BY DEF InsertComment
<1> QED BY <1>3, <1>4, <1>5, FinishKeeps

\* A role that changes overtakes the request that was admitted with the one before.
LEMMA ChangeRoleKeeps ==
  ASSUME EventsInv, NEW r \in Client, ChangeRole(r)
  PROVE  EventsInv'
<1>1. PICK new \in Roles :
        /\ role' = [role EXCEPT ![r] = new]
        /\ overtaken' = [overtaken EXCEPT ![r] =
                           IF req[r].pc \in {"findImages", "save"} THEN @ \cup {"role"} ELSE @]
        /\ UNCHANGED <<fileVars, boardVars, req>>
  BY DEF ChangeRole
<1>2. FilesInv' /\ Shared' = Shared /\ Known' = Known /\ Uploading' = Uploading /\ rows' = rows
  BY <1>1, FilesAlone DEF EventsInv, fileVars
<1>3. BoardTypeOK'
  BY <1>1, RolesAssumption DEF EventsInv, BoardTypeOK, Role, boardVars
<1>4. ASSUME NEW q \in Client PROVE Knows(q)' /\ Current(q)'
  <2>1. Knows(q) /\ Current(q)
    BY DEF EventsInv, RequestsInv
  <2>2. Knows(q)'
    BY <1>1, <1>2, <2>1 DEF Knows, boardVars
  <2>3. overtaken[q] \subseteq overtaken'[q]
    BY <1>1 DEF EventsInv, BoardTypeOK
  <2>4. CASE q # r
    <3>1. May(q, req[q]) => May(q, req[q])'
      BY <1>1, <2>4 DEF May, boardVars, EventsInv, BoardTypeOK
    <3> QED BY <1>1, <1>2, <2>1, <2>2, <2>3, <3>1 DEF Current, boardVars
  <2>5. CASE q = r
    <3>1. req[r].pc \in {"findImages", "save"} => "role" \in overtaken'[r]
      BY <1>1 DEF EventsInv, BoardTypeOK
    <3> QED BY <1>1, <1>2, <2>1, <2>2, <2>3, <2>5, <3>1 DEF Current, boardVars
  <2> QED BY <2>4, <2>5
<1> QED BY <1>2, <1>3, <1>4 DEF EventsInv, RequestsInv

\* A step of the files leaves a request the rows it found, or overtakes it.
LEMMA FilesStepPreserves ==
  ASSUME EventsInv, FilesStep
  PROVE  EventsInv'
<1>1. FilesInv' /\ FilesStepKeeps
  BY FilesNextKeeps DEF FilesStep, EventsInv
<1>2. /\ UNCHANGED <<role, boardVars, req>>
      /\ \A r \in Client : overtaken'[r] = IF req[r].images \subseteq rows' THEN overtaken[r]
                                           ELSE overtaken[r] \cup {"images"}
  BY DEF FilesStep
<1>3. BoardTypeOK'
  <2>1. overtaken' \in [Client -> SUBSET {"event", "role", "images"}]
    BY DEF FilesStep, EventsInv, BoardTypeOK
  <2> QED BY <1>2, <2>1 DEF EventsInv, BoardTypeOK, boardVars
<1>4. ASSUME NEW q \in Client PROVE Knows(q)' /\ Current(q)'
  <2>1. Knows(q) /\ Current(q)
    BY DEF EventsInv, RequestsInv
  <2>2. Shared \subseteq Shared'
    BY <1>1 DEF FilesStepKeeps
  <2>3. Knows(q)'
    BY <1>1, <1>2, <2>1, <2>2 DEF Knows, boardVars, FilesStepKeeps
  <2>4. overtaken[q] \subseteq overtaken'[q] /\ (May(q, req[q]) <=> May(q, req[q])')
    BY <1>2 DEF May, boardVars
  <2>5. "images" \notin overtaken'[q] => req[q].images \subseteq rows'
    BY <1>2
  <2>6. (rows' \ rows) \cap req[q].asked = {}
    BY <1>1, <2>1 DEF FilesStepKeeps, Knows
  <2>7. Current(q)'
    BY <1>2, <2>1, <2>4, <2>5, <2>6 DEF Current, boardVars
  <2> QED BY <2>3, <2>7
<1> QED BY <1>1, <1>3, <1>4 DEF EventsInv, RequestsInv

LEMMA NextInv ==
  ASSUME EventsInv, [Next]_vars
  PROVE  EventsInv'
<1>1. ASSUME NEW r \in Client, Step(r) PROVE EventsInv'
  <2>1. CASE BeginUpdate(r)
    BY <2>1, BeginOnEventKeeps DEF BeginUpdate, OnEvent
  <2>2. CASE BeginRemove(r)
    BY <2>2, BeginOnEventKeeps DEF BeginRemove, OnEvent
  <2>3. CASE BeginComment(r)
    BY <2>3, BeginOnEventKeeps DEF BeginComment, OnEvent
  <2>4. CASE Abort(r)
    BY <2>4, FinishKeeps DEF Abort, EventsInv, BoardTypeOK, boardVars
  <2> QED BY <1>1, <2>1, <2>2, <2>3, <2>4, BeginCreateKeeps, ValidateKeeps, FindImagesKeeps,
             InsertEventKeeps, SaveEventKeeps, SoftDeleteKeeps, InsertCommentKeeps,
             ChangeRoleKeeps DEF Step
<1>2. CASE FilesStep
  BY <1>2, FilesStepPreserves
<1>3. CASE UNCHANGED vars
  <2>1. FilesInv' /\ Shared' = Shared /\ Known' = Known /\ Uploading' = Uploading /\ rows' = rows
    BY <1>3, FilesAlone DEF EventsInv, vars, fileVars
  <2>2. BoardTypeOK'
    BY <1>3 DEF vars, EventsInv, BoardTypeOK
  <2>3. RequestsInv'
    BY <1>3, <2>1 DEF vars, EventsInv, RequestsInv, Knows, Current, May
  <2> QED BY <2>1, <2>2, <2>3 DEF EventsInv
<1> QED BY <1>1, <1>2, <1>3 DEF Next

LEMMA InvHolds == Spec => []EventsInv
  BY InitInv, NextInv, PTL DEF Spec

-----------------------------------------------------------------------------

\* The variables keep their types.
THEOREM TypeCorrect == Spec => []TypeOK
  BY InvHolds, InvImplies, PTL

\* Rows and objects part only over files whose upload failed or which a removal
\* named, however uploads, removals and the answers of S3 overlap.
THEOREM FilesMatch == Spec => []RowsMatchObjects
  BY InvHolds, InvImplies, PTL

\* What a request found is true as long as nothing overtakes it.
THEOREM RequestsCurrent == Spec => []RequestsAreCurrent
  BY InvHolds, InvImplies, PTL

-----------------------------------------------------------------------------
(* What steps do to the events *)

\* The steps that write them.
LEMMA EventsWriters ==
  ASSUME [Next]_vars
  PROVE  \/ events' = events
         \/ \E r \in Client : InsertEvent(r) \/ SaveEvent(r) \/ SoftDelete(r)
BY DEF Next, vars, Step, BeginCreate, BeginUpdate, BeginRemove, BeginComment, BeginOnEvent,
       Validate, FindImages, InsertComment, ChangeRole, Abort, FilesStep, boardVars

\* An event that is inserted comes after those there were.
LEMMA InsertedEvent ==
  ASSUME EventsInv, NEW r \in Client, InsertEvent(r)
  PROVE  /\ DOMAIN events \subseteq DOMAIN events'
         /\ \A e \in DOMAIN events : events'[e] = events[e]
<1>1. events \in Seq(Event)
  BY DEF EventsInv, BoardTypeOK
<1>2. events' = Append(events, [author |-> r, state |-> "live", images |-> req[r].images])
  BY DEF InsertEvent
<1> QED BY <1>1, <1>2

\* Removing what was removed changes nothing.
LEMMA RemovedTwice ==
  ASSUME EventsInv, NEW r \in Client, SoftDelete(r), NEW e \in DOMAIN events,
         events[e].state = "soft"
  PROVE  events'[e] = events[e]
<1>1. events[e] \in Event
  BY DEF EventsInv, BoardTypeOK
<1>2. events'[e] = events[e] \/ events'[e] = [events[e] EXCEPT !.state = "soft"]
  BY RemovedRow
<1>3. [events[e] EXCEPT !.state = "soft"] = events[e]
  BY <1>1 DEF Event
<1> QED BY <1>2, <1>3

\* A request that writes to an event it found, and which is removed, was overtaken.
LEMMA WriteToRemoved ==
  ASSUME EventsInv, NEW r \in Client, SaveEvent(r) \/ InsertComment(r),
         events[req[r].event].state = "soft"
  PROVE  "event" \in overtaken[r]
BY DEF EventsInv, RequestsInv, Current, OnEvent, SaveEvent, InsertComment

\* An event that was removed stays so, and is written to by overtaken requests only.
THEOREM RemovedStay == Spec => RemovedEventsStay
<1> DEFINE A == /\ \A e \in DOMAIN events : events[e].state = "soft" =>
                     /\ events'[e].state = "soft"
                     /\ events'[e] # events[e] =>
                          \E r \in Client : SaveEvent(r) /\ "event" \in overtaken[r]
                /\ \A r \in Client : InsertComment(r) /\ events[req[r].event].state = "soft" =>
                     "event" \in overtaken[r]
<1>1. EventsInv /\ [Next]_vars => [A]_vars
  <2> SUFFICES ASSUME EventsInv, [Next]_vars PROVE A
    OBVIOUS
  <2>1. ASSUME NEW e \in DOMAIN events, events[e].state = "soft"
        PROVE  /\ events'[e].state = "soft"
               /\ events'[e] # events[e] =>
                    \E r \in Client : SaveEvent(r) /\ "event" \in overtaken[r]
    <3>1. CASE events' = events
      BY <2>1, <3>1
    <3>2. ASSUME NEW r \in Client, InsertEvent(r) PROVE events'[e] = events[e]
      BY <3>2, InsertedEvent
    <3>3. ASSUME NEW r \in Client, SoftDelete(r) PROVE events'[e] = events[e]
      BY <2>1, <3>3, RemovedTwice
    <3>4. ASSUME NEW r \in Client, SaveEvent(r)
          PROVE  /\ events'[e].state = "soft"
                 /\ events'[e] # events[e] => "event" \in overtaken[r]
      BY <2>1, <3>4, SavedRow, WriteToRemoved
    <3> QED BY <2>1, <3>1, <3>2, <3>3, <3>4, EventsWriters
  <2>2. \A r \in Client : InsertComment(r) /\ events[req[r].event].state = "soft" =>
          "event" \in overtaken[r]
    BY WriteToRemoved
  <2> QED BY <2>1, <2>2
<1>2. Spec => [][A]_vars
  BY InvHolds, <1>1, PTL DEF Spec
<1> QED BY <1>2 DEF RemovedEventsStay

-----------------------------------------------------------------------------
(* The board *)

\* What the board shows of one row, and of all.
Shows(e) == [author |-> e.author, state |-> UpOrDown(e), pictures |-> e.images]
ShowsComment(c) == [to |-> c.event, by |-> c.by, pictures |-> c.images]

PostsOf(es) == [i \in DOMAIN es |-> Shows(es[i])]
RepliesOf(cs) == [i \in DOMAIN cs |-> ShowsComment(cs[i])]

ShownPost == [author : Client, state : {"up", "down"}, pictures : SUBSET File]
ShownReply == [to : Nat \ {0}, by : Client, pictures : SUBSET File]

LEMMA PostsSeq ==
  ASSUME NEW es \in Seq(Event)
  PROVE  PostsOf(es) \in Seq(ShownPost) /\ Len(PostsOf(es)) = Len(es)
<1>1. \A i \in 1..Len(es) : Shows(es[i]) \in ShownPost
  <2> TAKE i \in 1..Len(es)
  <2>1. es[i] \in Event
    OBVIOUS
  <2> QED BY <2>1 DEF Shows, UpOrDown, ShownPost, Event
<1>2. Len(es) \in Nat /\ PostsOf(es) \in [1..Len(es) -> ShownPost]
  BY <1>1 DEF PostsOf
<1> QED BY <1>2

LEMMA RepliesSeq ==
  ASSUME NEW cs \in Seq(Comment)
  PROVE  RepliesOf(cs) \in Seq(ShownReply) /\ Len(RepliesOf(cs)) = Len(cs)
<1>1. \A i \in 1..Len(cs) : ShowsComment(cs[i]) \in ShownReply
  <2> TAKE i \in 1..Len(cs)
  <2>1. cs[i] \in Comment
    OBVIOUS
  <2> QED BY <2>1 DEF ShowsComment, ShownReply, Comment
<1>2. Len(cs) \in Nat /\ RepliesOf(cs) \in [1..Len(cs) -> ShownReply]
  BY <1>1 DEF RepliesOf
<1> QED BY <1>2

\* Two sequences of which one goes one element further.
LEMMA AppendedOne ==
  ASSUME NEW S, NEW s \in Seq(S), NEW t \in Seq(S), NEW x \in S, Len(t) = Len(s) + 1,
         \A i \in 1..Len(s) : t[i] = s[i], t[Len(s) + 1] = x
  PROVE  t = Append(s, x)
BY AppendProperties, SeqEqual

LEMMA BoardInit == Init => TheBoard!Init
<1> SUFFICES ASSUME Init PROVE PostsOf(events) = <<>> /\ RepliesOf(comments) = <<>> /\ Shared = {}
  BY DEF TheBoard!Init, PostsOf, RepliesOf, Shows, ShowsComment, Shared
<1> QED BY DEF Init, FilesInit, PostsOf, RepliesOf, Shared, PathsOf

\* An inserted event is a post.
LEMMA InsertEventPosts ==
  ASSUME EventsInv, NEW r \in Client, InsertEvent(r)
  PROVE  TheBoard!Post(r, req[r].images)
<1> DEFINE e == [author |-> r, state |-> "live", images |-> req[r].images]
           post == [author |-> r, state |-> "up", pictures |-> req[r].images]
<1>1. events \in Seq(Event) /\ events' = Append(events, e) /\ comments' = comments /\ Shared' = Shared
  BY FilesAlone DEF EventsInv, BoardTypeOK, InsertEvent
<1>2. e \in Event /\ post \in ShownPost
  BY DEF EventsInv, BoardTypeOK, Request, Event, ShownPost
<1>3. Shows(e) = post
  BY DEF Shows, UpOrDown
<1> HIDE DEF e, post
<1>4. /\ events' \in Seq(Event) /\ Len(events') = Len(events) + 1
      /\ events'[Len(events) + 1] = e
      /\ \A i \in 1..Len(events) : events'[i] = events[i]
  BY <1>1, <1>2
<1>5. PostsOf(events') = Append(PostsOf(events), post)
  BY <1>1, <1>2, <1>3, <1>4, PostsSeq, AppendedOne DEF PostsOf
<1> QED BY <1>1, <1>5 DEF TheBoard!Post, PostsOf, RepliesOf, Shows, ShowsComment, Shared, post

\* An inserted comment is a reply to a post that is there.
LEMMA InsertCommentReplies ==
  ASSUME EventsInv, NEW r \in Client, InsertComment(r)
  PROVE  TheBoard!Reply(r, req[r].event, req[r].images)
<1> DEFINE c == [event |-> req[r].event, by |-> r, images |-> req[r].images]
<1>1. /\ comments \in Seq(Comment) /\ comments' = Append(comments, c)
      /\ events' = events /\ Shared' = Shared
  BY FilesAlone DEF EventsInv, BoardTypeOK, InsertComment
<1>2. c \in Comment
  BY DEF EventsInv, BoardTypeOK, RequestsInv, Knows, OnEvent, InsertComment, Request, Comment
<1>3. ShowsComment(c) = [to |-> req[r].event, by |-> r, pictures |-> req[r].images]
  BY DEF ShowsComment
<1>4. ShowsComment(c) \in ShownReply
  BY <1>2, <1>3 DEF Comment, ShownReply
<1> HIDE DEF c
<1>5. /\ comments' \in Seq(Comment) /\ Len(comments') = Len(comments) + 1
      /\ comments'[Len(comments) + 1] = c
      /\ \A i \in 1..Len(comments) : comments'[i] = comments[i]
  BY <1>1, <1>2
<1>6. RepliesOf(comments') = Append(RepliesOf(comments), ShowsComment(c))
  BY <1>1, <1>4, <1>5, RepliesSeq, AppendedOne DEF RepliesOf
<1> QED BY <1>1, <1>3, <1>6 DEF TheBoard!Reply, PostsOf, RepliesOf, Shows, ShowsComment, Shared

\* A saved event is an edited post.
LEMMA SaveEventEdits ==
  ASSUME EventsInv, NEW r \in Client, SaveEvent(r)
  PROVE  TheBoard!Edit(req[r].event, req[r].images)
<1>1. comments' = comments /\ Shared' = Shared
  BY FilesAlone DEF EventsInv, SaveEvent
<1>2. \A e \in DOMAIN events : events[e] \in Event
  BY DEF EventsInv, BoardTypeOK
<1>3. PostsOf(events') = [PostsOf(events) EXCEPT ![req[r].event].pictures = req[r].images]
  <2> DEFINE e == req[r].event
             changed == [author |-> events[e].author, state |-> UpOrDown(events[e]),
                         pictures |-> req[r].images]
  <2>1. e \in DOMAIN events /\ events[e] \in Event
    BY <1>2, SavedRow
  <2>2. Shows(events'[e]) = changed
    BY <2>1, SavedRow DEF Shows, UpOrDown, Event
  <2>3. [Shows(events[e]) EXCEPT !.pictures = req[r].images] = changed
    BY DEF Shows
  <2>4. \A i \in DOMAIN events : i # e => Shows(events'[i]) = Shows(events[i])
    BY SavedRow
  <2> HIDE DEF changed
  <2>5. PostsOf(events') = [i \in DOMAIN events |-> IF i = e THEN changed ELSE Shows(events[i])]
    BY <2>2, <2>4, SavedRow DEF PostsOf
  <2>6. [PostsOf(events) EXCEPT ![e].pictures = req[r].images]
          = [i \in DOMAIN events |-> IF i = e THEN changed ELSE Shows(events[i])]
    BY <2>1, <2>3 DEF PostsOf
  <2> QED BY <2>5, <2>6
<1> QED BY <1>1, <1>3 DEF TheBoard!Edit, PostsOf, RepliesOf, Shows, ShowsComment, Shared

\* A removed event is a post taken down.
LEMMA SoftDeleteTakesDown ==
  ASSUME EventsInv, NEW r \in Client, SoftDelete(r)
  PROVE  TheBoard!TakeDown(req[r].event)
<1>1. comments' = comments /\ Shared' = Shared
  BY FilesAlone DEF EventsInv, SoftDelete
<1>2. \A e \in DOMAIN events : events[e] \in Event
  BY DEF EventsInv, BoardTypeOK
<1>3. PostsOf(events') = [PostsOf(events) EXCEPT ![req[r].event].state = "down"]
  <2> DEFINE e == req[r].event
             changed == [author |-> events[e].author, state |-> "down",
                         pictures |-> events[e].images]
  <2>1. e \in DOMAIN events /\ events[e] \in Event
    BY <1>2, RemovedRow
  <2>2. Shows(events'[e]) = changed
    BY <2>1, RemovedRow DEF Shows, UpOrDown, Event
  <2>3. [Shows(events[e]) EXCEPT !.state = "down"] = changed
    BY DEF Shows
  <2>4. \A i \in DOMAIN events : i # e => Shows(events'[i]) = Shows(events[i])
    BY RemovedRow
  <2> HIDE DEF changed
  <2>5. PostsOf(events') = [i \in DOMAIN events |-> IF i = e THEN changed ELSE Shows(events[i])]
    BY <2>2, <2>4, RemovedRow DEF PostsOf
  <2>6. [PostsOf(events) EXCEPT ![e].state = "down"]
          = [i \in DOMAIN events |-> IF i = e THEN changed ELSE Shows(events[i])]
    BY <2>1, <2>3 DEF PostsOf
  <2> QED BY <2>5, <2>6
<1> QED BY <1>1, <1>3 DEF TheBoard!TakeDown, PostsOf, RepliesOf, Shows, ShowsComment, Shared

\* Whatever a request does before it writes, the board does not show.
LEMMA Unseen ==
  ASSUME EventsInv, UNCHANGED <<fileVars, boardVars>>
  PROVE  UNCHANGED TheBoard!boardVars
<1>1. events' = events /\ comments' = comments /\ Shared' = Shared
  BY FilesAlone DEF EventsInv, boardVars
<1> QED BY <1>1 DEF TheBoard!boardVars, UpOrDown, Shared

\* The files of a step are shared one at a time.
LEMMA FilesStepShares ==
  ASSUME EventsInv, FilesStep
  PROVE  UNCHANGED TheBoard!boardVars \/ \E f \in File : TheBoard!Share(f)
<1>1. Shared' = Shared \/ \E f \in File : Shared' = Shared \cup {f}
  BY FilesNextKeeps DEF FilesStep, EventsInv, FilesStepKeeps
<1>2. events' = events /\ comments' = comments
  BY DEF FilesStep, boardVars
<1> QED BY <1>1, <1>2 DEF TheBoard!boardVars, TheBoard!Share, UpOrDown, Shared

LEMMA BoardStep ==
  ASSUME EventsInv, [Next]_vars
  PROVE  [TheBoard!Next]_(TheBoard!boardVars)
<1>0. Shared = rows \cup PathsOf(named)
  BY DEF Shared
<1>1. ASSUME NEW r \in Client PROVE req[r].images \in SUBSET Shared
  BY DEF EventsInv, RequestsInv, Knows
<1>2. ASSUME NEW r \in Client, InsertEvent(r) PROVE TheBoard!Next
  <2>1. TheBoard!Post(r, req[r].images)
    BY <1>2, InsertEventPosts
  <2> QED BY <1>0, <1>1, <2>1 DEF TheBoard!Next, TheBoard!Post
<1>3. ASSUME NEW r \in Client, SaveEvent(r) PROVE TheBoard!Next
  <2>1. TheBoard!Edit(req[r].event, req[r].images) /\ req[r].event \in DOMAIN events
    BY <1>3, SaveEventEdits, SavedRow
  <2> QED BY <1>0, <1>1, <2>1 DEF TheBoard!Next, TheBoard!Edit
<1>4. ASSUME NEW r \in Client, SoftDelete(r) PROVE TheBoard!Next
  <2>1. TheBoard!TakeDown(req[r].event) /\ req[r].event \in DOMAIN events
    BY <1>4, SoftDeleteTakesDown, RemovedRow
  <2> QED BY <2>1 DEF TheBoard!Next, TheBoard!TakeDown
<1>5. ASSUME NEW r \in Client, InsertComment(r) PROVE TheBoard!Next
  <2>1. TheBoard!Reply(r, req[r].event, req[r].images) /\ req[r].event \in DOMAIN events
    BY <1>5, InsertCommentReplies DEF EventsInv, RequestsInv, Knows, OnEvent, InsertComment
  <2> QED BY <1>0, <1>1, <2>1 DEF TheBoard!Next, TheBoard!Reply
<1>6. CASE FilesStep
  BY <1>6, FilesStepShares DEF TheBoard!Next
<1>7. CASE UNCHANGED <<fileVars, boardVars>>
  BY <1>7, Unseen
<1>8. \/ UNCHANGED <<fileVars, boardVars>> \/ FilesStep
      \/ \E r \in Client : InsertEvent(r) \/ SaveEvent(r) \/ SoftDelete(r) \/ InsertComment(r)
  BY DEF Next, vars, Step, BeginCreate, BeginUpdate, BeginRemove, BeginComment, BeginOnEvent,
         Validate, FindImages, ChangeRole, Abort, boardVars
<1> QED BY <1>2, <1>3, <1>4, <1>5, <1>6, <1>7, <1>8

\* Events and comments, with every request and removal that may overtake another, are
\* a board as Board promises it.
THEOREM EventsAreABoard == Spec => IsABoard
<1>1. EventsInv /\ [Next]_vars => [TheBoard!Next]_(TheBoard!boardVars)
  BY BoardStep
<1>2. Spec => TheBoard!Spec
  BY BoardInit, InvHolds, <1>1, PTL DEF Spec, TheBoard!Spec
<1> QED BY <1>2 DEF IsABoard

-----------------------------------------------------------------------------
(* Images *)

\* A file loses its row only to a removal that names its path.
LEMMA RowLoss ==
  ASSUME [Next]_vars, NEW f \in rows \ rows'
  PROVE  <<"url", f>> \in named'
<1>1. CASE FilesStep
  BY <1>1 DEF FilesStep, FilesNext, Upload, SaveRow, AbortUpload, Remove, PathsOf, ObjectDeleted,
              DeletionRefused
<1>2. CASE UNCHANGED vars
  BY <1>2 DEF vars, fileVars
<1>3. CASE \E r \in Client : Step(r)
  BY <1>3 DEF Step, BeginCreate, BeginUpdate, BeginRemove, BeginComment, BeginOnEvent,
              Validate, FindImages, InsertEvent, SaveEvent, SoftDelete, InsertComment,
              ChangeRole, Abort, fileVars
<1> QED BY <1>1, <1>2, <1>3 DEF Next

ShownIn(f, es, cs) == \/ \E e \in DOMAIN es : f \in es[e].images
                      \/ \E c \in DOMAIN cs : f \in cs[c].images

LEMMA InImages ==
  ASSUME NEW f, NEW ps
  PROVE  f \in ImagesOf(ps) <=> \E p \in DOMAIN ps : f \in ps[p].images
<1>1. ASSUME f \in ImagesOf(ps)
      PROVE  \E p \in DOMAIN ps : f \in ps[p].images
  <2>1. PICK P \in {ps[p].images : p \in DOMAIN ps} : f \in P
    BY <1>1 DEF ImagesOf
  <2> QED BY <2>1
<1>2. ASSUME NEW p \in DOMAIN ps, f \in ps[p].images
      PROVE  f \in ImagesOf(ps)
  <2>1. ps[p].images \in {ps[q].images : q \in DOMAIN ps}
    OBVIOUS
  <2> QED BY <1>2, <2>1 DEF ImagesOf
<1> QED BY <1>1, <1>2

LEMMA InShown ==
  ASSUME NEW f
  PROVE  f \in Shown <=> ShownIn(f, events, comments)
BY InImages DEF Shown, ShownIn

LEMMA InShownNext ==
  ASSUME NEW f
  PROVE  f \in Shown' <=> ShownIn(f, events', comments')
<1>1. Shown' = ImagesOf(events') \cup ImagesOf(comments')
  BY DEF Shown, ImagesOf
<1> QED BY <1>1, InImages DEF ShownIn

\* What comes to be shown was among the images of a request that writes.
LEMMA NewlyShown ==
  ASSUME EventsInv, [Next]_vars, NEW f \in Shown' \ Shown
  PROVE  \E r \in Client : /\ InsertEvent(r) \/ SaveEvent(r) \/ InsertComment(r)
                           /\ f \in req[r].images
<1>0. ~ ShownIn(f, events, comments) /\ ShownIn(f, events', comments')
  BY InShown, InShownNext
<1>1. ASSUME NEW r \in Client, InsertEvent(r) PROVE f \in req[r].images
  <2>1. events \in Seq(Event) /\ comments' = comments
    BY <1>1 DEF InsertEvent, EventsInv, BoardTypeOK
  <2>2. events' = Append(events, [author |-> r, state |-> "live", images |-> req[r].images])
    BY <1>1 DEF InsertEvent
  <2>3. \A e \in DOMAIN events' : (e \in DOMAIN events /\ events'[e] = events[e])
                                    \/ events'[e].images = req[r].images
    BY <2>1, <2>2
  <2> QED BY <1>0, <2>1, <2>3 DEF ShownIn
<1>2. ASSUME NEW r \in Client, SaveEvent(r) PROVE f \in req[r].images
  <2>1. comments' = comments /\ \A e \in DOMAIN events : events[e] \in Event
    BY <1>2 DEF SaveEvent, EventsInv, BoardTypeOK
  <2>2. ASSUME NEW e \in DOMAIN events'
        PROVE  (e \in DOMAIN events /\ events'[e] = events[e]) \/ events'[e].images = req[r].images
    <3>1. CASE e = req[r].event
      BY <1>2, <2>1, <3>1, SavedRow DEF Event
    <3>2. CASE e # req[r].event
      BY <1>2, <3>2, SavedRow
    <3> QED BY <3>1, <3>2
  <2> QED BY <1>0, <2>1, <2>2 DEF ShownIn
<1>3. ASSUME NEW r \in Client, InsertComment(r) PROVE f \in req[r].images
  <2>1. comments \in Seq(Comment) /\ events' = events
    BY <1>3 DEF InsertComment, EventsInv, BoardTypeOK
  <2>2. comments' = Append(comments,
                      [event |-> req[r].event, by |-> r, images |-> req[r].images])
    BY <1>3 DEF InsertComment
  <2>3. \A c \in DOMAIN comments' : (c \in DOMAIN comments /\ comments'[c] = comments[c])
                                      \/ comments'[c].images = req[r].images
    BY <2>1, <2>2
  <2> QED BY <1>0, <2>1, <2>3 DEF ShownIn
<1>4. ASSUME NEW r \in Client, SoftDelete(r) PROVE FALSE
  BY <1>0, <1>4, RemovedRow DEF ShownIn, SoftDelete
<1>5. ASSUME UNCHANGED boardVars PROVE FALSE
  BY <1>0, <1>5 DEF boardVars
<1>6. \/ UNCHANGED boardVars
      \/ \E r \in Client : InsertEvent(r) \/ SaveEvent(r) \/ SoftDelete(r) \/ InsertComment(r)
  BY DEF Next, vars, Step, BeginCreate, BeginUpdate, BeginRemove, BeginComment, BeginOnEvent,
         Validate, FindImages, ChangeRole, Abort, FilesStep, boardVars
<1> QED BY <1>1, <1>2, <1>3, <1>4, <1>5, <1>6

\* An image comes to be shown without its row only by a removal of its path, or by a
\* request that a removal overtook.
THEOREM DeadImages == Spec => DeadImageCauses
<1> DEFINE Writes(r) == InsertEvent(r) \/ SaveEvent(r) \/ InsertComment(r)
           A == \A f \in Shown' \ rows' : f \in Shown \ rows \/
                  IF f \in rows THEN <<"url", f>> \in named'
                  ELSE \E r \in Client : "images" \in overtaken[r] /\ Writes(r)
<1>1. EventsInv /\ [Next]_vars => [A]_vars
  <2> SUFFICES ASSUME EventsInv, [Next]_vars, NEW f \in Shown' \ rows', f \notin Shown \ rows,
                      f \notin rows
               PROVE  \E r \in Client : "images" \in overtaken[r] /\ Writes(r)
    BY RowLoss
  <2>1. PICK r \in Client : Writes(r) /\ f \in req[r].images
    BY NewlyShown
  <2>2. req[r].pc = "save" /\ Current(r)
    BY <2>1 DEF InsertEvent, SaveEvent, InsertComment, EventsInv, RequestsInv
  <2>3. "images" \in overtaken[r]
    BY <2>1, <2>2 DEF Current
  <2> QED BY <2>1, <2>3
<1>2. Spec => [][A]_vars
  BY InvHolds, <1>1, PTL DEF Spec
<1> QED BY <1>2 DEF DeadImageCauses

-----------------------------------------------------------------------------
(* What the lookup of the images suffices for: what is shown can be shown *)

\* A request writes images that it found before a removal took one of them.
OvertakenWrite ==
  \E r \in Client : "images" \in overtaken[r] /\
    (InsertEvent(r) \/ SaveEvent(r) \/ InsertComment(r))

\* No removal has named the path of an image that is shown.
ShownAreUnnamed == \A f \in Shown : <<"url", f>> \notin named

\* As long as no removal names the path of an image that is shown, and no request writes
\* images looked up before a removal, every image shown has its row in table file.
THEOREM ShownImagesStay ==
  Spec /\ []ShownAreUnnamed /\ [][~OvertakenWrite]_vars => [](Shown \subseteq rows)
<1> DEFINE Stored == Shown \subseteq rows
           A == \A f \in Shown' \ rows' : f \in Shown \ rows \/
                  IF f \in rows THEN <<"url", f>> \in named'
                  ELSE \E r \in Client : "images" \in overtaken[r] /\
                         (InsertEvent(r) \/ SaveEvent(r) \/ InsertComment(r))
<1>1. Init => Stored
  BY DEF Init, Shown, ImagesOf
<1>2. ASSUME Stored, ShownAreUnnamed', [A]_vars, [~OvertakenWrite]_vars PROVE Stored'
  <2>1. CASE UNCHANGED vars
    BY <1>2, <2>1 DEF vars, fileVars, Shown, ImagesOf
  <2>2. CASE A /\ ~OvertakenWrite
    BY <1>2, <2>2 DEF OvertakenWrite, ShownAreUnnamed
  <2> QED BY <1>2, <2>1, <2>2
<1>3. Spec => [][A]_vars
  BY DeadImages DEF DeadImageCauses
<1> HIDE DEF Stored, A
<1>4. Spec /\ []ShownAreUnnamed /\ [][~OvertakenWrite]_vars => []Stored
  BY <1>1, <1>2, <1>3, PTL DEF Spec
<1> QED BY <1>4 DEF Stored
=============================================================================
