------------------------------- MODULE Events -------------------------------
(***************************************************************************)
(* The events of one clan and their comments: EventController, EventService *)
(* and EventCommentService, with the images they take from table file.      *)
(* A request is a process cut at the awaits of its database calls.  It      *)
(* looks up the event, then the caller's role, then the images, and writes  *)
(* at the end whatever has become of them since.                            *)
(***************************************************************************)
EXTENDS Files, Naturals, Sequences

CONSTANTS
  Client,      \* accounts calling the API, each with at most one request in flight
  FirstRole,   \* the role each client has in the clan in the beginning
  Roles,       \* bound: roles a client may come to have; "none": not a member
  MaxEvents,   \* bound: events ever created
  MaxComments  \* bound: comments ever created

ASSUME RolesAssumption ==
  /\ Roles \subseteq {"OWNER", "ADMIN", "LABORER", "none"}
  /\ FirstRole \in [Client -> {"OWNER", "ADMIN", "LABORER", "none"}]
ASSUME BoundsAssumption == MaxEvents \in Nat /\ MaxComments \in Nat

VARIABLES
  role,        \* the caller's live row in table member; see ClanMembership
  events,      \* table event of the clan; a row's index is its id
  comments,    \* table event_comment
  req,         \* the request each client has in flight
  overtaken    \* auxiliary: what each request has looked up that has changed since

boardVars == <<events, comments>>

vars == <<fileVars, role, events, comments, req, overtaken>>

Role == {"OWNER", "ADMIN", "LABORER", "none"}

\* "soft": deleted_at is set.
Event == [author : Client, state : {"live", "soft"}, images : SUBSET File]

Comment == [event : Nat \ {0}, by : Client, images : SUBSET File]

Op == {"none", "create", "update", "remove", "createEventComment"}

\* The await a request is suspended at.
PC == {"idle", "validate", "findImages", "save"}

\* asked: the files the body names; images: those found in table file.
Request == [op : Op, pc : PC, event : Nat, asked : SUBSET File, images : SUBSET File]

Begun(op, pc, e, F) == [op |-> op, pc |-> pc, event |-> e, asked |-> F, images |-> {}]

Idle == Begun("none", "idle", 0, {})

TypeOK ==
  /\ FilesTypeOK
  /\ role \in [Client -> Role]
  /\ events \in Seq(Event)
  /\ comments \in Seq(Comment)
  /\ \A c \in DOMAIN comments : comments[c].event \in DOMAIN events
  /\ req \in [Client -> Request]
  /\ overtaken \in [Client -> SUBSET {"event", "role", "images"}]

Init ==
  /\ FilesInit
  /\ role = FirstRole
  /\ events = <<>>
  /\ comments = <<>>
  /\ req = [r \in Client |-> Idle]
  /\ overtaken = [r \in Client |-> {}]

-----------------------------------------------------------------------------
(* Lookups *)

Finish(r) ==
  /\ req' = [req EXCEPT ![r] = Idle]
  /\ overtaken' = [overtaken EXCEPT ![r] = {}]

Continue(r, q) ==
  /\ req' = [req EXCEPT ![r] = q]
  /\ UNCHANGED overtaken

\* isNotEmptyField(image): an empty list is not looked up, and writes no images.
AfterValidate(op, F) == IF op = "remove" \/ F = {} THEN "save" ELSE "findImages"

InFlight(op) == {r \in Client : req[r].op = op}

\* POST event: validateMember of the caller, made as the request arrives.
BeginCreate(r) == \E F \in SUBSET Answered :
  /\ req[r].pc = "idle" /\ role[r] # "none"
  /\ Len(events) + Cardinality(InFlight("create")) < MaxEvents
  /\ Continue(r, Begun("create", AfterValidate("create", F), 0, F))
  /\ UNCHANGED <<fileVars, role, boardVars>>

\* Faulty: any row with the id is found.
FoundWithDeleted(event) == TRUE

\* findOne({ id }) skips a row with deleted_at set, and throws.
Found(event) == event.state = "live"

BeginOnEvent(r, op, e, F) ==
  /\ req[r].pc = "idle" /\ Found(events[e])
  /\ Continue(r, Begun(op, "validate", e, F))
  /\ UNCHANGED <<fileVars, role, boardVars>>

\* PATCH event/:id, DELETE event/:id, POST event/comment
BeginUpdate(r) == \E e \in DOMAIN events, F \in SUBSET Answered :
  BeginOnEvent(r, "update", e, F)

BeginRemove(r) == \E e \in DOMAIN events : BeginOnEvent(r, "remove", e, {})

BeginComment(r) == \E e \in DOMAIN events, F \in SUBSET Answered :
  /\ Len(comments) + Cardinality(InFlight("createEventComment")) < MaxComments
  /\ BeginOnEvent(r, "createEventComment", e, F)

\* validateMember for a comment; validateRoleOwnerOrCreatedBy for the rest, where
\* the lookup of the member throws too: an author who has left may do nothing.
May(r, q) ==
  /\ role[r] # "none"
  /\ q.op \in {"update", "remove"} => role[r] = "OWNER" \/ events[q.event].author = r

Validate(r) ==
  /\ req[r].pc = "validate"
  /\ IF May(r, req[r])
     THEN Continue(r, [req[r] EXCEPT !.pc = AfterValidate(req[r].op, req[r].asked)])
     ELSE Finish(r)
  /\ UNCHANGED <<fileVars, role, boardVars>>

\* Faulty: the paths are written as they are given.
FindAll(F) == F

\* filesService.findAllByPath: the paths that are no row's are left out.
FindAllByPath(F) == F \cap rows

FindImages(r) ==
  /\ req[r].pc = "findImages"
  /\ Continue(r, [req[r] EXCEPT !.pc = "save", !.images = FindAllByPath(req[r].asked)])
  /\ UNCHANGED <<fileVars, role, boardVars>>

-----------------------------------------------------------------------------
(* Writes *)

\* eventService.create
InsertEvent(r) ==
  /\ req[r].pc = "save" /\ req[r].op = "create"
  /\ events' = Append(events, [author |-> r, state |-> "live", images |-> req[r].images])
  /\ Finish(r)
  /\ UNCHANGED <<fileVars, role, comments>>

\* Faulty: what is not given is lost; the row is written whole.
SavedGivenOnly(event, r, images) == [images |-> images]
SavedWhole(event, r, images) == [author |-> r, state |-> "live", images |-> images]

\* save({ id, ...payload }) finds the row by id, deleted_at or not, and writes what
\* is given; the images always are, and none if the body names none.
Saved(event, r, images) == [event EXCEPT !.images = images]

SaveEvent(r) ==
  /\ req[r].pc = "save" /\ req[r].op = "update"
  /\ events' = [events EXCEPT ![req[r].event] = Saved(@, r, req[r].images)]
  /\ Finish(r)
  /\ UNCHANGED <<fileVars, role, comments>>

\* softDelete(id); whoever else has found the event is overtaken.
SoftDelete(r) ==
  /\ req[r].pc = "save" /\ req[r].op = "remove"
  /\ events' = [events EXCEPT ![req[r].event].state = "soft"]
  /\ req' = [req EXCEPT ![r] = Idle]
  /\ overtaken' = [q \in Client |->
                     IF q = r THEN {}
                     ELSE IF req[q].event = req[r].event THEN overtaken[q] \cup {"event"}
                     ELSE overtaken[q]]
  /\ UNCHANGED <<fileVars, role, comments>>

\* eventCommentService.create
InsertComment(r) ==
  /\ req[r].pc = "save" /\ req[r].op = "createEventComment"
  /\ comments' = Append(comments,
                        [event |-> req[r].event, by |-> r, images |-> req[r].images])
  /\ Finish(r)
  /\ UNCHANGED <<fileVars, role, events>>

-----------------------------------------------------------------------------

\* The client's row in table member is changed, by requests of ClanMembership.
ChangeRole(r) == \E new \in Roles \ {role[r]} :
  /\ role' = [role EXCEPT ![r] = new]
  /\ overtaken' = [overtaken EXCEPT ![r] =
                     IF req[r].pc \in {"findImages", "save"} THEN @ \cup {"role"} ELSE @]
  /\ UNCHANGED <<fileVars, boardVars, req>>

\* Table file and S3; a removal overtakes who has found a row it takes.
FilesStep ==
  /\ FilesNext
  /\ overtaken' = [r \in Client |->
                     IF req[r].images \subseteq rows' THEN overtaken[r]
                     ELSE overtaken[r] \cup {"images"}]
  /\ UNCHANGED <<role, boardVars, req>>

\* A database call fails, or the process stops.
Abort(r) ==
  /\ req[r].pc # "idle"
  /\ Finish(r)
  /\ UNCHANGED <<fileVars, role, boardVars>>

Step(r) ==
  \/ BeginCreate(r) \/ BeginUpdate(r) \/ BeginRemove(r) \/ BeginComment(r)
  \/ Validate(r) \/ FindImages(r)
  \/ InsertEvent(r) \/ SaveEvent(r) \/ SoftDelete(r) \/ InsertComment(r)
  \/ ChangeRole(r) \/ Abort(r)

Next == (\E r \in Client : Step(r)) \/ FilesStep

Spec == Init /\ [][Next]_vars

\* The loop of an upload goes on when the row before is saved.  Nothing is assumed of
\* the callers, of S3, or of failures.
FairSpec == Spec /\ WF_vars(FilesStep /\ \E F \in uploads : \E f \in F : SaveRow(F, f))
-----------------------------------------------------------------------------
(* Properties *)

\* What a request that is past its checks relies on, as far as nothing it looked up
\* has changed since: the event it writes is live, its caller may write it, and
\* the images it writes are the rows of those it was asked for.
RequestsAreCurrent == \A r \in Client : LET q == req[r] IN
  /\ q.op \in {"update", "remove", "createEventComment"} /\ "event" \notin overtaken[r]
       => events[q.event].state = "live"
  /\ q.pc \in {"findImages", "save"} /\ "role" \notin overtaken[r] => May(r, q)
  /\ q.pc = "save" /\ "images" \notin overtaken[r] => q.images = q.asked \cap rows

\* Files shown by an event or a comment.
ImagesOf(table) == UNION {table[i].images : i \in DOMAIN table}

Shown == ImagesOf(events) \cup ImagesOf(comments)

\* An image comes to be shown without a row in table file only when a removal takes
\* its row, naming its path, or when a request writes what it found before one did.
DeadImageCauses ==
  [][\A f \in Shown' \ rows' : f \in Shown \ rows \/
       IF f \in rows THEN <<"url", f>> \in named'
       ELSE \E r \in Client : "images" \in overtaken[r] /\
              (InsertEvent(r) \/ SaveEvent(r) \/ InsertComment(r))]_vars

\* An event that was removed stays so: nothing is written to it, nor a comment added,
\* but by a request that found it before.
RemovedEventsStay ==
  [][/\ \A e \in DOMAIN events : events[e].state = "soft" =>
          /\ events'[e].state = "soft"
          /\ events'[e] # events[e] =>
               \E r \in Client : SaveEvent(r) /\ "event" \in overtaken[r]
     /\ \A r \in Client : InsertComment(r) /\ events[req[r].event].state = "soft" =>
          "event" \in overtaken[r]]_vars

\* Every file that is stored comes to have its row, unless its upload fails.
UploadsEnd == \A f \in File : f \in Uploading ~> f \in rows \cup lost

UpOrDown(event) == IF event.state = "live" THEN "up" ELSE "down"

\* Events and comments are a board as Board promises it.
TheBoard == INSTANCE Board WITH
  Author  <- Client,
  Picture <- File,
  posts   <- [e \in DOMAIN events |->
                [author |-> events[e].author, state |-> UpOrDown(events[e]),
                 pictures |-> events[e].images]],
  replies <- [c \in DOMAIN comments |->
                [to |-> comments[c].event, by |-> comments[c].by,
                 pictures |-> comments[c].images]],
  shared  <- rows \cup PathsOf(named)

\* TheBoard!Spec, under a name of this module.
IsABoard == TheBoard!Spec
=============================================================================
