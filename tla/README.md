# A TLA+ model of the genealogy service

The repository is a NestJS back end in which families keep clans: who belongs
to a clan, the clan's money, its events and its files. Requests are handled by
`async` functions over a PostgreSQL database through TypeORM. No handler opens
a transaction or takes a lock, and hardly a table has a constraint beside its
key, so whatever a handler has read may have changed when it writes. That is
where this development looks: each request is a process that other requests may
overtake at every `await` of a database call, and each invariant says what a
request may still rely on, or names every way in which something is lost.

## The system

| Component | State | Operations | Talks to |
|---|---|---|---|
| Clan fund (`clan.controller.ts`, `collect-money.service.ts`, `pay.service.ts`) | tables `collect_money`, `pay` | create, update, soft-delete of both; `totalMoney` | membership (role of the caller), clans, users |
| Clan membership (`clan.controller.ts`, `clan.service.ts`, `member.service.ts`) | table `member` | create clan, invite, remove, change owner, update role | users, invitations, mail |
| Clans (`clan.service.ts`, `clan.entity.ts`) | table `clan` | create, update, soft-delete | files |
| Invitations (`invite-member.service.ts`) | table `invitation_member` | insert, read by token | mail |
| Authentication (`auth/auth.service.ts`) | columns `otpSecret`, `password`, `status` of `user`; the process-wide OTP options | register, OTP and password login, forgotten password, confirmation | sessions, forgot, mail |
| Sessions (`session/`, `auth/strategies/`) | table `session` | login, refresh, logout | authentication |
| Forgotten passwords (`forgot/`) | table `forgot` | request, reset | sessions, mail |
| Social login (`auth-google/` and its siblings) | none | exchange a provider's token | authentication |
| Users (`users/`) | table `user` with the ids of mother and father and copies of their names | registration by invitation, `PATCH users/:id`, deletion of one's account | auth, membership |
| Events (`event/`) | tables `event`, `event_comment` | create, update, remove; comments | membership (role, author), files |
| Files (`files/`) | table `file`, S3 objects | upload, bulk removal | S3 |
| Listings (`findManyWithPagination` of five services, `common.service.ts`) | none | lists of clans, events, collections, payments and users, page by page | the tables |
| Mail (`mail/`, `mailer/`) | none | OTP, password and invitation mails | SMTP |
| Validation, guards, configuration, seeds | none | | |

What is hard, and what would make each component right:

* **Fund.** A balance is summed by two queries and compared before a third one
  inserts. Right: a payment is only saved when the fund covers it; an update
  neither moves nor revives an entry; only managers of the clan write.
* **Membership.** Roles and rows are looked up, then written several awaits
  later; a change of owner is two saves; an invitation deletes, then inserts.
  Right: a user has at most one live row, a clan keeps an owner, owners are not
  removed, a live row is never deleted for good.
* **Authentication and sessions.** Secrets are replaced before mails are sent;
  tokens outlive sessions; the OTP options live in the process and are lost by
  a restart. Right: a code works until the next one is asked for; a session
  that was closed issues no token; a reset closes every session.
* **Events and files.** Events, roles and images are looked up one after the
  other and may be gone when the event is saved; rows and objects are changed
  without waiting for each other. Right: a removed event stays removed; an image
  shown has its row; every stored object gets its row; nothing is deleted that
  no removal named.
* **Users.** The tree is two columns without a foreign key, and the names of
  parents are copies. Right: a parent named is there, and has the name copied.
* **Listings.** Conditions replace each other when filters combine; a page is cut
  by an offset into a list that changes between two pages. Right: a list has
  the rows it is asked for, each of them once.

`PROJECT.json` lists each such hazard at its line, with the properties about it.

## Modules

| Module | Models | Used by |
|---|---|---|
| `LedgerSums` | the two money tables and the totals over them | `ClanFund` |
| `ClanFund` | every request on a fund, with roles and clans changing around it | `MCClanFund` |
| `ClanMembership` | every request on the members of a clan | `MCClanMembership` |
| `AuthSession` | every request about one account: codes, passwords, sessions, hashes | `MCAuth` |
| `AuthExpiry` | the lifetimes of codes and tokens, and restarts | `MCAuth`, `MCAuthExpiry` |
| `Files` | table `file`, the bucket, uploads and removals on their way | `Events` |
| `Board` | what events and comments promise, without requests: posts and replies with pictures | `Events` |
| `Events` | every request on the events of a clan and their comments, with `Files` and roles changing around it | `MCEvents` |
| `People` | every request that writes the family tree | `MCDirectory` |
| `Listings` | the five queries and their pages, over a table that changes | `MCDirectory` |
| `X_proofs` for `X` each of `LedgerSums`, `ClanFund`, `ClanMembership`, `AuthSession`, `AuthExpiry`, `Events` (with `Files`), `People`, `Listings` | the theorems | |

### Requests

All models of requests but `AuthExpiry` and `Listings` have a variable `req` that holds, for each client, the request it
has in flight: the operation, the database call it is suspended at (`pc`), its
inputs and the locals it still needs. An action is one database call with the
synchronous code up to the next `await`, so it has the name of the service
method called (`ValidateRoleMember`, `GetTotalPay`, `IsEmailInClan`) and its
guard, errors included, is what the handler does with the result. A handler's
single-call endpoints (`removePay`, `RemoveClan`) are one action. `Abort` ends a
request at any `await`: a query or a mail that fails, or the process stopping;
what was saved stays saved. In `ClanMembership`, `AuthSession` and `Events` the first query
is made as soon as a request arrives, and a request that it refuses changes
nothing and is no step. Error codes, bodies and descriptive columns are
abstracted; which error it is plays no part.

Auxiliary variables record which requests were overtaken; no guard reads
them. In `ClanFund`, `stale` holds the requests whose fund was written after
they had begun to sum it, and `overtaken` those whose clan or role changed
after their lookup. In `ClanMembership`, `overtaken` holds those that have
looked something up which another request has since written, and in
`AuthSession` it says for each of the three tables who was overtaken there; in
`Events` and `People` it says which of a request's lookups are out of date. A property about
requests that are in neither says what the code guarantees when it is not
overtaken; a property that names the causes of some damage says that there are
no others.

### From the code to `ClanFund`

A table is the sequence of its rows in key order: identity columns hand out
keys in order and no row is ever removed, so the row with key `i` is element
`i`. `Saved` is TypeORM's `save` of a partial entity: it looks the row up by its
id with or without `deleted_at`, and writes the given columns only; therefore an
update that found an entry live also succeeds after its removal and changes a
deleted row. `money` is `DECIMAL` in the migrations and `Number` in the entity,
which makes TypeORM turn it into an integer when it is read. An explicit `null`
passes the `optional` rule and counts as 0 in every sum, so 0 stands for it. Totals are
unbounded integers; the JavaScript numbers they stand for are exact up to 2^53.

`SummedClan` translates what `updatePay` really hands over as the clan's id: the
id of the payment. The membership endpoints appear as `ChangeManagers`, which
gives or takes a role at any time, and the paying user of a contribution may or
may not exist (`FindUser`).

### From the code to `ClanMembership`

Every query of these endpoints names the clan, so one clan is modelled; rows
carry a user, a role and whether they are live, soft-deleted or gone.
`memberService.findOne` returns *any* live row of the user, as its query has no
order; with duplicate rows the model takes each of them. A failed lookup throws,
so `if (!memberExists.data)` in `changeOwner` is never true and has no action.
`SavedRow` is `save` again, and here it matters that it inserts when there is no
row with the id: a role saved after the row was deleted for good makes a row
with neither user nor clan (`Nobody`). `isEmailInDeletedMembers` asks
`withDeleted()`, which leaves live rows in, hence `Rows` and not only deleted
ones. The table has no unique key, and neither has `invitation_member` as the
migrations create it (the entity's `unique` only counts with
`DATABASE_SYNCHRONIZE=true`, which `env-example` leaves off); `user.email` is
unique, so a second registration of an address fails.

Restrictions: accounts are not deleted meanwhile, and the ids in request bodies
are numbers. (`changeOwnerDto.userId` has no `int` rule, and a string would pass
the `===` of the refusal to give the clan to oneself.)

### From the code to `AuthSession`

One account with its sessions and hashes: `user.email` is unique, requests name
the account by its address, its id or one of its sessions, and requests about
another account touch none of its rows. Whether a person is a user or an
administrator never changes and only decides which logins are refused, so it is
left out. `Found` is the repository's `findOne`, which skips soft-deleted rows;
the eager `user` of a session or a hash is `null` then, and the handler throws.

A password stands for its plaintext as long as `bcrypt.compare` accepts one;
`Broken` is a hash nobody knows a plaintext for. It is what a social login makes
of a password: `usersService.update(user.id, user)` creates a new entity from the
columns of the one found, `previousPassword` is no column, and so
`User.setPassword` hashes the stored hash (`SavedSocial`). `user.save()` writes
every loaded column that differs from the row, not the changed ones only, so
`seen` keeps the columns as they were read and `SavedReset` puts them back.
`deletedAt` is declared `select: false`, so it is not loaded and no save revives an
account. `login` checks a one-time code and not the password, whatever
`test/user/auth.e2e-spec.ts` sends; the number of the secret stands for the code.
The strategies check a token and not the session it names, so a client may
present the token of any session ever made.

Not in the model: `confirmEmail`, as no mail with its hash is ever sent
(`MailService.userSignUp` has no caller); `DELETE users/:id`, which
`isProfileOwner` always refuses, since the controller takes `id` out of
`request.user.id`; accounts without an address, of which a second social login
by the same person may make two.

### From the code to `AuthExpiry`

`generateOTP` sets otplib's `step` to `app.ttl` for the whole process; `check`
uses whatever it is, 30 s in a process that has not made a code yet. A code is
accepted as long as its counter, the time divided by `step`, is the present one
(the default `window` is 0). Requests are atomic here and shorter names stand for
their handlers: `SendCode` for `checkEmailExists`, `LogIn` for `validateLogin`, `Refresh`
and `LogOut` for `refreshToken` and `logout`. A refresh renews the token alone
(`Renewed`): with `isRefresh` no second token is signed. Two codes made in
different windows are taken to differ: the six digits of two of them are equal
with a chance of one in a million.

### From the code to `Files` and `Events`

multer has stored all objects of `POST files/upload` before its handler runs, and
takes the others back when one of them fails; so `Upload` stores a set of objects
at once, and `SaveRow` is one turn of the loop over `filesService.uploadFile`.
`uploads` is a set of what is left of each loop. `DELETE files` starts a call of S3
with a callback and goes on to delete the rows, so `deleting` holds the objects on
their way out, and the answer is a step of its own; the callback drops the error.
The controller gives the same strings to both: S3 takes them for keys, the table
for paths. A path is a URL that ends in a key and is never one, so a removal
*names* a file by one or by the other (`Name`). The model is of the S3 driver;
the local one, which `env-example` selects, calls S3 in the same places. Keys are
random, so a file is uploaded once.

`Events` is one clan's events. Each handler looks up the event (`findOne`, which
skips removed ones), the caller's role, the images by their paths, and saves.
`Saved` is `save` of a partial entity by id: it also writes a removed event,
without bringing it back, and it always writes the images, so that a `PATCH`
without images takes them all away. The role is that of any live row of the
caller, and changes at any time (`ChangeRole`) as the requests of `ClanMembership`
do it; the author of an event who has left the clan is refused like anyone else.
Comments are never changed; those of a removed event stay in their table.

`Board` knows no requests, roles or tables: posts are put up, edited, taken down
once and for all; replies are added; pictures must have been shared first.
`TheBoard` maps events to posts by their `deleted_at` and `shared` to all files that
have, or had until a removal named them, a row.

### From the code to `People`

A row has a name, the ids of its parents (`fid`, `mid`; 0 for null) and the names
copied from them. `registerNotOtp` looks up the mother and the father and inserts;
`PATCH users/:id` looks up father and mother and saves by the id in the path, whoever
calls it; the deletion of an account looks for a child by either column and
soft-deletes. A lookup is one step, the write another. `getValueOrDefault` makes a
missing parent 0 and a missing name `'No data'`. A `PATCH` writes both copied names in
any case but only the ids its body has (`Copied`, `Update`), and `save` inserts a row
when nobody has the id; the sequence knows nothing of such a row and hands the
number out again, when the insertion fails (`RegisterFails`). Partners are arrays of
ids nothing checks, and the images of a person are read like those of an event.

Restriction: a body omits a name or gives one. A `PATCH` with an explicit `null` for a
name passes the `optional` rule, too, and is not among the bodies. It writes the column
that a body with another name writes; children saved after it would get `'No data'`.

### From the code to `Listings`

A query is the sequence of its clauses, each with the filter it depends on.
TypeORM's `where()` forgets the conditions before it, which `Conditions` translates,
and so the order of the clauses matters. Two names are wrong in the code and kept: a
parameter that is not bound (`:clanId` of `pay`) and an alias without quotes
(`collectMoney.clan_id`) make the query fail. A row is what it has to do with the
question (`Trait`): the caller's clan, a keyword in its name. `skip` and `take` cut the
answer by the place a row has in it, its `Rank`, the number of listed rows that come
before it; so a page is the set of the rows whose ranks it spans, and the order within
it is left out. A page is one step, though
TypeORM sends a query for the ids, one for the rows and one for the total; `limit` 0
is no limit, and page 0 is page 1. Between two pages rows are inserted, changed and
removed at will (`Insert`, `Edit`, `Remove`).

## Runs

| Run | Result | Question |
|---|---|---|
| `MCClanFund.cfg` | holds | What do two overlapping requests guarantee about the sums of two funds, and what can overdraw one? |
| `MCClanFundRoles.cfg` | holds | May a request still write where it writes, when roles and clans change around it? |
| `MCClanFundRace.cfg` | violated | Is every payment created covered by the fund? |
| `MCClanFundUpdatePay.cfg` | violated | Is every changed payment covered by the fund? |
| `MCClanMembership.cfg` | holds | What may a membership request rely on; what duplicates members, deletes live rows or loses the last owner? |
| `MCClanMembershipRemoval.cfg` | violated | Does `removeMember` spare owners? |
| `MCAuth.cfg` | holds | What may a request about an account rely on; how do secrets, passwords and deleted accounts change; do codes expire, and does nothing refused come back? |
| `MCAuthExpiryMail.cfg` | violated | Is a code valid for the 10 minutes its mail promises? |
| `MCAuthExpiryRefresh.cfg` | violated | Does the refresh token outlive the token, as `docs/auth.md` has it? |
| `MCAuthExpiryRenew.cfg` | violated | Does a refresh answer with a new refresh token, as `docs/auth.md` and the e2e test have it? |
| `MCEvents.cfg` | holds | What may a request on an event rely on; do events, comments and images implement the board; do rows and objects match, and uploads end? |
| `MCDirectory.cfg` | holds | How does the family tree come to name people who are not there; what do the listings list, and what do their pages miss? |

**What the fund runs show.** `UninterferedSums` and `ExactWhenAlone` are the
positive side: a `createPay` that is left alone between its first sum and its
insertion refuses exactly what the fund cannot cover, and `totalMoney` answers a
balance the fund really had. `OverdraftCauses` closes the list of the ways a fund
gets into debt: an overtaken `createPay`, any `updatePay`, a contribution lowered
or taken back. The two violations are the first two of them. In the race both
clients sum before either inserts. In `updatePay` one client is enough:
`pay.data?.id` is handed over where the clan's id is meant
(`clan.controller.ts:517`), so the check compares the totals of another clan, or
of none. `EntriesAreForever` shows that the lookups and the save by id together
never move or revive an entry. `SavesWhereAllowed` shows that the validated clan
is the clan written, and that nothing but a change during the request lets a
non-manager write.

**What the membership runs show.** `RequestsAreCurrent` lists, for every `await`,
what a request that was not overtaken still knows when it goes on: its caller's
role, the rows it will write, that an invited user has no live row.
`DuplicateCauses` and `LiveRowsAreKept` show that duplicate members and live rows
deleted for good come only from invitations that were overtaken.
`OwnerLossCauses` closes the list of ways to lose the last owner: an `updateMember`
(which checks the caller, never the target's role), a write based on rows written
since, and a removal that met another row of a user with several. The violation
is the shortest of the middle kind: a member is promoted between the check and
the removal. `UnmanagedForGood` shows what such a loss, or a creation that fails after
the clan's row, leads to: with no owner or administrator left and no request admitted
before, the members stay as they are for ever, as every endpoint but the creation asks
for a manager.

**What the authentication runs show.** `MCAuth` checks two systems that share no state:
a behaviour is one of overlapping requests or one of time (`part`). Of the requests,
`RequestsAreCurrent` says what a request
about an account still knows at each `await` when nobody else wrote the tables it
read: the code about to be mailed is the one that will be accepted, no session is
open between `resetPassword`'s two writes. `SecretsAdvance` closes the list of
ways in which codes sent before work again: two requests for a code that save their
secrets in the other order, and a `resetPassword` that was overtaken, which brings an
old secret back because it saves the whole user. (A social login saves the whole user
too, but only of an account made by one, and no such account ever has a secret.)
`DeletedStaysOut` shows that a deleted account
is never revived, and gets a session only from a login that was under way.
`PasswordCauses` lists how a working password goes away, a social login being the
one that nobody asked for. Of time, `CodesExpire` says that no code is accepted for
`app.ttl` or longer, and `RefusedCodes` shows that a restart is the only reason
for a refused code to be accepted later: an account's code that the restarted
process refuses works again as soon as anyone is sent a code.

Three runs show where the code differs from what is written about it. A code is refused
when its window of `app.ttl` ends, which is 180 s for
the 60 of `env-example` (`parseInt` with radix 30), and not the 10 minutes of the mail. The
refresh token, signed with the lifetime of the token, is refused at the same moment as
the token it is there to renew, where `docs/auth.md:137` has it sent. And by the same line
a refresh answers with a new `refreshToken`, which `test/user/auth.e2e-spec.ts:169`
expects as well: `auth.service.ts:475` leaves it undefined, so the client's refresh token
is still that of the login, and once that one has expired the session cannot be refreshed
any more.

**What the events run shows.** `IsABoard`: with requests overtaking each other at every
`await`, roles withdrawn and files removed, events and comments still do nothing the
board does not. What the board leaves open is closed by the others. `RemovedEventsStay`
lets a removed event be written, or commented on, only by a request that had found
it before. `DeadImageCauses` names the two ways in which something shows an image without a
row: a removal of its path, and a request that had looked before one. `RowsMatchObjects`
says that row and object part only over files whose upload failed or that a removal named,
and that naming a path deletes no object: `DELETE files` with the paths it asks for
removes the rows and leaves every object in the bucket. `UploadsEnd` is liveness: a stored
file comes to have its row, or its upload fails.

**What the directory run shows.** Two systems that share no state, checked in one run:
a behaviour is one of the family tree or one of the listings (`part`). Of the tree,
`RequestsAreCurrent` says that what was looked up of parents and children holds until
a row it depends on is written; `OrphanCauses` that a living person comes to name a missing
parent only by a deletion that was overtaken, or by being given one whom the lookup did
not find, or who was written since; `MisnamedCauses` lists how a copied name
goes wrong, a rename that nobody passes on being the common one. `PeopleAreKept` shows that a
number with a row is never handed to somebody else, in spite of the `PATCH` that inserts.
Of the listings, `ListingsAsAsked` says which rows a listing has, and every way in
which that is not what its filters say: payments of all clans, events and collections
of all clans as soon as there is a keyword, the caller's collections where another
user's are asked for, filters nothing reads, and the filters that make the query fail.
`NothingMissed` and `NothingTwice` say what a reader of all pages may rely on: he misses a row
only if an earlier one left, and sees one twice only if an earlier one, or the row
itself, came.

### Bounds

Two clients, each with one request in flight: every property speaks of one
request and of what *other* requests did meanwhile; one other client can make any
sequence of requests while the first is suspended. Two clans, so that the wrong
clan can be summed, checked or written, and their ids overlap those of the
entries, as both count from 1. Amounts 0 and 1, and -1 for an edited
contribution: each check compares with 0, and 0 is also the value that skips the
check of `updatePay`. One contribution and two payments are the least that
overdraw by a race; four entries of each kind would add only longer sums, and
those are covered by the proofs. In the membership runs three rows are enough
for an owner, a member and a duplicate. Invitations give ADMIN, edits give LABORER
or leave the role out: `changeOwner` and `create` make the owners. In `AuthSession` two clients and
two passwords, three secrets (the one replaced, and one from each client), three
sessions and two hashes, so that one is used while another is open. In
`AuthExpiry` steps of 1 and 3 units and tokens of 4 over 18 units: every phase of
the two steps, six windows, and a refresh at every age of a token; the three
violations use the values of `env-example` in units of 30 s. In `MCEvents` an owner
and a member who may lose his role, one event and one comment, so that the second
request meets the event the first one found; two files uploaded together, so that one
can have its row while the other waits or fails, and one of them used as an image. In
`MCDirectory` two people and a third row: each may come to be the other's parent, the
third number may be taken by a `PATCH` before a registration, and the bodies (`TheAsks`)
give and omit each parent; for the listings three rows and pages of two, the least
with a second page and a row that moves over its edge, and ten questions
(`TheQuestions`) that take every clause of the queries and every exception. In the
runs of the fund, the members and the accounts the clients are
interchangeable (`SYMMETRY`); both properties and actions treat them alike. The
runs with roles changing keep the amounts at 1.

### Deadlock and fairness

In no state does the system stop: `Abort`, new requests and removals stay
possible, and TLC checks it. The code has no retries, queues or timers, and a
suspended request may always end by an error, so there is one thing only that must
happen: the loop of `uploadFile` goes on from one saved row to the next. `FairSpec` of
`Events` assumes weak fairness of `SaveRow`, which is the next turn of a loop
that waits for nothing but its own query; nothing is assumed of callers, of S3 or of
failures. `UploadsEnd` follows, and would not if the loop left a file out.

## Proofs

Proved for every set of clients, clans, amounts and number of rows, from the
assumptions on the constants in each module only:

* `LedgerSums_proofs`: the total after an append (`TotalAppend`) and after a
  replacement (`TotalExcept`). `SumTo` is a recursive function; its recurrence is
  proved without the induction theorems, from the well-foundedness of sets of
  naturals (`NatSetInduction`), as partial sums that exist and agree.
* `ClanFund_proofs`: every property of the passing fund runs: `TypeCorrect`,
  `EntriesStayKnown` (`RequestsKnowTheirEntries`), `SumsStayCurrent`
  (`UninterferedSums`), and the action properties `EntriesStay` (`EntriesAreForever`),
  `ChecksAreExact` (`ExactWhenAlone`), `OverdraftsAreExplained` (`OverdraftCauses`)
  and `SavesAreAllowed` (`SavesWhereAllowed`). Conditional: `FundsStayInCredit`.
* `ClanMembership_proofs`: every property of the run that passes: `TypeCorrect`,
  `RequestsStayCurrent` (`RequestsAreCurrent`), `DuplicatesAreExplained` (`DuplicateCauses`),
  `LiveRowsStay` (`LiveRowsAreKept`), `OwnerLossIsExplained` (`OwnerLossCauses`),
  `WritesAreAllowed` (`WritesWhereAllowed`) and `UnmanagedClansStay` (`UnmanagedForGood`).
  Conditional: `MembersStayUnique` and `OwnersRemain`.
* `AuthSession_proofs`: every property of `AuthSession`: `TypeCorrect`, `RequestsStayCurrent`
  (`RequestsAreCurrent`), `SecretsDoAdvance` (`SecretsAdvance`), `DeletedAccountsStayOut`
  (`DeletedStaysOut`) and `PasswordsAreAskedFor` (`PasswordCauses`). Conditional:
  `ReplacedSecretsStayDead`.
* `AuthExpiry_proofs`: every property of `AuthExpiry` in the run that passes: `TypeCorrect`
  (`ExpiryTypeOK`), `CodesDoExpire` (`CodesExpire`) and `RefusedCodesStay` (`RefusedCodes`).
* `Events_proofs`: every property of its run but the liveness: `TypeCorrect`, `FilesMatch`
  (`RowsMatchObjects`), `RequestsCurrent` (`RequestsAreCurrent`), `RemovedStay`
  (`RemovedEventsStay`), `DeadImages` (`DeadImageCauses`), and the refinement
  `EventsAreABoard` (`IsABoard`). Conditional: `ShownImagesStay`.
* `People_proofs`: every property of the family tree: `TypeCorrect`, `RequestsStayCurrent`
  (`RequestsAreCurrent`), `OrphansAreExplained` (`OrphanCauses`), `MisnamedAreExplained`
  (`MisnamedCauses`) and `PeopleStay` (`PeopleAreKept`). Conditional: `ParentsStay`.
* `Listings_proofs`: every property of the listings: `TypeCorrect` (`ListingsTypeOK`),
  `AnswersAsAsked` (`ListingsAsAsked`), `NothingIsMissed` (`NothingMissed`) and
  `NothingIsReadTwice` (`NothingTwice`), for every question, any rows and pages of any
  length.

Many properties of the runs name the causes of a damage. The conditional theorems turn
them round, and say what a careful team would want to rely on: without those causes the
damage never occurs. Each is of the form `Spec /\ [][~Cause]_vars => ...`, and its `Cause`
is an action of the model, which may happen in any step but has not in the behaviours
the theorem speaks of:

| Theorem | As long as | it always holds that |
|---|---|---|
| `FundsStayInCredit` | no payment is saved on sums another request has changed, none is raised, no contribution is lowered or taken back (`Unchecked`) | no fund is in debt |
| `MembersStayUnique` | no invitation adds a member after another request has written that member's rows (`OvertakenInvitation`) | nobody is a member twice |
| `OwnersRemain` | besides, `updateMember` is not called and no other write is overtaken (`Disowning`) | a clan that has an owner keeps one |
| `ReplacedSecretsStayDead` | no request for a code and no reset of a password writes the account on top of another's write (`OvertakenWrite`) | a secret that was replaced never comes back, nor do the codes made with it |
| `ParentsStay` | no deletion is overtaken, and nobody is saved with a parent who was not found or was written since (`Uncovered`) | every parent named is a live person |
| `ShownImagesStay` | no removal names an image that is shown, and none comes between the lookup of an image and the write of it (`OvertakenWrite`) | every image shown has its row |

Each tells what a fix has to achieve: with a transaction or a lock around lookup and
write nothing is overtaken any more, and what is left of the condition is what the
code does not check at all.

`UninterferedSums` is not inductive. Its argument: a total taken by a request
stays equal to the fund's because every write to that fund puts the request in
`stale` (`Summing`), and writes to other funds leave the total alone (`SumsDiffer`
and the two ledger lemmas). For that one has to know which fund a write goes to,
which is `RequestsKnowTheirEntries`: the row an update is about to save exists and
belongs to the clan the request validated. So the inductive invariant is
`FundInv == TypeOK /\ RequestsKnowTheirEntries`, and `UninterferedSums` is proved on
top of it. The first two action properties of the balance follow from both and
the two ledger lemmas: a step changes the balance of one clan only, by the money
of the row it writes. `SavesWhereAllowed` has an invariant of its own,
`LookupsCurrent`: what a request that was not overtaken has looked up of the clan
and its role still holds. `TypeOK` alone is not inductive either: that a saved row is still a
`Row` needs the id to be in the table and the money to be an integer. 
In `ClanMembership_proofs` the invariant `MemberInv` has three parts. `TypeInv` says which
requests hold ids of rows and at which `await` they are. `Holds` says what every request
knows whoever overtakes it: that the row it is about to write exists and belongs to its
target or, after a deletion for good, to nobody. `Current` is `RequestsAreCurrent`, which
is inductive only on top of the other two, since whom a write overtakes is decided by the
user of the row it writes. The action properties are then read off each kind of write: a
second live row needs an invitation that found none, and the last owner goes by a
row that is written, which a request that was not overtaken knows. One more invariant,
`BeforeOwner`, is needed for the first owner: until the clan's creator is inserted
nobody else has a request in flight there. `OwnersRemain` rests on `MembersStayUnique`,
since a removal may meet an owner's second row. `UnmanagedForGood` is a statement about
each step alone: every action is a lookup that refuses, or needs a caller that was checked.

`RequestsAreCurrent` of `AuthSession` is inductive on top of an invariant that says
what a request holds at each `await` whoever writes meanwhile (`RequestOK`), that no
secret is newer than the newest, and that nothing but the making of an account runs
before it exists (`SessionInv`). A step has to be looked at for the request that takes
it only: every other request that relies on a table written is overtaken
(`StepCurrent`). `SecretsAdvance` needs two more invariants, that a secret about to be
saved is newer than the one saved (`NewSecrets`), and that an account made by a social
login has none and no request brings it one (`NoSocialSecrets`). In `AuthExpiry_proofs` everything
comes from three lemmas about windows of time: a window's bounds, that later moments
are in later windows, and that a code made by one step is never the code of the other
one, unless the two are the same. For that `TimeAssumption` says that the clock is far
from zero (it counts from 1970): the numbers of all windows of one step during a run are
beyond those of the other. `app.ttl` may be longer than otplib's step, as in `env-example`,
shorter or equal.

`EventsInv` has the files' part (`FilesInv`: the files of two uploads are different,
and objects on their way out were there), the types, and for every request what it
holds for good (`Knows`: its event is one of the table, its images are or were shared)
and what it holds while it is not overtaken (`Current`). That images were shared is
what the refinement needs: `shared` of the board is never taken back, because a
removal that takes a row puts its path in `named`. Then each action is a step of the
board or leaves it as it is, the files' steps sharing one file at most.

`TypeOK` of `People` holds because a registration in flight has a number of the sequence
left: `TypeInv` counts them (`next + Cardinality(InFlight("register")) <= MaxPeople + 1`), by
the library's theorems on finite sets. `RequestsAreCurrent` is inductive on top of it:
a write that changes what a lookup would find puts the lookup in `overtaken`
(`WriteKeeps`). The three action properties look at the row a step writes
(`StepWrites`: one at most) as the child, as the parent, or as neither.

For `Listings` the conditions that are left of each query are computed once
(`ClanConditions` and its siblings, from `ConditionsAfter`, which has the rule for
`where()`); the rest of `AnswersAsAsked` is logic, on the invariant `ReaderInv`, that no
question fails after it was answered.

`NothingMissed` and `NothingTwice` speak of a reader at the end, and are inductive only
with what holds on the way (`PagesInv`). While he reads, a row he has not met is not
before the next page, unless a row before it left (`StillAhead`); a row he has met is
before it, unless that row or one before it came (`StaysBehind`). A change of the table
keeps both, as it moves a rank only by rows it notes in `came` or `left`. A page keeps
the first one because nothing between two ranks is skipped, and ends the reading only
when no listed row is behind it: a page that a listed row comes after is full
(`PageIsFull`). That is a count of its rows, for which one needs to know that the ranks of the
listed rows have no gaps (`RanksAreDense`: the row at place `n` is the one of least rank
among those with `n` rows or more before them) and differ (`RanksDiffer`).

Only model-checked: `UploadsEnd`, as liveness is out of the prover's reach. The six
properties of the runs that are violated are false, and so not to be proved.

## What could come next

* A purse that only takes and gives what it has, as an abstract specification that
  `ClanFund` implements in the behaviours `FundsStayInCredit` speaks of.
* The composition of `ClanMembership` with the models that let roles change at will
  (`ChangeManagers`, `ChangeRole`): it would admit fewer behaviours and is not needed for
  the properties stated, which hold for any changes of roles.
* Pages read in the three queries TypeORM sends, and the total a page reports.

## Not modelled

* Descriptive columns of clans, users and events, and the images of clans and
  persons, which nothing reads back; the partners of a person, ids nothing checks.
* Which invitation a mail names: `MailService.inviteEmail` leaves the hash out, and
  `readUuidInvite` only reads. Mail templates and i18n are text.
* Of an account, what is named under `AuthSession`: `confirmEmail` and `DELETE users/:id`
  can never succeed, and social login is modelled for accounts with an address only.
* The file driver for local disks, and `GET files/:path`, which only reads.
* Of `common.service.ts`, the filter builders, the sheet of the business plan and the tag
  relations, which have no caller in this API.
* Validation decorators and guards are declarative; what they admit is what the inputs
  range over. Configuration, seeds and migrations run once; the tables the migrations
  create are the initial states.
