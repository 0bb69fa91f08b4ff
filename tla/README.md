# Verification of gwiteem-be

TLA+ models of the gwiteem backend (FastAPI handlers, SQLAlchemy on PostgreSQL,
Redis), model-checked with TLC, with theorems checked by TLAPS. Paths below are
relative to the repository; `app/` is the service, `scripts/` its offline tools.

## 1. The system: parts, state, interaction

| Part | State it keeps | Operations | Source | Module |
|---|---|---|---|---|
| Votes | `choice_votes`: one row per question and account or guest | vote or change a vote, merge a guest's votes into an account | `choice_service.py`, `choice_repo.py`, `models/choice.py` | `Votes`, `VoteLedger`, `VoteOverlaps` |
| Accounts | `users`: unique by (provider, provider_id), e-mail and nickname; e-mail codes and markers in Redis | send and confirm a code, register, social callback, rename, withdraw | `auth_service.py`, `user_service.py`, `user_repo.py` | `Accounts` |
| Sessions and passwords | Redis: refresh sessions, reset codes, markers, each with a TTL; the password hash in `users` | login, refresh, logout, send and confirm a reset code, reset, withdraw | `auth_service.py`, `routers/auth.py`, `security.py` | `Sessions` |
| Comments | `choice_comments`, `choice_replies`, `choice_comment_likes` | create, reply, edit, delete, like, unlike, list | `comment_service.py`, `comment_repo.py`, `models/comment.py` | `Comments` |
| Feed | none of its own: clients hold opaque cursors | page through questions, one's votes, one's likes, a question's comments | `choice_service._question_page`, `choice_repo.list_questions`, `comment_repo.list_comments` | `Feed` |
| Sample data | the same tables | `bootstrap_database`, `refresh_sample_data`, preview or `--apply` | `scripts/` | `SampleData` (partly) |
| Question likes | `choice_likes`, unique per question and user | like, unlike, count | `choice_service.set_like` | `Questions`; as rows of a listing in `Feed` |
| Question detail | none: counts and percentages are computed | `get_question`, answer to a vote | `choice_service._build_detail` | `Questions` |
| Seed scripts | votes and comments of the test users | seed, each under its own advisory lock | `scripts/seed_choice_*.py` | not modelled |
| NAS installation | the deployed runtime's files, the previous ones, the transferred ones | swap files, restore on failure or signal | `scripts/install-nas-build.sh` | `InstallBuild` |
| Migrations | the schema and its revision | upgrade, downgrade, each with its data migrations | `app/db/migrations/` | `Migrations` |
| Database session, authentication, guest cookie | none | open and roll back a session, resolve a token | `core/deps.py`, `db/session.py` | inside every request module |
| OAuth and SES clients, logging, configuration, schemas | none | I/O and formatting | `external/`, `core/`, `schemas/` | external calls that may fail, or left out |

Every HTTP request runs one handler with one database session. Handlers never
call each other: they meet in the tables (at READ COMMITTED, each statement sees
what is committed when it starts), in row locks, unique indexes and foreign
keys, and in Redis keys, which change one command at a time and may expire.
Nothing is held between requests. What is hard is therefore: a value read by one
statement and used by a later one; a check made when the request arrives and
relied on at the commit; two handlers waiting for each other's rows; a handler
that dies, or a connection that is lost, between two stores (PostgreSQL and
Redis share no transaction); pages of a listing whose rows move between
requests; and scripts that change the tables while the API serves.

What makes each part correct:

* Votes: one vote per participant and question; no vote lost except by a
  merge that keeps the account's own answer; option and reason of a ballot
  belong to its question and to each other; votes of a withdrawn account go.
* Accounts: keys unique whoever races; an address is proved before a local
  account takes it, a proof is spent once; renames and withdrawals are final.
* Sessions: a revoked session never works again; a reset or withdrawal ends the
  account's sessions; a password changes only by a code sent to the address.
* Comments: nothing outlives what it refers to; only owners change posts; a
  like is idempotent; requests that wait for each other still end.
* Feed: a row that keeps its place is listed exactly once, cursors advance, a
  walk ends.
* Sample data: what people wrote is kept, generated comments match the votes
  they speak of and do not pile up.
* Question likes and detail: however one user's likes overlap, each answer was
  true at some moment since the request came; the parts of a detail, read at
  different moments, never break it, and agree when no vote changed.
* Migrations: a revision means the same schema by whatever way it was reached;
  a command loses nothing of what people wrote; it is refused only where it must.
* NAS installation: the old build or the new one, whole; where that cannot be
  promised, the old files still exist, and the marker never names half a build.

## 2. Modules and how they correspond to the code

In `Votes`, `Accounts`, `Sessions` and `Comments` the constant `Requests` is
the set of HTTP requests of a behaviour. `pc[r]` is where the handler of `r` is
(between two `await`s), `req[r]` what the client sent, `mem[r]` the handler's
local variables, `answer[r]` the class of the response. An action of a handler
is the code between two awaits, up to and including the statement it waits for.
`Raise` is an exception that leaves the handler: `get_db` closes the session and
the transaction is rolled back. `Die` is a lost connection or process.

* **Votes**: `vote` is the committed table, `draft` the table with every open
  transaction's writes, `dirty[r]` the rows `r` has written and locks. A write
  waits for the row's holder and for open transactions with the same unique key;
  a commit publishes; `BreakDeadlock` is PostgreSQL's deadlock detector. The
  actions follow `vote` (lookup, insert or change, commit, refresh) and
  `migrate_guest_votes` (list the guest's votes, list the account's, then
  delete or move each row) and `withdraw_user`.
* **VoteLedger**: the abstract specification. Members and their ballots as one
  function; a vote, a merge and a withdrawal are each a single step.
  `Votes!ActsAsLedger` is the refinement, with the table read as that function.
  It takes whole ballots and does not say whose: two votes at once may leave a
  mixture (section 6).
* **VoteOverlaps**: `Votes` with one history variable, `rivals[r]`: the votes
  whose commits changed the row of `r` between its lookup and its answer. With it
  `BallotStoredAsSent` says what a client may rely on when votes overlap.
* **Sessions**: accounts by e-mail with the password (or `Social`), the Redis
  session keys as pairs of account and token id, codes and markers. The scan a
  reset and a withdrawal make is `StartScan`, one `DeleteKey` per key seen, and
  `EndScan`: keys set while it runs may be missed, as SCAN allows. `Expire` may
  take any key at any time.
* **Accounts**: rows of `users`, the row each transaction has locked or
  inserted, and the unique keys of both. Registration reads the nickname, the
  address and the marker in separate statements before it inserts; the callback
  looks up the identity, the address, then tries nicknames.
* **Comments**: the three tables as `post` and `likes`, `locks[r]` the rows a
  transaction holds. `LockComment` and `LockReply` are the `FOR UPDATE` reads; a
  removal locks the row, then the rows its cascade takes one at a time
  (`LockDoomed`), then commits (`CommitRemoval`). Listing is four statements.
* **Feed**: one client's walk. `Fetch` is the query of a page with the cursor
  check, `Answer` the second statement and the response, `Change` whatever moves
  or hides a row. Search texts and categories are part of what `Visible` says.
* **SampleData**: one transaction of a script as steps between its statements,
  over the comments, replies and comment likes and the demo accounts' votes;
  the API's comment operations are single steps here (`Comments` has their
  insides). A text is the option its template mentions, `Stock` for a generated
  reply or `Own`.
* **Questions**: one question's `likes`, and its votes as the state of
  `VoteLedger`: `VotesChange` and `UserWithdraws` take that module's steps, so
  the details are read over exactly what `Votes` is shown to implement.
  `LookForLike`, then `InsertLike` or `DeleteLike`, then `CountLikes` is
  `set_like`; `ReadVote` to `BuildResult` are the statements of `get_question`
  and `_build_detail`, with the percentages in tenths. `Plans` says which
  requests run together. Two variables only record: `seen[r]`, how the question
  stood for the user of `r` since it came, and `moved[r]`, whose votes changed
  since `r` read its own.
* **Migrations**: `db` is what is committed, `work` what the transaction of the
  running `alembic` command sees, `goal` its revision. A schema is a set of
  objects (tables and the parts of them some revision touches), a revision the
  lists of what its statements make and drop (`R_<id>`, `up` and `down`), and
  `Apply` what PostgreSQL refuses, `After` a revision's operations one after the
  other. `StepUp` and `StepDown` run one revision,
  rows included (`TopUpCatalogue`, `AssignAuthors`, `RenameDuplicates` and others);
  `Commit` publishes. Between commands people sign up, vote and withdraw, and
  the operator publishes.
* **InstallBuild**: three trees (`dest`, `runtime`, `previous`), the script's
  variables `installed` and `saved`, and its place in the loop. Each shell
  command is an action; any may fail (`CommandFails`, trapped), a `Signal` falls
  between any two, and `Killed` ends the script without its trap. `trouble` is
  what makes the restore inexact: a move not yet noted, a move it could not make.

Composition. `VoteLedger` joins `Votes`, which implements it, and `Questions`,
which runs on top of it. The other request modules each contain the handlers
that share their tables and keys, with withdrawal in every one, since its
cascade reaches all tables.

Abstracted everywhere: contents and names are model values; token signing and
hashing are the session or the password they stand for; times are left out,
except in the order `Feed` sorts by; a TTL is `Expire`.

## 3. Runs

| Run | What it shows |
|---|---|
| `votes_mix` | Two votes, one merge that may lose its connection and a withdrawal, of an account and a guest over four earlier tables: one vote each, owners that exist, no lost choice, a merge that did what its count says, refinement of the ledger; and a client told that its vote is recorded finds what it sent, or what a vote committed meanwhile sent. |
| `votes_merges` | Two merges of one guest, into one or two accounts, a vote and a withdrawal that may lose its connection, on a table whose rows the merges write in different orders: they do wait for each other, and every request is answered. |
| `questions` | Three requests to like and unlike, of one or two users, or one detail, among votes, merges and withdrawals: likes granted as asked, details that add up. |
| `sessions_mix` | A reset with its code against a withdrawal, and a refresh, a logout, a withdrawal and a login, on two accounts and two devices. |
| `accounts_mix` | A sign-up with its code against a first social login; two renamings, a social login and a withdrawal, among neighbours that hold the keys wanted. |
| `feed_walk` | A walk through four kinds of listing, pages of one or two rows, all 64 tables of three rows over four contents, rows changing at any point. |
| `comments_mix` | Two requests of any kind about a thread of two users, one of which may die, and withdrawals of either. |
| `sample_refresh` | Two runs of either script, preview or applied, aborted anywhere, with two requests of a user and of a demo account that has a password. |
| `migrations` | Three commands up and down between seven revisions from an old or a bootstrapped database, with two acts of people or the operator in between, before or after the cutoff of the author migration. |
| `install` | Two transfers, one on top of the other, each failing, signalled, cut off or through, on an empty or a full directory. |
| `votes_double_merge`, `sessions_late_login` | The findings of section 6: each checks one promise of the documentation and is violated. |

Bounds and why they suffice. A hazard here is an order of statements of two or
three handlers, so each run has two to four requests in flight (`Mixes` chooses
which) and the smallest tables on which they collide: one account, or two where
rows are moved between them; two questions where one order of rows must differ
from another; two options and two reasons so that a mixture can be told from
either. In `votes_mix` one participant sends both votes or two do, with the
merge making one row of theirs; the earlier tables are empty, with a guest's votes on two
questions, with the account's vote, and with an answer of both. The two votes
are symmetric. In `votes_merges` one option is enough, as who waits for whom does
not depend on what a ballot says. `MaxTry = 4` candidates let a name be found, taken and tried again; the
code's loop over suffixes has no limit, but fewer accounts exist than candidates. `Feed` has
three rows because a page of one, a cursor and a row behind it are three.
`SampleData` has `MaxRuns = 2` (one to generate, one to refresh; a third reads
the same kind of rows), `MaxId = 3` posts (a generated comment, a reply, and a
new comment or reply), `MaxAdded = 1` and `MaxRequests = 2`; the options are
symmetric, as no definition tells them apart. `Questions` has three requests
for likes because two of one kind and one of the other is what makes an insert
fail or a delete miss; votes are there only while a detail can read them
(`VotesMatter`), and two users, a guest, two options and two reasons are three
votes: `Rounded` could meet a tie only from sixteen on. Users, options and
reasons are symmetric. `Migrations` has `Targets` on either side of each
revision that can be refused or that writes rows, `MaxCommands = 3` (there,
back, there again), `MaxActs = 2`, a catalogue of two titles of which one is
there already, two test users, `Quota = 3` instead of ten, and one category for
four. `InstallBuild` has two directories and two files, the marker last, as
moving onto a directory and replacing a file differ; a third transfer would
find what a second one finds.

Deadlock is checked in every run. The only rests are `Terminating`, `AllDone`,
`Finished` and `AllTransferred`: no more requests, commands or transfers are to
come.

Every property of a passing run comes with a mutant of the code (named operators
marked "Mutant" beside the definition they change) under which TLC finds the
property violated in the same run.

## 4. Fairness

`WF_vars(Serve(r))`: the event loop goes on with a handler whose awaited call
has returned, and PostgreSQL answers, grants a free lock and, after
`deadlock_timeout`, fails one transaction of a cycle. Clients need not send
anything, and failures, expiry and rows that change are not fair. `Feed` assumes
that the client asks for the next page. `SampleData`, `Questions`, `Migrations`
and `InstallBuild` have no liveness property: nothing there waits for another,
and an operator need not go on.
No strong fairness is assumed: a wait for a lock could starve under weak
fairness only if other requests took it for ever, and a behaviour has finitely
many requests.

## 5. Proofs

For all values of the constants that satisfy the named assumptions:

* `VotesProofs`: `TypeCorrect`, `OneVote`, `NoOrphanVotes`. Uniqueness of the
  committed table is not inductive: a commit publishes rows that were compared
  when written. `IsolationInv` adds that locks are exclusive, that committed and
  draft rows differ only on locked rows, that the draft table is unique too, and
  that what a transaction has written clashes with no committed row it leaves
  alone (`WritesFit`): so it may commit before or after any other. `OwnerInv`
  says of the draft table too that no row belongs to an account that is gone.
  `MergeReportsWhatItMoved`, `NoChoiceLost` and `RefinesLedger` are about a merge,
  which decides row by row from two reads. `HandlersInv` says what rows it was
  offered and what it writes, `MergesInv` that a vote of the guest it has not
  dealt with is on one of its two lists, and on the one that fits the account's
  answers (`FairlySplit`). That is false when two merges of one guest overlap, as
  the run `votes_double_merge` shows of the code, so these three are stated of
  behaviours in which none do: `Spec /\ []NoRivalMerges => ...`. Any number of
  votes, withdrawals and merges of other guests may overlap, and the same guest
  may be merged again later. For the refinement, `LedgerInit` maps the initial
  tables; then every commit is one step of the ledger (`VoteIsCast`,
  `MergeIsOne`, `WithdrawalIsOne`) and every other step none. The mapping reads
  the table as a function from question and participant to a ballot, which
  `OneVote` makes well defined. `BallotIsOfItsSenders` has no such condition:
  votes on one row overlap freely. Since two changes mix column by column, its
  invariant (`BallotsInv`) follows each column: in a vote's row it is the one
  loaded or a rival's until the vote writes, in what it has written its own or the
  one committed below (`Overlays`), and after its commit its own or a rival's. What
  it leaves alone is the value it sent, unless a rival has changed it, because an
  UPDATE leaves out exactly the columns that equal the loaded ones.
  Assumed: requests and stored rows are finite and disjoint, accounts and guests
  are disjoint, null is none of the values, and the initial tables satisfy the
  table's constraints (`IdsAssumption`, `QuestionsAssumption`,
  `RequestsAssumption`, `HistoriesAssumption`).
* `FeedProofs`: `TypeCorrect`, `ListedOnce`, `CursorsAdvance`, for any set of
  items, any order of publication, page sizes and filters. `SteadyInv` says
  where each steady row stands: listed once or on the page exactly if it is
  visible and the cursor has passed it. The lemmas show that `Before` is a
  strict order; `ListedOnce` rests on that and on a page being the first rows of
  what is left.
* `CommentsProofs`: `TypeCorrect`, `NeverOrphaned`, `OwnersOnly`,
  `LikesIdempotent`, `OnlyWithdrawalsBreak`. `IntegrityInv` adds to the types
  that locks are exclusive, that a handler which has checked a row still holds it
  and that the row is still the one it checked (`Claims`), and that row ids not
  yet used are fresh. A cascade commits only when it holds all that refers to
  what it deletes, so no insert can have slipped in. `LikeInv` says that what
  `set_like` found is still so at its commit, which the lock on the comment
  ensures, and that only a comment that existed was ever liked. `CalmInv` says
  that while nobody withdraws a request locks its comment first and then only rows
  below it (`Holding`): so a request that holds a row waits for nobody
  (`HolderDoesNotWait`), no cycle of waits exists, accounts stay for the listings
  that read them in separate statements, and no insert is refused.
* `QuestionsProofs`: `QuestionsTypeCorrect`, `LikesGranted`, `DetailAddsUp`, for
  any number of users, requests and plans. `LikeInv` says what a request may rely
  on between its statements: how the question stands now is among what it has
  seen, and the row an unlike has found is still the user's, or the user was
  without a like since. Row ids are fresh and a user has one row, so a user whose
  row was not found when deleted stands unliked. `DetailInv` follows a detail from
  statement to statement: until the caller's ballot moves it is the one that was
  read and is among the counts, and until any ballot moves the options' counts
  are those of the votes there are, so that the reasons counted next have the
  same sum. The sums themselves are folds of the community modules; `Sigma`
  relates them to sums one element at a time, by induction over the finite
  subsets of the index set (a set of the subsets for which a claim holds, and a
  minimal one outside it). Each rounded share is off by at most half a unit
  (`RoundedError`), so their sum by half a unit each (`PercentagesAddUp`).
  Assumed: `QuestionAssumption`, `PlansAssumption`.
* `DeploymentProofs`, of `InstallBuild`: `InstallTypeCorrect`, `InstallSwapSafe`,
  for any number of entries, directories and transfers. `LoopInv` says of each
  entry how far the script is with it, `ExactInv` that without trouble the two
  lists are exact while they are undone, `Kept` that an old file is in its place,
  inside its successor or in `previous`; `Older` and `Fresh` tell builds apart, so
  the marker of a transfer was put there by that transfer.
* `DeploymentProofs`, of `Migrations`: `PeopleStay`, for any people, catalogue,
  test users, quota and number of commands and acts. `UpMoves` and `DownMoves` go
  through what each revision does to the rows. All but one leave people's rows
  alone whatever the database holds; the downgrade of the catalogue takes the
  votes on what it deletes, and no others. A vote must then have been on the
  catalogue when the command began, so the invariant adds that on the way down no
  question joins the catalogue (`SeedsFrom`). `CommandInv` adds that a running command
  lies between where it began and its goal and has taken nothing so far of what it must keep
  (`Taken`); this needs the way to be straight, as a database that goes below
  revision 12 does lose votes. `After` is a recursive function, and `RunExists`
  shows by induction over the operations that it is defined.
* `SchemaIsOfRevision` and `CommandsStopOnlyHere`, for the same values, and
  `DowngradesUndoUpgrades`. The invariant is `Versioned`: a schema is one of two
  of its revision, the one an old database has there (`SchemaAt`) or, from
  `4528840cd462` on, the one a database made from the models has (`ModelAt`). It
  is stronger than `SchemaOfRevision`, which takes PostgreSQL's names for the
  revisions' own: the next revision asks for constraints by name, so what it
  does is not determined by what the names mean. The schemas are written out
  (`Schema1` to `Schema20`, `Model15` to `Model20`) from the parts that come and
  go together, and of each revision a lemma (`Revision1` to `Revision13`,
  `Revision15`, `LaterSchemas`, `LaterModels`) says that its statements, in their
  order, make the next schema of the one before, and back. PostgreSQL refuses a
  statement that drops what is not there, makes what is there, or refers to a
  table that is not; so each lemma needs that parts named differently or on other
  tables are disjoint (`Named`, `On`), and that the schemas are `Fitting`: every
  object is on a table, and every foreign key has its target. `UpTheHistory`,
  `DownTheHistory` and `AlongTheModels` join them. What remains of
  `StopsOnlyHere` is that the rows stop an upgrade only where it says so
  (`StopsUpOnly`) and a downgrade nowhere (`DownMoves`).
* `MigrationsTypeCorrect` and `CatalogueStaysOnce`, for the same values. `Fits`
  says of the rows what each revision asks: before the revision that adds a table
  or column there is nothing in it, from then on a row's id is its own and below
  the next, votes and authors refer to rows that are there, and the
  catalogue's questions are there, and have authors, only from the revisions on
  that do so (`SeedsFit`). Upgrades and downgrades are taken one by one
  (`UpFits`, `DownFits`). The two that give out ids or turns in an order need
  `Place`, the number of indices up to one in a finite set, which different
  members of the set do not share; without that two catalogue questions could get
  one id, or a question no author. `Good` adds that nicknames are unique whenever
  the schema has a key of them: from `4528840cd462` on, under one of two names
  (`NicknamesUnique`). So a key that is there after any other step was there
  before, and every step of the rows leaves different nicknames different.
  `CatalogueStaysOnce` is the part of `SchemaOfRevision` about rows. Assumed by
  the theorems of `Migrations`: `AccountsAssumption`, `TargetsAssumption`, `QuotaAssumption`,
  `CatalogueAssumption` (the lists of test users and titles name each once, the
  first questions are finitely many).
* `AccountsProofs`: `AccountsTypeCorrect`, `UniqueKeys`, `AnswersStayTrue`,
  `AddressesProved`. `TableInv` says that a locked row is there and has one
  holder, and a row to be inserted is not there yet (`HeldInv`); that whatever
  is committed next fits what is committed and what is written (`DraftsFit`),
  the same idea as in `VotesProofs`, over three keys; and that an account that
  exists or has existed is never inserted again and changes by a renaming alone,
  which locks it (`PromiseInv`). `EvidenceInv` follows a proof of an address:
  stored codes were sent, stored markers were set by who entered one, a sign-up
  goes on only with the marker it found. Assumed: `AccountsAssumption`,
  `OldUsersAssumption` (the initial table satisfies its constraints) and
  `IdentitiesAssumption` (a provider's identity is no address).
* `SessionsProofs`: `SessionsTypeCorrect`, `SessionsRevoked`, `NothingReturns`,
  `ChangesProved`. A login stores its session once, before it is answered, so a
  session that was ended stays ended. `SweepInv` says that what is left of the
  sessions a sweep was given is still among those it has to delete, `LocalInv`
  that a reset writes only accounts that had a password or are gone, `ProofInv`
  the same of codes and markers as in `AccountsProofs`. Assumed:
  `SessionsAssumption`.
* `SampleProofs`: `SampleTypeCorrect`, `GeneratedCommentsMatch`,
  `KnownActivityStays`, for any number of accounts, questions, rows and runs. A
  run decides from three reads and writes later, while requests go on. `PlanInv`
  and `FoundInv` say what is still true of what it read (ids are not used again,
  a committed row keeps its text), `LockedInv` that it has locked nothing a user
  had written before it, `LiveInv` that its rows fit together and fit those it
  leaves alone, `KeepInv` how far it is with the comments it keeps. At the end
  every generated comment is one it wrote. Assumed: `SampleAssumption`.

Only model-checked: liveness and the resolution of deadlocks, which need
fairness.

## 6. Where the code and its documentation differ

With a run:

1. `votes_double_merge`: two concurrent merges of one guest into one account.
   The second lists the guest's votes before, and the account's after, the
   first one's commit; the moved row is in both lists and is deleted as a
   duplicate of itself (`choice_service.py:245`).
2. `sessions_late_login`: a login that checked the old password before a reset,
   or the account before a withdrawal, stores its session after the scan and
   survives it (`auth_service.py:308`).

Seen while modelling, in the models, with no run of their own:

* Two concurrent changes of one vote are written column by column, each column
  only if it differs from what was loaded, so one's option and the other's reason
  may remain, a pair nobody sent (`choice_service.py:221`). `BallotStoredAsSent`
  is what a client may still rely on: its own value, or that of a vote on the row
  committed meanwhile, column by column.
* The downgrade of `6108ff5d4fe3`, which says (line 136) that it removes the
  questions it added and their reasons, deletes the votes of people and guests on
  them too. The key of a vote's question cascades (`9830cbc3c7c6`, line 60); the
  RESTRICT of its reason does not stop that, as PostgreSQL checks it after both
  cascades. `PeopleKept` allows exactly these votes to go.
* Two sign-ups or first social logins at once: the loser's INSERT is flushed
  outside the `try` that answers such races with a conflict, so it gets a 500
  (`auth_service.py:180`, `273`). `KeysUnique` is what holds.
* A reply or like committed between the refresh's reads and its delete goes with
  the deleted comment (`refresh_sample_data.py:111`); `SeenActivityKept` says
  that nothing written before a run began is lost.
* Two likes of one user at once may answer one with a 500 from the unique key
  (`choice_service.py:298`); `LikesAsAsked` says the question is liked then.
* Migrations: the downgrades of `7968d1b7732e` and `698d4567056f` always fail;
  a bootstrapped database goes down to `4528840cd462` only, whose
  constraint has another name there; `fce3f83af5da` is refused when a person has
  a test user's nickname or address, `947cff0bfa96` when no test user is left.
* A signal between a move and the assignment that notes it leaves that entry out
  of the restore of `install-nas-build.sh` (`trouble = "unnoted"`); `NothingLost`
  still holds.

## 7. Not modelled

* The seed scripts. They are run by hand, preview unless told to apply, and only
  add the test users' votes, comments and replies, once, each in one transaction
  of the kind `SampleData` models; their advisory locks (one each, and none the
  API takes) are listed as a hazard.
* The access log, configuration, the error envelope, response wording, mail and
  OAuth wire formats: no state another part reads.
* Packaging (`package-nas-build.py`) and the workflow: one pass of commands
  before `InstallBuild` begins; a failure there ends the transfer untouched.
* The preferences endpoints raise `NotImplementedError`.
* `SampleData` leaves out times, question likes, the accounts' names and the
  backup file; that guests' votes drop out of `user_id NOT IN` is listed as a
  hazard for that reason. If the text drawn for a kept comment is the one it
  has, no UPDATE is sent, so a comment deleted meanwhile is not noticed there;
  the model ends such a run in every case.
* `Migrations` leaves out column types no revision changes, `env.py`'s offline
  mode, likes and comments (no revision writes them), and lengths of names.
* `Questions` commits a like in the step that writes it, and reads the comment
  count, which nothing depends on, not at all.

## 8. Running

`tlc -config VotesMix.cfg MCVoteOverlaps.tla` and likewise for each `.cfg` with its
`MC` module (`PROJECT.json` lists the pairs); `tlapm VotesProofs.tla` and
likewise for `FeedProofs`, `CommentsProofs`, `QuestionsProofs`,
`DeploymentProofs`, `AccountsProofs`, `SessionsProofs` and `SampleProofs`.
