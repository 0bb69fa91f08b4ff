----------------------------- MODULE Migrations -----------------------------
(***************************************************************************)
(* The Alembic history, app/db/migrations/versions: the schema each of its *)
(* twenty revisions makes and unmakes, and what the revisions that also    *)
(* write rows do to questions, votes and accounts.                         *)
(*                                                                         *)
(* A command (alembic upgrade or downgrade) goes revision by revision in   *)
(* one transaction; PostgreSQL rolls back DDL as well, so a command that   *)
(* fails or is cut off leaves nothing behind.  Between commands people     *)
(* sign up, vote and withdraw, and the operator publishes questions.       *)
(***************************************************************************)
EXTENDS Integers, Sequences, FiniteSets, SequencesExt

CONSTANTS
    People, Guests,   \* accounts of people; guest session ids
    TestUsers,        \* fce3f83af5da's accounts, a sequence in the order of their emails
    Demo,             \* the account bootstrap_database.py makes the authors of
    Nobody,           \* NULL
    FirstTitles,      \* the titles of 9830cbc3c7c6
    Catalogue,        \* the titles of 6108ff5d4fe3, a sequence
    Names,            \* the nicknames people choose
    Titles,           \* the titles of questions the operator publishes
    Quota,            \* active questions a category is filled up to (10)
    Targets,          \* the revisions commands are given
    Idle,             \* no command is running
    MaxActs, MaxCommands

VARIABLES
    db,        \* what is committed: revision, schema and rows
    work,      \* what the running command's transaction sees, or Idle
    goal,      \* the revision the command is to reach
    today,     \* whether the cutoff of 947cff0bfa96 has passed
    acts, commands

migrationVars == <<db, work, goal, today, acts, commands>>

Tests == {TestUsers[i] : i \in DOMAIN TestUsers}
Accounts == People \cup Tests \cup {Demo}

ASSUME QuotaAssumption == Quota \in Nat /\ MaxActs \in Nat /\ MaxCommands \in Nat
ASSUME AccountsAssumption ==
    /\ People \cap Tests = {} /\ Demo \notin People \cup Tests
    /\ Guests \cap Accounts = {} /\ Nobody \notin Accounts \cup Guests
ASSUME CatalogueAssumption ==
    /\ TestUsers \in Seq(Tests) /\ IsInjective(TestUsers)
    /\ Catalogue \in Seq({Catalogue[i] : i \in DOMAIN Catalogue}) /\ IsInjective(Catalogue)
    /\ IsFiniteSet(FirstTitles)

----------------------------------------------------------------------------
(* Schemas.  A schema is a set of objects: a table, or a part of one that  *)
(* some revision touches (a column, an index, a constraint), or a foreign  *)
(* key.  A column or key that changes carries its type in its name.        *)

Parts(t, names) == {[of |-> t, name |-> n, to |-> ""] : n \in names}
Key(t, n, target) == {[of |-> t, name |-> n, to |-> target]}
Table(t) == Parts(t, {t})
TablesIn(s) == {o.of : o \in {x \in s : x.name = x.of}}

Failed == {}
Replace(old, new) == [tables |-> {}, drop |-> old, add |-> new]
Create(objects) == Replace({}, objects)
Drop(objects) == Replace(objects, {})
DropTable(t) == [tables |-> {t}, drop |-> {}, add |-> {}]
\* A type PostgreSQL does not know.
Unknown == Replace({}, Parts("", {"unknown type"}))

\* PostgreSQL refuses to drop what is not there, to create what is, to create
\* something on a missing table and to leave a foreign key without its target.
Apply(s, op) ==
    LET rest == {o \in s : o.of \notin op.tables} \ op.drop
        made == rest \cup op.add
        tables == TablesIn(made)
    IN IF /\ s # Failed
          /\ op.drop \subseteq s /\ op.tables \subseteq TablesIn(s) /\ op.add \cap rest = {}
          /\ \A o \in made : o.of \in tables /\ (o.to = "" \/ o.to \in tables)
       THEN made ELSE Failed

\* The operations of a revision, one after the other.
After(s, ops) ==
    LET after[i \in 0..Len(ops)] == IF i = 0 THEN s ELSE Apply(after[i - 1], ops[i])
    IN after[Len(ops)]

PartsOf(byTable) == UNION {Parts(t, byTable[t]) : t \in DOMAIN byTable}

\* The service before the history: tables the first revision alters.
LegacyNames ==
    [daily_briefings |-> {"top_issue_ids_jsonb", "daily_briefings_briefing_date_time_slot_key",
                          "idx_daily_briefings_date"},
     guest_interests |-> {"idx_guest_interests_session_token"},
     interest_embeddings |-> {"embedding_jsonb",
                              "interest_embeddings_owner_type_owner_ref_id_keyword_key"},
     issue_clusters |-> {"related_stock_codes_jsonb", "idx_issue_clusters_active_date",
                         "idx_issue_clusters_category"},
     news_embeddings |-> {"embedding_jsonb", "news_embeddings_article_id_key"},
     schedules |-> {"idx_schedules_date"},
     shared_briefings |-> {"idx_shared_briefings_token", "shared_briefings_share_token_key"},
     stocks |-> {"idx_stocks_name", "stocks_code_key"},
     user_briefings |-> {"matched_issue_ids_jsonb", "idx_user_briefings_date",
                         "user_briefings_user_id_briefing_date_time_slot_key"},
     user_interests |-> {"user_interests_user_id_type_value_key"},
     users |-> {"users_provider_provider_id_key"}]

LegacySchema ==
    PartsOf(LegacyNames)
    \cup (UNION {Table(t) : t \in DOMAIN LegacyNames \cup {"raw_articles", "commute_routes", "commute_queries"}})
    \cup Parts("raw_articles", {"raw_articles_url_key"}) \cup Parts("users", {"users_email_key"})
    \cup Key("issue_clusters", "fk_issue_clusters_centroid", "news_embeddings")
    \cup Key("raw_articles", "raw_articles_cluster_id_fkey", "issue_clusters")
    \cup Key("news_embeddings", "news_embeddings_article_id_fkey", "raw_articles")
    \cup Key("user_briefings", "user_briefings_user_id_fkey", "users")
    \cup Key("shared_briefings", "shared_briefings_created_by_user_id_fkey", "users")
    \cup Key("user_interests", "user_interests_user_id_fkey", "users")
    \cup Key("commute_queries", "commute_queries_user_id_fkey", "users")
    \cup Key("commute_routes", "commute_routes_user_id_fkey", "users")
    \cup Key("schedules", "schedules_user_id_fkey", "users")

\* What autogenerate made of the legacy indexes, constraints and types.
RenamedNames ==
    [daily_briefings |-> {"top_issue_ids_json", "ix_daily_briefings_briefing_date"},
     guest_interests |-> {"ix_guest_interests_session_token"},
     interest_embeddings |-> {"embedding_json"},
     issue_clusters |-> {"related_stock_codes_json"},
     news_embeddings |-> {"embedding_json"},
     schedules |-> {"ix_schedules_schedule_date"},
     shared_briefings |-> {"ix_shared_briefings_share_token"},
     stocks |-> {"ix_stocks_code", "ix_stocks_name"},
     user_briefings |-> {"matched_issue_ids_json", "ix_user_briefings_briefing_date"}]

R_a395b8e042c1 ==
    [up |-> <<Replace(PartsOf(LegacyNames), PartsOf(RenamedNames))>>,
     down |-> <<Replace(PartsOf(RenamedNames), PartsOf(LegacyNames))>>]

R_b32f1a2c1781 ==
    [up |-> <<Create(Parts("users", {"password_hash"}))>>,
     down |-> <<Drop(Parts("users", {"password_hash"}))>>]

ProviderKeys ==
    Parts("user_interests", {"uq_user_interests_user_id_type_value"})
    \cup Parts("users", {"uq_users_provider_provider_id"})

R_1dd57a123049 == [up |-> <<Create(ProviderKeys)>>, down |-> <<Drop(ProviderKeys)>>]

JsonLists == PartsOf([daily_briefings |-> {"top_issue_ids_json"}, user_briefings |-> {"matched_issue_ids_json"},
                      issue_clusters |-> {"related_stock_codes_json"}])
ArrayLists == PartsOf([daily_briefings |-> {"top_issue_ids_array"}, user_briefings |-> {"matched_issue_ids_array"},
                       issue_clusters |-> {"related_stock_codes_array"}])

R_503b754c8b0b ==
    [up |-> <<Replace(JsonLists, ArrayLists)>>,
     down |-> <<Replace(ArrayLists, JsonLists)>>]

WeatherFavorites ==
    Table("weather_favorites") \cup Key("weather_favorites", "weather_favorites_user_id_fkey", "users")

R_7f3a9c2e5b1d == [up |-> <<Create(WeatherFavorites)>>, down |-> <<DropTable("weather_favorites")>>]

CommuteFavorites ==
    Table("commute_favorites") \cup Key("commute_favorites", "commute_favorites_user_id_fkey", "users")

R_2a6d8e1f4c93 == [up |-> <<Create(CommuteFavorites)>>, down |-> <<DropTable("commute_favorites")>>]

\* The downgrade asks for a DATETIME column, which PostgreSQL does not have.
R_7968d1b7732e == [up |-> <<DropTable("weather_favorites")>>, down |-> <<Unknown>>]

\* The downgrade makes each of three tables that refer to one another in a
\* circle with its foreign key, so the first one has no target.
R_698d4567056f ==
    [up |-> << Drop(Parts("daily_briefings", {"ix_daily_briefings_briefing_date"})),
               DropTable("daily_briefings"),
               Drop(Parts("shared_briefings", {"ix_shared_briefings_share_token"})),
               DropTable("shared_briefings"),
               Drop(Key("issue_clusters", "fk_issue_clusters_centroid", "news_embeddings")),
               Drop(Key("raw_articles", "raw_articles_cluster_id_fkey", "issue_clusters")),
               DropTable("news_embeddings"), DropTable("raw_articles"),
               DropTable("issue_clusters"), DropTable("interest_embeddings"),
               Drop(Parts("user_briefings", {"ix_user_briefings_briefing_date"})),
               DropTable("user_briefings") >>,
     down |-> << Create(Table("user_briefings") \cup Parts("user_briefings", {"matched_issue_ids_array"})
                        \cup Key("user_briefings", "user_briefings_user_id_fkey", "users")),
                 Create(Parts("user_briefings", {"ix_user_briefings_briefing_date"})),
                 Create(Table("interest_embeddings") \cup Parts("interest_embeddings", {"embedding_json"})),
                 Create(Table("raw_articles") \cup Parts("raw_articles", {"raw_articles_url_key"})
                        \cup Key("raw_articles", "raw_articles_cluster_id_fkey", "issue_clusters")),
                 Create(Table("issue_clusters") \cup Parts("issue_clusters", {"related_stock_codes_array"})
                        \cup Key("issue_clusters", "fk_issue_clusters_centroid", "news_embeddings")),
                 Create(Table("news_embeddings") \cup Parts("news_embeddings", {"embedding_json"})
                        \cup Key("news_embeddings", "news_embeddings_article_id_fkey", "raw_articles")),
                 Create(Table("shared_briefings") \cup Parts("shared_briefings", {"ix_shared_briefings_share_token"})
                        \cup Key("shared_briefings", "shared_briefings_created_by_user_id_fkey", "users")),
                 Create(Table("daily_briefings") \cup Parts("daily_briefings",
                            {"top_issue_ids_array", "ix_daily_briefings_briefing_date"})) >>]

QuestionTable ==
    Table("choice_questions")
    \cup Parts("choice_questions", {"ix_choice_questions_category", "ix_choice_questions_is_active",
                                    "ix_choice_questions_is_daily", "ix_choice_questions_published_at"})
ReasonTable ==
    Table("choice_reasons") \cup Parts("choice_reasons", {"ix_choice_reasons_question_id"})
    \cup Key("choice_reasons", "choice_reasons_question_id_fkey", "choice_questions")
VoteIndexes ==
    Parts("choice_votes", {"ix_choice_votes_guest_session_id", "ix_choice_votes_question_id",
                           "ix_choice_votes_user_id", "uq_choice_votes_question_guest",
                           "uq_choice_votes_question_user"})
\* Three parts that change, named by what changes of them.
ReasonKey(onDelete) == Key("choice_votes", onDelete, "choice_reasons")
ReasonId(null) == Parts("choice_votes", {null})
VoteOptions(options) == Parts("choice_votes", {options})
VoteTable ==
    Table("choice_votes") \cup Parts("choice_votes", {"ck_choice_votes_participant"})
    \cup Key("choice_votes", "choice_votes_question_id_fkey", "choice_questions")
    \cup Key("choice_votes", "choice_votes_user_id_fkey", "users")

R_9830cbc3c7c6 ==
    [up |-> << Create(QuestionTable), Create(ReasonTable),
               Create(VoteTable \cup ReasonKey("SET NULL") \cup ReasonId("NULL") \cup VoteOptions("AB")),
               Create(VoteIndexes) >>,
     down |-> << Drop(VoteIndexes), DropTable("choice_votes"),
                 Drop(Parts("choice_reasons", {"ix_choice_reasons_question_id"})), DropTable("choice_reasons"),
                 Drop(QuestionTable \ Table("choice_questions")), DropTable("choice_questions") >>]

\* What is left of the old service, table by table.
UserInterests ==
    Table("user_interests") \cup Parts("user_interests", {"uq_user_interests_user_id_type_value"})
    \cup Key("user_interests", "user_interests_user_id_fkey", "users")
CommuteQueries == Table("commute_queries") \cup Key("commute_queries", "commute_queries_user_id_fkey", "users")
Stocks == Table("stocks") \cup Parts("stocks", {"ix_stocks_name", "ix_stocks_code"})
GuestInterests == Table("guest_interests") \cup Parts("guest_interests", {"ix_guest_interests_session_token"})
Schedules ==
    Table("schedules") \cup Parts("schedules", {"ix_schedules_schedule_date"})
    \cup Key("schedules", "schedules_user_id_fkey", "users")
CommuteRoutes == Table("commute_routes") \cup Key("commute_routes", "commute_routes_user_id_fkey", "users")

R_12badf3b9d7e ==
    [up |-> << DropTable("commute_routes"),
               Drop(Parts("schedules", {"ix_schedules_schedule_date"})), DropTable("schedules"),
               Drop(Parts("guest_interests", {"ix_guest_interests_session_token"})),
               DropTable("guest_interests"), DropTable("commute_favorites"),
               Drop(Parts("stocks", {"ix_stocks_code", "ix_stocks_name"})), DropTable("stocks"),
               DropTable("commute_queries"), DropTable("user_interests") >>,
     down |-> << Create(UserInterests), Create(CommuteQueries), Create(Stocks),
                 Create(CommuteFavorites), Create(GuestInterests), Create(Schedules),
                 Create(CommuteRoutes) >>]

R_e0d9472e53f0 ==
    [up |-> << Replace(ReasonId("NULL"), ReasonId("NOT NULL")),
               Replace(ReasonKey("SET NULL"), ReasonKey("RESTRICT")) >>,
     down |-> << Replace(ReasonKey("RESTRICT"), ReasonKey("SET NULL")),
                 Replace(ReasonId("NOT NULL"), ReasonId("NULL")) >>]

ExtraOptions == Parts("choice_questions", {"option_c", "option_d"})
OptionOrder == Parts("choice_questions", {"ck_choice_questions_option_order"})

R_175b07ee1691 ==
    [up |-> << Create(ExtraOptions), Create(OptionOrder),
               Replace(VoteOptions("AB"), VoteOptions("ABCD")) >>,
     down |-> << Replace(VoteOptions("ABCD"), VoteOptions("AB")),
                 Drop(OptionOrder), Drop(ExtraOptions) >>]

AuthorId == Parts("choice_questions", {"author_id"})
AuthorIndex == Parts("choice_questions", {"ix_choice_questions_author_id"})
AuthorKey(name) == Key("choice_questions", name, "users")

R_0bee734e8685 ==
    [up |-> << Create(AuthorId), Create(AuthorIndex),
               Create(AuthorKey("fk_choice_questions_author_id_users")) >>,
     down |-> << Drop(AuthorKey("fk_choice_questions_author_id_users")),
                 Drop(AuthorIndex), Drop(AuthorId) >>]

\* 6108ff5d4fe3, fce3f83af5da and 947cff0bfa96 write rows only.
RowsOnly == [up |-> <<>>, down |-> <<>>]

R_4528840cd462 ==
    [up |-> <<Create(Parts("users", {"uq_users_nickname"}))>>,
     down |-> <<Drop(Parts("users", {"uq_users_nickname"}))>>]

LikeTable ==
    Table("choice_likes") \cup Parts("choice_likes", {"uq_choice_likes_question_user"})
    \cup Key("choice_likes", "choice_likes_question_id_fkey", "choice_questions")
    \cup Key("choice_likes", "choice_likes_user_id_fkey", "users")
LikeIndexes == Parts("choice_likes", {"ix_choice_likes_question_id", "ix_choice_likes_user_id"})

R_dae844e0f9d2 ==
    [up |-> <<Create(LikeTable), Create(LikeIndexes)>>,
     down |-> <<Drop(LikeIndexes), DropTable("choice_likes")>>]

CommentTable ==
    Table("choice_comments") \cup Parts("choice_comments", {"ck_choice_comments_content"})
    \cup Key("choice_comments", "choice_comments_question_id_fkey", "choice_questions")
    \cup Key("choice_comments", "choice_comments_user_id_fkey", "users")
CommentIndexes == Parts("choice_comments", {"ix_choice_comments_question_id_id", "ix_choice_comments_user_id"})
CommentLikeTable ==
    Table("choice_comment_likes") \cup Parts("choice_comment_likes", {"uq_choice_comment_likes_comment_user"})
    \cup Key("choice_comment_likes", "choice_comment_likes_comment_id_fkey", "choice_comments")
    \cup Key("choice_comment_likes", "choice_comment_likes_user_id_fkey", "users")
CommentLikeIndexes == Parts("choice_comment_likes", {"ix_choice_comment_likes_user_id"})

\* Mutant: the tables are dropped in the order they were made in.
CommentsDroppedFirst ==
    [up |-> << Create(CommentTable), Create(CommentIndexes),
               Create(CommentLikeTable), Create(CommentLikeIndexes) >>,
     down |-> << Drop(CommentIndexes), DropTable("choice_comments"),
                 Drop(CommentLikeIndexes), DropTable("choice_comment_likes") >>]

R_1c159ec384dd ==
    [up |-> << Create(CommentTable), Create(CommentIndexes),
               Create(CommentLikeTable), Create(CommentLikeIndexes) >>,
     down |-> << Drop(CommentLikeIndexes), DropTable("choice_comment_likes"),
                 Drop(CommentIndexes), DropTable("choice_comments") >>]

ReplyTable ==
    Table("choice_replies") \cup Parts("choice_replies", {"ck_choice_replies_content"})
    \cup Key("choice_replies", "choice_replies_comment_id_fkey", "choice_comments")
    \cup Key("choice_replies", "choice_replies_user_id_fkey", "users")
ReplyIndexes == Parts("choice_replies", {"ix_choice_replies_comment_id_id", "ix_choice_replies_user_id"})

R_87af8eca06fd ==
    [up |-> <<Create(ReplyTable), Create(ReplyIndexes)>>,
     down |-> <<Drop(ReplyIndexes), DropTable("choice_replies")>>]

Revisions ==
    << R_a395b8e042c1, R_b32f1a2c1781, R_1dd57a123049, R_503b754c8b0b, R_7f3a9c2e5b1d,
       R_2a6d8e1f4c93, R_7968d1b7732e, R_698d4567056f, R_9830cbc3c7c6, R_12badf3b9d7e,
       R_e0d9472e53f0, R_175b07ee1691, R_0bee734e8685, RowsOnly, R_4528840cd462,
       RowsOnly, R_dae844e0f9d2, RowsOnly, R_1c159ec384dd, R_87af8eca06fd >>
HeadRevision == Len(Revisions)

\* The revisions the rows and the properties refer to.
FirstQuestions == 9
ReasonsRequired == 11
FourOptions == 12
Authors == 13
SeedCatalogue == 14
UniqueNicknames == 15
SeedUsers == 16
SeedAuthors == 18

ASSUME TargetsAssumption == Targets \subseteq 0..HeadRevision

\* create_all on an empty database: the models, whose unnamed constraints get
\* PostgreSQL's own names.
UserModel ==
    Table("users") \cup Parts("users", {"password_hash", "uq_users_provider_provider_id",
                                        "users_email_key", "users_nickname_key"})
QuestionModel ==
    QuestionTable \cup AuthorIndex
    \cup AuthorId \cup ExtraOptions \cup OptionOrder \cup AuthorKey("choice_questions_author_id_fkey")
VoteModel ==
    VoteTable \cup VoteIndexes \cup ReasonKey("RESTRICT") \cup ReasonId("NOT NULL") \cup VoteOptions("ABCD")
CommentModel ==
    CommentTable \cup CommentIndexes \cup CommentLikeTable \cup CommentLikeIndexes
    \cup ReplyTable \cup ReplyIndexes
ModelSchema ==
    UserModel \cup QuestionModel \cup ReasonTable \cup VoteModel
    \cup LikeTable \cup LikeIndexes \cup CommentModel

----------------------------------------------------------------------------
(* Rows.  One category stands for the four: 6108ff5d4fe3 treats each by    *)
(* itself.                                                                 *)

Plain(name) == [name |-> name, of |-> 0]
\* "__gwiteem_user_" and the id of the user.
Fallback(u) == [name |-> Nobody, of |-> u.id]
User(id, account, name) == [id |-> id, account |-> account, nick |-> Plain(name)]
Question(id, title, author, options, created) ==
    [id |-> id, title |-> title, author |-> author, options |-> options, created |-> created]

NextId(rows) == 1 + Max({0} \cup {r.id : r \in rows})
AccountsIn(d) == {u.account : u \in d.users}
\* The test users there are, by their number in the order of the emails.
TestUsersIn(d) == {i \in DOMAIN TestUsers : TestUsers[i] \in AccountsIn(d)}
\* The place of number i when those of S are in order.
Place(i, S) == Cardinality({j \in S : j <= i})
\* Created up to the cutoff of 947cff0bfa96; "seed" is SEED_TIMESTAMP.
ByCutoff(q) == q.created \in {"early", "seed"}
Seeds(d) == {q \in d.questions : q.created = "seed"}
VotesOn(d, Q) == {v \in d.votes : \E q \in Q : v.question = q.id}
Has(d, name) == \E o \in d.schema : o.name = name
NicknameKeys == Parts("users", {"uq_users_nickname", "users_nickname_key"})
Unique(d) == d.schema \cap NicknameKeys # {}
Stopped(d) == [d EXCEPT !.schema = Failed]

\* Deleting users: ON DELETE CASCADE for votes, SET NULL for authors.
WithoutUsers(d, gone) ==
    [d EXCEPT !.users = {u \in @ : u.account \notin gone},
              !.votes = {v \in @ : v.by \notin gone},
              !.questions = {IF q.author \in gone THEN [q EXCEPT !.author = Nobody] ELSE q : q \in @}]

\* Upgrades

SeedFirstQuestions(d) ==
    LET titles == SetToSeq(FirstTitles)
    IN [d EXCEPT !.questions = {Question(i, titles[i], Nobody, "AB", today) : i \in DOMAIN titles}]

DropUnreasonedVotes(d) == [d EXCEPT !.votes = {v \in @ : v.reason}]

\* Mutant: titles that are there already are not left out.
TopUpFromTheStart(d) ==
    LET missing == Quota - Cardinality(d.questions)
        base == NextId(d.questions) - 1
    IN [d EXCEPT !.questions = @ \cup
            {Question(base + i, Catalogue[i], Nobody, "AB", "seed") :
                i \in {j \in DOMAIN Catalogue : j <= missing}}]

TopUpCatalogue(d) ==
    LET missing == Quota - Cardinality(d.questions)
        available == {i \in DOMAIN Catalogue : \A q \in d.questions : q.title # Catalogue[i]}
        base == NextId(d.questions) - 1
    IN [d EXCEPT !.questions = @ \cup
            {Question(base + Place(i, available), Catalogue[i], Nobody, "AB", "seed") :
                i \in {j \in available : Place(j, available) <= missing}}]

RenameDuplicates(d) ==
    [d EXCEPT !.users = {IF \E v \in @ : v.nick = u.nick /\ v.id < u.id
                         THEN [u EXCEPT !.nick = Fallback(u)] ELSE u : u \in @}]

AddTestUsers(d) ==
    IF \E u \in d.users : u.account \in Tests \/ \E t \in Tests : u.nick = Plain(t)
    THEN Stopped(d)
    ELSE [d EXCEPT !.users = @ \cup
            {User(NextId(d.users) + i - 1, TestUsers[i], TestUsers[i]) : i \in DOMAIN TestUsers}]

AssignAuthors(d) ==
    LET orphans == {q \in d.questions : q.author = Nobody /\ ByCutoff(q)}
        users == TestUsersIn(d)
        Index(q) == Cardinality({p \in orphans : p.id < q.id})
        \* The users again and again, in their order.
        Turn(q) == CHOOSE i \in users : Place(i, users) = (Index(q) % Cardinality(users)) + 1
    IN IF users = {} THEN Stopped(d)
       ELSE [d EXCEPT !.questions =
                {IF q \in orphans THEN [q EXCEPT !.author = TestUsers[Turn(q)]] ELSE q : q \in @}]

RowsUp(r, d) ==
    CASE r = FirstQuestions  -> SeedFirstQuestions(d)
      [] r = ReasonsRequired -> DropUnreasonedVotes(d)
      [] r = SeedCatalogue   -> TopUpCatalogue(d)
      [] r = UniqueNicknames -> RenameDuplicates(d)
      [] r = SeedUsers       -> AddTestUsers(d)
      [] r = SeedAuthors     -> AssignAuthors(d)
      [] OTHER               -> d

\* Downgrades

DropQuestions(d) == [d EXCEPT !.questions = {}, !.votes = {}]
\* The votes for a third or fourth option go, and the options with them.
ForgetExtraOptions(d) ==
    [d EXCEPT !.votes = {v \in @ : v.option \notin {"C", "D"}},
              !.questions = {[q EXCEPT !.options = "AB"] : q \in @}]

ForgetAuthors(d) == [d EXCEPT !.questions = {[q EXCEPT !.author = Nobody] : q \in @}]

\* Mutant: whatever has no author is taken for the catalogue.
RemoveAuthorless(d) ==
    LET gone == {q \in d.questions : q.author = Nobody}
    IN [d EXCEPT !.questions = @ \ gone, !.votes = @ \ VotesOn(d, gone)]

\* Deleting a question deletes its reasons and its votes by cascade.  The
\* RESTRICT by which a vote holds its reason does not stop it: PostgreSQL looks
\* for votes with the reason when both cascades are done.
RemoveCatalogue(d) ==
    LET gone == {q \in Seeds(d) : q.author = Nobody}
    IN [d EXCEPT !.questions = @ \ gone, !.votes = @ \ VotesOn(d, gone)]

\* Mutant: only the questions the first test user got are given back.
UnassignFirst(d) ==
    [d EXCEPT !.questions = {IF ByCutoff(q) /\ q.author = TestUsers[1]
                             THEN [q EXCEPT !.author = Nobody] ELSE q : q \in @}]

UnassignAuthors(d) ==
    [d EXCEPT !.questions = {IF ByCutoff(q) /\ q.author \in Tests
                             THEN [q EXCEPT !.author = Nobody] ELSE q : q \in @}]

\* Mutant: the accounts go, their votes stay.
RemoveAccountsOnly(d) == [d EXCEPT !.users = {u \in @ : u.account \notin Tests}]

RemoveTestUsers(d) == WithoutUsers(d, Tests)

RowsDown(r, d) ==
    CASE r = FirstQuestions -> DropQuestions(d)
      [] r = FourOptions    -> ForgetExtraOptions(d)
      [] r = Authors        -> ForgetAuthors(d)
      [] r = SeedCatalogue  -> RemoveCatalogue(d)
      [] r = SeedUsers      -> RemoveTestUsers(d)
      [] r = SeedAuthors    -> UnassignAuthors(d)
      [] OTHER              -> d

\* One revision; the schema is Failed when any statement of it is refused.
Upgraded(d) ==
    LET r == d.rev + 1
        rows == RowsUp(r, d)
    IN [rows EXCEPT !.rev = r, !.schema = After(@, Revisions[r].up)]

Downgraded(d) ==
    LET rows == RowsDown(d.rev, d)
    IN [rows EXCEPT !.rev = d.rev - 1, !.schema = After(@, Revisions[d.rev].down)]

----------------------------------------------------------------------------
\* A database of the old service, or one bootstrap_database.py has made: it
\* stamps HeadRevision, and its catalogue has authors and the time of the bootstrap.
MigrationsInit ==
    /\ today \in {"early", "late"}
    /\ \/ db = [rev |-> 0, schema |-> LegacySchema, users |-> {}, questions |-> {}, votes |-> {}]
       \/ db = [rev |-> HeadRevision, schema |-> ModelSchema, users |-> {User(1, Demo, Demo)},
                questions |-> {Question(i, Catalogue[i], Demo, "AB", today) : i \in DOMAIN Catalogue},
                votes |-> {}]
    /\ work = Idle /\ goal = 0 /\ acts = 0 /\ commands = 0

Command(target) ==
    /\ work = Idle /\ target # db.rev /\ commands < MaxCommands
    /\ commands' = commands + 1 /\ goal' = target /\ work' = db
    /\ UNCHANGED <<db, today, acts>>

StepUp ==
    /\ work # Idle /\ work.rev < goal
    /\ Upgraded(work).schema # Failed /\ work' = Upgraded(work)
    /\ UNCHANGED <<db, goal, today, acts, commands>>

StepDown ==
    /\ work # Idle /\ work.rev > goal
    /\ Downgraded(work).schema # Failed /\ work' = Downgraded(work)
    /\ UNCHANGED <<db, goal, today, acts, commands>>

Commit ==
    /\ work # Idle /\ work.rev = goal
    /\ db' = work /\ work' = Idle /\ goal' = 0
    /\ UNCHANGED <<today, acts, commands>>

\* A statement is refused, or the command is cut off before its commit.
Rollback ==
    /\ work # Idle /\ work' = Idle /\ goal' = 0
    /\ UNCHANGED <<db, today, acts, commands>>

\* What people and the operator do in between.
Act(new) ==
    /\ work = Idle /\ acts < MaxActs /\ acts' = acts + 1
    /\ db' = new /\ UNCHANGED <<work, goal, today, commands>>

SignUp(account, name) ==
    /\ account \notin AccountsIn(db)
    /\ Unique(db) => \A u \in db.users : u.nick # Plain(name)
    /\ Act([db EXCEPT !.users = @ \cup {User(NextId(@), account, name)}])

Withdraw(account) == account \in AccountsIn(db) /\ Act(WithoutUsers(db, {account}))

Vote(by, id, option, reason) ==
    /\ by \in Guests \cup AccountsIn(db)
    /\ \E q \in db.questions : q.id = id /\ (option = "C" => q.options = "ABC")
    /\ db.rev >= ReasonsRequired => reason
    /\ \A v \in db.votes : v.question # id \/ v.by # by
    /\ Act([db EXCEPT !.votes = @ \cup
                {[question |-> id, by |-> by, option |-> option, reason |-> reason]}])

Publish(author, title, options) ==
    /\ db.rev >= FirstQuestions /\ author \in AccountsIn(db) \cup {Nobody}
    /\ db.rev < Authors => author = Nobody
    /\ db.rev < FourOptions => options = "AB"
    /\ Act([db EXCEPT !.questions = @ \cup {Question(NextId(@), title, author, options, today)}])

\* The cutoff passes.
DayPasses ==
    /\ work = Idle /\ today = "early" /\ today' = "late"
    /\ UNCHANGED <<db, work, goal, acts, commands>>

Finished == work = Idle /\ commands = MaxCommands /\ UNCHANGED migrationVars

Ids == 1..(Cardinality(FirstTitles) + Len(Catalogue) + MaxActs)

MigrationsNext ==
    \/ \E target \in Targets : Command(target)
    \/ StepUp \/ StepDown \/ Commit \/ Rollback
    \/ \E account \in People, name \in Names : SignUp(account, name)
    \/ \E account \in People \cup Tests : Withdraw(account)
    \/ \E by \in Guests \cup People \cup Tests, id \in Ids, option \in {"A", "C"}, reason \in BOOLEAN :
          Vote(by, id, option, reason)
    \/ \E author \in People \cup {Nobody}, title \in Titles, options \in {"AB", "ABC"} :
          Publish(author, title, options)
    \/ DayPasses \/ Finished

MigrationsSpec == MigrationsInit /\ [][MigrationsNext]_migrationVars

----------------------------------------------------------------------------
(* Properties *)

\* The rows satisfy what the schema of their revision demands of them.
Sound(d) ==
    /\ \A u, v \in d.users : u # v =>
          u.id # v.id /\ u.account # v.account /\ (Unique(d) => u.nick # v.nick)
    /\ \A p, q \in d.questions : p # q => p.id # q.id
    /\ \A q \in d.questions :
          /\ q.author \in AccountsIn(d) \cup {Nobody}
          /\ d.rev < Authors => q.author = Nobody
    /\ \A v \in d.votes :
          /\ \E q \in d.questions : q.id = v.question
          /\ v.by \in Guests \cup AccountsIn(d)
          /\ d.rev >= ReasonsRequired => v.reason
          /\ d.rev < FourOptions => v.option = "A"

MigrationsTypeOK ==
    /\ db.rev \in 0..HeadRevision /\ Sound(db)
    /\ work # Idle => work.rev \in 0..HeadRevision /\ Sound(work)
    /\ goal \in Targets \cup {0} /\ today \in {"early", "late"}
    /\ acts \in 0..MaxActs /\ commands \in 0..MaxCommands

\* The schemas an old database goes through on the way up.
Schemas ==
    LET schema[r \in 0..HeadRevision] ==
            IF r = 0 THEN LegacySchema ELSE After(schema[r - 1], Revisions[r].up)
    IN [r \in 0..HeadRevision |-> schema[r]]

\* PostgreSQL's names of two constraints the revisions name themselves.
Given(n) == CASE n = "users_nickname_key" -> "uq_users_nickname"
              [] n = "choice_questions_author_id_fkey" -> "fk_choice_questions_author_id_users"
              [] OTHER -> n
Meaning(s) == {[o EXCEPT !.name = Given(@)] : o \in s}

\* Questions of the catalogue are there from its revision on, have authors only
\* from the revision on that assigns them, and repeat no title there was.
CatalogueFits(d) ==
    /\ d.rev < SeedCatalogue => Seeds(d) = {}
    /\ d.rev < SeedAuthors => \A q \in Seeds(d) : q.author = Nobody
    /\ \A p, q \in d.questions : p # q /\ p \in Seeds(d) => p.title # q.title \/ q.id > p.id

\* However a database came to its revision, up, down and up again or from the
\* models, it has the tables, columns, indexes, constraints and keys of that
\* revision, and of the catalogue what that revision allows, no title twice.
SchemaOfRevision == Meaning(db.schema) = Schemas[db.rev] /\ CatalogueFits(db)

\* A command that stays where votes have reasons and four options and
\* questions have authors loses no person's account, and no question that is
\* not of the catalogue; of people's and guests' votes it loses those on the
\* catalogue, when it goes below the revision that made that, and no others.
PersonsVotes(d) == {v \in d.votes : v.by \in People \cup Guests}
PersonsAccounts(d) == {u.account : u \in {x \in d.users : x.account \in People}}
OwnQuestions(d) == {<<q.id, q.title, q.options>> : q \in d.questions \ Seeds(d)}
PeopleKept ==
    [][Commit /\ db.rev >= FourOptions /\ db'.rev >= FourOptions =>
          /\ \A v \in PersonsVotes(db) \ PersonsVotes(db') :
                /\ db'.rev < SeedCatalogue /\ SeedCatalogue <= db.rev
                /\ v \in VotesOn(db, Seeds(db))
          /\ PersonsAccounts(db) \subseteq PersonsAccounts(db')
          /\ OwnQuestions(db) \subseteq OwnQuestions(db')
          /\ db.rev >= Authors /\ db'.rev >= Authors =>
                \A q \in db.questions : q.author \in People => q \in db'.questions]_migrationVars

\* A command is refused only for these reasons: on the way up, an account with
\* the name or email of a test user, or no test user to be an author; on the
\* way down, the removed services cannot be brought back, and on a bootstrapped
\* database the constraint 4528840cd462 wants to drop has another name.
StopsOnlyHere ==
    work # Idle =>
        /\ work.rev < goal /\ Upgraded(work).schema = Failed =>
              \/ /\ work.rev + 1 = SeedUsers
                 /\ \E u \in work.users : u.account \in Tests \/ u.nick.name \in Tests
              \/ work.rev + 1 = SeedAuthors /\ TestUsersIn(work) = {}
        /\ work.rev > goal /\ Downgraded(work).schema = Failed =>
              \/ work.rev \in {7, 8}
              \/ work.rev = UniqueNicknames /\ Has(work, "users_nickname_key")
=============================================================================
