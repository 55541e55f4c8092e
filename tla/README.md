# Kallithea: a verification project

Kallithea serves Mercurial and Git repositories with code review, permissions
and administration. It is a Python web application: requests run in worker
threads of one or more processes, share a SQL database, the repositories on disk
and, optionally, Celery workers. This directory holds TLA+ models of the parts
whose correctness depends on long sequences of requests or on their
interleaving, the TLC configurations that check them, and proofs.

Paths below are relative to `src/kallithea/` unless they begin with `src/`.

1. [Inventory](#1-inventory)
2. [Modules](#2-modules)
3. [Runs](#3-runs): bounds, fairness, where code and words disagree
4. [Proofs](#4-proofs)
5. [What is not modelled](#5-what-is-not-modelled)
6. [Plan](#6-plan)

## 1. Inventory

| Component | State | Operations | What is hard | What makes it correct |
|---|---|---|---|---|
| Code review votes (`model/changeset_status.py`, `model/comment.py`) | `changeset_statuses` (one row per vote and revision, with a version), `changeset_comments` | `set_status`, `create`, `delete`, `get_status`, `calculate_pull_request_result` | votes from several pull requests and from changeset pages bump the versions of overlapping revisions; rows are deleted by cascade; ids may be reused | versions tell the age, the latest surviving vote of a reviewer counts, nothing is orphaned |
| Pull requests (`model/pull_request.py`, `controllers/pullrequests.py`) | `pull_requests`, `pull_request_reviewers` | create, iterate, edit, comment, close, delete | checks on a loaded row, commit later; forms that carry the list they were opened with | a closed pull request stays closed and its verdict is final |
| Changeset pages (`controllers/changeset.py`) | the same tables | comment, vote, delete comment | shared with the pull requests above | as above |
| Permission computation (`lib/auth.py`) | reads all permission rows, owners, flags, memberships | `_cached_perms_data`, level checks on every request | a table built from the default user's rows and raised by other rows | it can be computed for everybody; private means private |
| Repositories (`model/repo.py`, `controllers/admin/repos.py`, `controllers/forks.py`) | `repositories`, `user_repo_to_perm`, `users_group_repo_to_perm`, directories | create, fork, update, delete, grant, revoke, rename | copying rows, the private flag, disk and database together | rows of the default user are kept; a private repository is not opened by side effects; a row leads to its own data |
| Repository groups (`model/repo_group.py`, `controllers/admin/repo_groups.py`) | `groups`, two `*_to_perm` tables, directories | create, move, delete, grant, revoke, all recursive | recursive modes; moves rename everything below | no loose ends in the tree; names follow it and match the disk |
| Background tasks (`lib/celerylib/tasks.py`) | repository state, disk, `statistics` | `create_repo`, `create_repo_fork`, `get_commits_stats`, `whoosh_index` | two commits around work on disk, clean-up by hand; a task that puts itself back into the queue | no half-made repository stays; every revision is counted, and once unless tasks overlap |
| Task locks (`lib/pidlock.py`) | pid files | `trylock`, `makelock`, `release`, at exit | several processes, crashes, stale and empty files | a crash does not block for ever; what the lock protects survives the races it allows |
| Subprocess streaming (`lib/vcs/subprocessio.py`) | two buffers, four flags each, a feeder and two reader threads | read, append, wait, next, stop, close | lost wake-ups, time-outs, a dead reader, full pipes | everything read is delivered in order; the caller and the threads end |
| Repository activity (`controllers/files.py`, `model/scm.py`, `lib/hooks.py`, `Repository` in `model/db.py`) | the repository, `user_logs`, `changeset_cache` | push, fetch, edit, delete and add on the web, the hooks, refreshing the cache | the repository changes before its rows; two workers refresh one row | the cache names the tip; the journal has every changeset; edits do not split a branch |
| Scanning the disk (`lib/utils.py`) | rows, directories | `repo_scan`, `repo2db_mapper` | a list that is old when it is used | rows and directories agree afterwards |
| Search index (`lib/indexers/daemon.py`) | two Whoosh indexes | build, update files, update changesets | two runs, pushes and failures in between; marks that tell where to go on | every file once, every changeset, again and again |
| Accounts and logins (`model/user.py`, `lib/auth_modules/`, `controllers/login.py`, `model/ssh_key.py`) | `users`, `user_email_map`, `user_ssh_keys`, `authorized_keys` | create, update, delete, register, log in through a directory, reset a password, add keys | names and addresses that are unique only as far as somebody looked; second lookups by what was typed; a file written from a table | one account for a name and an address; the session is the account's that gave the password |
| User groups (`model/user_group.py`) | `users_groups`, `users_groups_members` | members, active flag, deletion | one change moves the levels of many users | memberships count only while active |
| Default permissions (`model/permission.py`) | the default user's `user_to_perm` rows | update, overwrite everywhere | one form rewrites rows of every object | private repositories are excepted |
| Notifications, gists, feeds and pages, diffs, command line and configuration | rows written by single requests, read-only views, I/O | | little: one row, one request | see `components` in `PROJECT.json` |

How they meet. Controllers load rows through SQLAlchemy, check them and the
caller's level (`lib/auth.py`), call a model class, and end the transaction with
`Session().commit()`. Nothing is locked between the load and the commit. Model
classes call each other in the same transaction (`RepoGroupModel` grants through
`RepoModel`, pull request actions through `ChangesetCommentsModel` and
`ChangesetStatusModel`); the database cascades deletions. Disk operations happen
before the commit and are not undone by a rollback. Repositories are changed by
other programs, which `SubprocessIOChunker` runs and which call back through hooks.

## 2. Modules

    VoteLedger             what code review promises                (abstract)
      ^ implemented by
    PullRequestReview      tables, requests one at a time           (serial)
      ^ extended by
    ReviewRequests         the same requests as check and commit    (concurrent)
                                                   PullRequestReviewProofs

    RepoPermissions        rows, operations, the computed level
                                                   RepoPermissionsProofs

    RepositoryStore        rows and directories, tasks, rescans
                                                   RepositoryStoreProofs

    OutputChannel          what a program's output promises         (abstract)
      ^ implemented by
    SubprocessIO           threads, pipes, buffers and the caller
                                                   SubprocessIOProofs

    DaemonLock             the pid file
      ^ extended by
    CommitStatistics       the task that works under it
                                                   CommitStatisticsProofs

    RepositoryActivity     pushes, fetches, web commits, journal, cache
                                                   RepositoryActivityProofs
    SearchIndex            files, changesets, and the runs that list them
                                                   SearchIndexProofs
    Accounts               accounts, logins, resets, keys
                                                   AccountsProofs

    MC...                  small instances for TLC

The web interface and JSON-RPC are different actions wherever their checks
differ (`...ViaApi`). Definitions marked "(Bug: ...)" or "Wrong: ..." are used by
no specification: each is a form of the definition next to it that a plausible
mistake would give it, kept to show that a property notices.

### PullRequestReview

State: `prs` (the pull request rows with their reviewers, by id), `comments`,
`statuses` (sets of rows). One repository is the origin of all pull requests:
versions are counted per repository and revision, so repositories do not
interact. A revision list is a set, because no property depends on its order.
Comments keep id, place and author; texts, titles, inline positions,
notifications and mentions are left out.

| Action | Code |
|---|---|
| `CreatePullRequest` / `Open` | `PullrequestsController.create`, `CreatePullRequestAction.execute`: row, comment, `under_review` vote on all revisions |
| `CreateIteration` / `Iterate` | `post` with a revision to update to, `CreatePullRequestIterationAction`: a new pull request with the form's reviewers, a comment on the old one, the old one closed |
| `EditPullRequest` / `Edit` | `post`: owner, and reviewers as a three-way difference of the list the form showed, the list it asks for and the list in the database |
| `PostComment`, `PostCommentViaApi` / `Post` | `comment`, `create_cs_pr_comment`, `comment_pullrequest`: optional text, optional vote, optional closing |
| `CommentOnRevision` | `ChangesetController.comment`: a comment and possibly a vote on one revision |
| `DeleteComment` / `Remove` | `delete_cs_pr_comment` with the cascade to the votes that came with the comment |
| `SaveDeletePullRequest`, `DeletePullRequest` / `Delete` | the two ways to delete a pull request, with different guards |
| `DeleteUser` / `Forget` | `UserModel.delete`: the account's pull requests, comments, votes and seats on panels go by cascade |

`Ballots`, `Counted`, `VoteOf` and `Result` are `calculate_pull_request_result`:
the query's rows of one voter, those its loop can be left with (the order among
equal versions is the database's, so all of them are considered), and
`_calculate_status`.

Ids. A database gives an id above all that are in use: `NextId` is every such id.
SQLite (`AUTOINCREMENT`) and PostgreSQL never give one twice, and skip some;
InnoDB may give the highest ones again after a restart. All of that is allowed
here; `ReviewRequests` remembers the highest id ever given.

### VoteLedger

No versions and no tables: a set of numbered votes, a panel per pull request, the
closed pull requests, and the verdict that follows from the latest surviving vote
of each member of the panel. Votes are cast only on open pull requests and with a
number above all surviving ones; closing, deleting, empanelling, withdrawing and
a user's leaving are the only other steps. `ImplementsLedger` (in
`PullRequestReview`) maps the rows to votes by forgetting revision and version,
which is possible only if all rows of one comment agree.

### ReviewRequests

The same requests in several worker threads. `Check...` is what a controller does
with the rows it loaded, `Commit...` the transaction; anything can be committed
in between. The database here enforces foreign keys and never reuses an id. A
commit that updates, deletes or refers to a row that is gone fails as a whole
(`GiveUp`). `set_status` reads the rows it bumps inside the transaction; of two
that overlap, both insert version 0, and the unique constraint makes the later one
fail, so transactions are atomic steps. (A set of simultaneous deletions that
lets two such inserts pass is not modelled.) `Fail` is a worker that dies
before its commit. Accounts are not deleted here.

### RepoPermissions

State: `repo` (owner, private, group), `groups`, `rows` (the four tables from users
and user groups to repositories and repository groups, as `rows[object][subject]`;
`NoRow` is weaker than `none`), `members` and `active` of user groups, `fallback`
(the default user's permissions for new objects).

`Reaches` and `Computable` are `_cached_perms_data`: an object enters the table
with a row of the default user (`Listed`); owners start from admin, private
repositories from none, others from the default user's level (`Fallback`); then
rows of the user and of the user's active groups raise it. `bump_permission` looks
up an entry that must be there: where it is not, the request fails
(`~Computable`). A site administrator has admin on everything listed.

| Action | Code |
|---|---|
| `CreateRepo`, `ForkRepo` | `ReposController.create`, `ForksController.fork_create`, `RepoModel._create_repo` with its three ways to fill the rows |
| `UpdateRepo` | `RepoModel.update`: owner, private flag, group; setting the flag resets the default user's row |
| `DeleteRepo` | `RepoModel.delete` with the cascade to the rows |
| `GrantOnRepo`, `RevokeOnRepo` | the permission page |
| `GrantUserViaApi`, `RevokeUserViaApi`, `GrantUserGroupViaApi`, `RevokeUserGroupViaApi` | the four JSON-RPC calls on a repository; those about a user are for site administrators |
| `CreateGroup`, `DeleteGroup` | `RepoGroupModel.create`, `delete` behind their controllers' checks |
| `GrantOnGroup`, `RevokeOnGroup` | `RepoGroupModel._update_permissions` with the recursive modes, skipping private repositories |
| `GrantUserOnGroupViaApi` ... `RevokeUserGroupOnGroupViaApi` / `AddPermission`, `DeletePermission` | the four calls on a group, which skip nothing |
| `UpdateUserGroup`; `AddUserToUserGroup`, `RemoveUserFromUserGroup`, `UpdateUserGroupViaApi` | members and active flag, by form and by call |
| `DeleteUserGroup`, `DeleteUserGroupViaApi` | `UserGroupModel.delete`: refused while the group has rows on repositories; rows on repository groups go by cascade |
| `DeleteUser` | `UserModel.delete`: refused while the account owns repositories |
| `UpdateDefaults` | `PermissionModel.update` |

Every action is guarded by the caller's level in the same state. What the buttons
of a page offer counts as a guard of the web interface: for example the default
user's row has no revoke button, and on the page of a private repository no
radio buttons. `ViaApi` adds the JSON-RPC interface, where site
administrators are not looked up in the table, owners can be named, groups are
not asked for write level, and `delete_repo_group` does not count what the group
holds. `ForeignKeys` says whether the database objects to the latter; SQLite
does not, since Kallithea does not switch enforcement on.

A form that changes several rows is a sequence of single changes. The tree of
groups is fixed by the constant `Parent`: groups come and go but do not move (they
do in `RepositoryStore`).

### RepositoryStore

State: `groups` and `repos` (rows with their full path for a name), `disk` (what is
at each path: a plain directory or the data of a repository), `tasks` (creations in
progress), `scan` (a list of directories that a rescan has made). `requests` counts
what was started. `suspect` records that something went wrong that the code does
not undo: a commit that failed after the directories were changed, a directory
archived or moved that was another's, a group that changed while a repository was
created in it, a rescan with a list of which something new is not there any more, or
not on top any more.

What identifies a path is the sequence of its names. A rescan lists the outermost
repositories (`RepoPaths`; `get_filesystem_repos` does not look into a repository),
makes rows for what has none (`NewRow`) and, in passing, for the groups above all it
lists, which last if something is committed after them. A directory that has
vanished since (`Gone`) stops it after that row (`Additions`), before anything is
removed (`Kept`). `Heals` says when a rescan leaves nothing to put right. Foreign
directories are there from the start (`Foreign`, sequences of names).

| Action | Code |
|---|---|
| `CreateGroup`, `CreateGroupViaApi` / `AddGroup` | `RepoGroupModel.create`: directory, then commit |
| `UpdateGroup`, `UpdateGroupViaApi` / `ChangeGroup` | `RepoGroupModel.update`: every row below renamed, one directory moved, commit |
| `DeleteGroup`, `DeleteGroupViaApi` / `RemoveGroup` | `RepoGroupModel.delete`: directory archived, commit; the call counts nothing |
| `UpdateRepo`, `UpdateRepoViaApi` / `ChangeRepo` | `RepoModel.update` |
| `DeleteRepo`, `DeleteRepoViaApi` / `RemoveRepo` | `RepoModel.delete`, forks kept, detached or deleted |
| `SubmitRepo`, `SubmitFork`, `...ViaApi` / `Submit` | the forms and calls that queue `create_repo` and `create_repo_fork` |
| `InsertRow`, `MakeDirectory`, `SetCreated` and their failures, `SourceGone`, `TaskDies` | the steps of those tasks, and their "rollback things manually" (`CleanUp`) |
| `Scan`, `MapRepos` | `repo_scan`, `repo2db_mapper` with and without removing what is obsolete |

A request is one step whose commit may fail (`Commit`); the tasks and rescans are
several. The routes of groups and repositories check the disk as well
(`HoldsGroup`, `NoRepoAt`, `Reached`).

### OutputChannel and SubprocessIO

`OutputChannel`: chunks arrive in order, none twice, none left out, and an ordinary
end comes after the last one. `SubprocessIO` has one step for each access to shared
state of the threads of `SubprocessIOChunker`: the program (`ReadInput`, `Write`,
`Leave`, `Crash`, `Exit`), `StreamFeeder.run` (`Feed`),
`InputStreamChunker.run` for each output (`ReaderStep`), and the caller
(`CallerStep`): `__init__`, iterating as the WSGI server of a Git client does or as
`_run_git_command` does, errors, and `close()`. Pipes hold `PipeSize` chunks; a
`close()` of a file waits for a `read()` of it. The event `data_added` is left out:
each wait for it is timed and followed by a new look at what it announces.

### DaemonLock and CommitStatistics

`DaemonLock` is the pid file as several processes use it: `trylock` looks, then
removes a stale file (`RemoveStale`), `makelock` opens and writes (`WriteLock`),
`release`, an orderly `Exit` and a `Kill`; numbers of processes are reused
(`Restart`). `CommitStatistics` is `get_commits_stats` under that lock: opening the
repository, reading the row, counting a slice, committing it, releasing the lock
and putting the task back into the queue; visits and pushes come from outside. The
name of the lock has the day in it; `Keys` can hold two, though the run has one.
The database is told of the columns that differ from what the task had read
(`Written`), so that two tasks may leave the revision of the one with the counts
of the other; `erased` records the revisions that this takes out of the counts, and
`overlap` that two tasks worked at the same time.

### RepositoryActivity

State: `log` (changesets with parent and branch, numbered as they are made), `refs`
and `head` (git), `journal`, `cache` (the row's `changeset_cache`), `workers`. A push
(`Push`), a fetch (`EditRemote`, `PullViaApi`) or a web commit (`Edit`, `Delete`, `Add`,
then `Resolve` and `Commit`) changes the repository; the hooks write the journal
(`Journal`: `handle_git_post_receive`, `process_pushed_raw_ids`), and
`update_changeset_cache` reads the row (`ReadRow`), reads the tip (`ReadTip`) and
writes (`WriteCache`). `UpdateMetadata` and `InvalidateCache` start at the row.
`PushOutside` goes past Kallithea. `Crash` may hit any of these steps. The two back
ends are told apart by `kind`: what branches, heads and tip are (`Heads`,
`BranchTips`, `Tip`), and what a hook is told (`Told`). `unannounced` and `suspect`
record the exceptions that the properties name.

Taken for granted: changesets are dated in the order they are made; a repository
is not renamed during a push; git does not delete the branch that HEAD names; a
push changes one branch.

### SearchIndex

State: `revs` (the changesets of each repository), `files` and `docs` (the documents
of the two indexes; `last` is the mark of the youngest), and `run`, one run of the
command and one of the task, whose locks are different files. A run updates the
files in one transaction (`UpdateFiles`), opens a searcher (`OpenSearcher`) and
updates the changesets (`UpdateChangesets`), or builds anew (`Recreate`, `Build`). It
is overtaken by a push to a git repository (`UpdateOvertaken`, `BuildOvertaken`),
and fails anywhere (`UpdateFilesFails`, `UpdateFails`, `BuildFilesOnly`, `Die`). What it
cannot read of a broken repository's files it passes over and goes on
(`UpdateFilesSkips`, `BuildSkips`).

Taken for granted: dates rise with the order of changesets; the landing revision is
the tip; Mercurial repositories only grow; a forced push takes changesets off the
end and does not bring any back; nothing else runs during a build; several copies
of one document count as one. A searcher's limit of ten hits is ignored.

### Accounts

State: `users`, `extra` (addresses), `keys`, `file` (`authorized_keys`), `tokens` (for
resetting a password), `workers`. A request looks up (`CheckCreate`, `Register`,
`CheckCreateViaApi`, `CheckUpdate`, `MyAccount`, `MyPassword`, `CheckEmail`, `CheckKey`,
`LookUp`, `VerifyToken`) and commits later (`CommitCreate`, `CommitUpdate`, ...). A
login asks the directory (`Answer`), writes the account (`SaveLogin`) and looks it
up again to open the session (`OpenSession` for the form, `OpenContainerSession` for
the web server's name, `AuthorizeClient` for Mercurial and Git clients). `LdapNames`,
`CrowdNames`, `PamEmails` and `ContainerEmails` are what each directory may answer.
`ReadKeys` and `ReplaceFile` are `write_authorized_keys`. Tokens go with the password
they were made from; a login keeps the password, and them, where the one given is
still right. `unchecked` and `behind`
record the exceptions that the properties name; any commit counts as overtaking
the others.

Taken for granted: foreign keys are enforced and ids not reused; a directory
answers about the name it is asked for, in its own spelling, and knows no name that
looks like an address. `update_user` by JSON-RPC changes one column at a time.

## 3. Runs

| Run (of `MC...`) | Question | Properties | Answer |
|---|---|---|---|
| `Review` (`PullRequestReview`) | Do versions, votes and comments stay consistent under any serial sequence, does the latest vote count, is the verdict on a closed pull request final? Do the tables implement the ledger? | `TypeOK`, `NewestFirst`, `NoOrphans`, `LatestVoteCounts`, `ClosedVerdictFinal`, `ImplementsLedger` | yes |
| `ReviewCurrent` (`PullRequestReview`) | Is the row with version 0 always the current one, as the docstring says? | `VersionZeroIsCurrent` | no, see below |
| `ReviewRequests` (`ReviewRequests`) | Do consistency and closing survive concurrent requests and failures? | `TablesConsistent`, `ClosedStaysClosed` | yes |
| `Permissions` (`RepoPermissions`) | Can permissions always be computed, and do bulk changes keep private repositories shut (web interface)? | `TypeOK`, `PermissionsComputable`, `PrivateSealed` | yes |
| `PermissionsTree` (`RepoPermissions`) | Does the tree of groups stay whole with both interfaces? | `TreeWhole` | yes, with foreign keys |
| `PermissionsPrivate` (`RepoPermissions`) | Are private repositories visible only to collaborators, as the form says? | `PrivateHidden` | no, see below |
| `Store` (`RepositoryStore`) | Do names follow the tree and directories the rows? Does no data leave without its row? Does a rescan repair the rest? | `TypeOK`, `NamesFollowTree`, `DirectoriesFollowRows`, `DataLeavesWithItsRow`, `RescanHeals` | yes, but for the cases `suspect` names, which a rescan repairs |
| `Subprocess` (`SubprocessIO`) | Does the output arrive in order and whole, within the buffers, and do the caller and the threads end? | `TypeOK`, `BufferBounded`, `ImplementsChannel`, `CallerEnds`, `ThreadsEnd` | yes, but for the reader that gives up and the feeder that stays behind when `__init__` raises |
| `Statistics` (`CommitStatistics`) | Is every revision counted, once unless two tasks overlap, and do the statistics catch up? | `TypeOK`, `NothingMissed`, `CountedOnce`, `CatchesUp` | yes, but for the revisions that a task at the first one erases, and if no lock is left behind as `Blocked` says |
| `Activity` (`RepositoryActivity`) | Does the cache follow the repository, is everything announced, do web edits extend their branch? | `TypeOK`, `CacheFollows`, `EveryChangesetAnnounced`, `EditsExtendBranch` | yes, but for the cases `suspect`, `unannounced` and `overtaken` name |
| `Search` (`SearchIndex`) | Has the index each file once, do the marks tell the truth, is nothing left out for ever? | `TypeOK`, `OneDocumentPerFile`, `MarksComplete`, `RunListsFiles`, `CatchesUp` | yes |
| `Accounts` (`Accounts`) | Does a lookup find one account, and the second lookup the same; do logins keep accounts; does the key file follow the keys? | `TypeOK`, `AccountsDistinct`, `SecondLookupAgrees`, `FileFollowsKeys`, `LoginsKeepAccounts` | yes, but for what `unchecked`, `overtaken` and `behind` name |

The exceptions are part of the statements because the code makes them: each is a
race or a fault that it neither prevents nor undoes. A property with an exception
says that there is no other one, and for `RescanHeals`, `CacheFollows`,
`FileFollowsKeys` and `CatchesUp` also what ends it.

Bounds, and why they are enough:

* `Review`: two pull requests over the same two revisions, so that an iteration and
  an independent pull request both occur; two users (one a repository
  administrator, one possibly a reviewer), three comments without text, both
  verdicts, versions up to `MaxVersion` 2. Ids may be skipped and given again. Three
  comments suffice for a vote, one that overtakes it, and a deletion that makes
  room for a third. The revisions are interchangeable (symmetry).
  `ReviewCurrent`: one pull request.
* `ReviewRequests`: two workers (interchangeable), two pull requests that share
  one revision, three comments, one verdict. Two workers are enough for every check
  to be overtaken by every commit. Ids are given once, so the system runs out of
  them and stops: that is why deadlock is not checked there.
* `Permissions`: a site administrator and a user, one user group, two
  interchangeable repositories (so that forks exist) and a group; levels handed
  out are `Admin`, defaults `Read`, and at most two rows of subjects other than the
  default user (`MaxRows`). Handing out lower levels only removes actors. A user
  group's members are nobody, or the user and the default user.
* `PermissionsTree`: one repository, a group inside a group, both interfaces,
  members nobody or the user. `PermissionsPrivate`: as `Permissions`.
* `Store`: two names, two groups, two repositories, two tasks (each kind
  interchangeable) and five requests: enough to create a group, something in
  it, move or delete it while a task is on its way, and rescan. At first there may
  be a repository on disk that no row knows. Every request is spent in the end, so
  deadlock is not checked, here and in `Activity` and `Accounts`.
* `Subprocess`: one starting chunk, a reader that pauses above one chunk, room for
  one chunk in the error buffer and in each pipe; programs that write up to three
  chunks of output, up to four of errors, and read all or part of two chunks of
  input. The output pauses its reader twice, errors overflow their buffer, input is
  more than a pipe holds. The caller stops when it is done: no deadlock check.
* `Statistics`: two workers, one lock, three process numbers (so that a number is
  given again), slices of two of up to three revisions, one task that follows,
  counts up to 2, visits only into an empty queue.
* `Activity`: two interchangeable workers, the default branch and another,
  three changesets, four requests: two that race, one before them that fills the
  cache, and one after them that repairs it.
* `Search`: a Mercurial and a git repository with one path, three changesets, one
  run that fails or passes over files. A file can be made, removed and made again.
* `Accounts`: two accounts, two spellings of a name and another name, two addresses,
  one key, two workers, three requests; new accounts are active (`AutoActive`).
  Spellings, addresses and workers are interchangeable.

`Series`, `Panels`, `NewOwners`, `Choices`, `Granted`, `Fallbacks`, `Grantees`,
`Memberships`, `Foreign` and `Programs` bound what forms carry and what is there.

Fairness, where a run checks that something happens:

* `SubprocessIO`: weak fairness of the program's steps, of the feeder, of each
  reader and of the caller. A program that can go on does, the operating system
  schedules threads, and every wait in the code has a time-out after which it looks
  again. A program need not crash and a client need not leave (`Crash` and `GiveUp`
  have no fairness).
* `CommitStatistics`: weak fairness of each worker's `Step`: a Celery worker goes on
  with its task, takes the next one, and the pool replaces a process that has
  ended. Visits, pushes and failures have none; `CatchesUp` assumes in its own text
  that the page is visited again and again and that failures stop.
* `SearchIndex`: strong fairness of cron's whole run, which may find a build in
  progress any number of times but is started again every night, and weak fairness
  of what a run that has begun does next. Pushes, runs by hand and faults have none;
  faults are bounded by `MaxFaults`.

### Where code and words disagree

With a run:

* `ReviewCurrent`. `model/changeset_status.py:118`: "Statuses are versioned inside
  a table itself and version == 0 is always the current one". Cast two votes,
  delete the comment of the second: its rows go by cascade, the first vote keeps
  version 1, and `get_status` and `Repository.statuses` report the changeset as
  not reviewed. `calculate_pull_request_result`, which takes the lowest version
  there is, still counts the first vote.
* `PermissionsPrivate`. `templates/admin/repos/repo_add_base.html:59`: "Private
  repositories are only visible to people explicitly added as collaborators." With
  the group's (or the parent repository's) permissions copied, the default
  user's row comes along. The computation sets a private repository to none for
  everybody who is not its owner and then raises by the user's own rows, and for
  an anonymous visitor the default user's row is such a row.

Met while modelling; the models have each of these behaviours, named in a property's
exception or in a comment:

* Review. `controllers/changeset.py:275`, "don't allow deleting comments on closed
  pull request": the closing may be committed between check and deletion.
  `revoke_user_permission` by JSON-RPC may take the default user's row away, after
  which requests of users with rows of their own fail in `bump_permission`.
  `delete_repo_group` on SQLite leaves repositories in a group that is gone, and
  deleting an account there leaves reviewer rows that name nobody.
  `UserGroupModel.delete` speaks of members and looks at repository rows only.
* Store. Creating a repository `a/b` passes the form when a group `a/b` exists; the
  task fails, and its clean-up archives the group's directory. Deleting a
  repository that is still pending takes what is at its name. A rescan never
  restores a group's directory. The calls `update_repo_group` and
  `delete_repo_group` pass keys that nothing reads, and count nothing. Moving a group
  below itself recurses without end (the form offers only the group itself not).
* Subprocess. `lib/vcs/subprocessio.py:385` joins `bytes` with a `str`: where a
  program fails after `__init__` with something on its error output, the caller
  sees a `TypeError` in place of the `EnvironmentError` of the docstring. A reader that
  gives up waiting after its time-out ends without setting `EOF` (128-130). When
  `__init__` raises, nobody closes the input, and a feeder may stay behind.
* Statistics. `tasks.py:128`: at revision 0 the slice starts at 0 again, so the first
  revision is counted again, and a slice that is empty resets the row to 0, against
  the comment on lines 115-117. `pidlock.py:77-98`: an empty file blocks for ever; 64:
  two starters may both hold the lock. `tasks.py:90-91` returns with the lock held
  when the repository is gone. `docs/usage/statistics.rst:29`: "These tasks will gather
  all of the statistics until all commits are parsed." Let two tasks get past the
  lock while the row is at revision 0; one has opened the repository with one
  revision, the other finds two and commits revision 1. The first sets the revision
  to 0, which it had read, so that the UPDATE leaves it out, but writes its counts
  (`tasks.py:196-210`): the row says revision 1, whose counts are gone, and later tasks
  go on after it. TLC finds this as soon as `NothingMissed` is stated without `erased`.
  It takes a task that found one revision, since any other moves the revision, and
  then revision and counts are written together (`OneRevisionErases`).
* Activity. `bin/kallithea_cli_repo.py:66`, "In normal operation, Kallithea will keep
  caches up-to-date automatically": two workers that refresh at a time may leave
  the older tip. `controllers/files.py:290` and `344`, "we cannot create multiple
  heads via file editing": an edit that is overtaken does, and adding a file has no
  such check. With git, two new branches with common changesets that are pushed at
  a time exclude each other's, and neither hook announces those; a fetch announces
  nothing (a TODO in `model/scm.py`).
* Search. `src/docs/setup.rst:209`: a newer file is reindexed only in repositories
  that `--update-only` names, and a removed file's documents stay, because
  `delete_by_term('path', ...)` looks for a whole path in a field of words. Documents
  of deleted repositories stay as well. A push to a git repository during a run
  makes it end there and skip the repositories after it until the next run.
* Accounts. `create_user` by JSON-RPC ("Creates new user") asks for the very name and
  then calls `create_or_update`, which finds the account by any spelling and rewrites
  it. `update_user` checks neither name nor address, and nobody checks an address from
  a directory. A login that replaces the address it was entered with finds no
  account on its second lookup. `bin/kallithea_cli_ssh.py:82`, "The file is usually
  maintained automatically": overlapping writers may leave older lines, and changes
  of an account do not write the file.

## 4. Proofs

Each theorem holds for every value of the constants that satisfies the named
assumption of the component's module (`ReviewAssumption`, `PermissionsAssumption`,
`SubprocessAssumption`, ...): any number of users, revisions, ids, workers, any tree,
any size of buffer, any bound. Every invariant that a proof rests on has also been
checked with TLC on the instances of section 3. Besides the constants, nothing is
assumed: each proof ends in the definitions and in the theorems of the library about
numbers, sequences, finite sets and well-founded relations.

`PullRequestReviewProofs`. `NewestFirst` is inductive only together with facts
about ids: a new comment's id is above all ids in use (`NextId`), so its votes are
newer than every vote, and every vote belongs to a comment in use. The invariant
`IInv` is therefore `TypeOK /\ NewestFirst /\ VersionsUnique /\ VotesWhole /\
NoOrphans`, strengthened together. `VotesWhole` (the votes of one comment agree and
cover every revision of its series, because they are written and deleted together,
`ForgetKeeps` for those of a deleted account) is what the argument for
`LatestVoteCounts` stands on. From it:

* `ReviewInvariant`: the invariant itself, `ReviewTypeTheorem`: its `TypeOK`;
* `VotesWholeTheorem`: `VotesWhole`;
* `NewestFirstTheorem`, `VersionsUniqueTheorem`: versions fall strictly with age, so
  that the unique constraint never refuses a vote;
* `NoOrphansTheorem`: `NoOrphans`;
* `LatestVoteTheorem`: `LatestVoteCounts`. A voter's lowest version over a
  series could belong to an older vote whose other revisions were bumped by
  somebody else; the proof shows that it cannot, because the latest vote
  covers all revisions of the series and is below the older one on each;
* `ClosedVerdictTheorem`: the action property `ClosedVerdictFinal`, one lemma per
  request: what a request writes is on another pull request, or on no revision of
  the closed one that counts, or the closed one is gone;
* `ReviewImplementsLedger`: the refinement of `VoteLedger`. Each action is mapped to the
  steps of the ledger it stands for, or to none; the hard ones are a vote that
  bumps the versions of others, which the ledger must not see, and the deletion of
  a comment, which takes one vote and lets an older one count again.

`RepoPermissionsProofs`. The invariant is `TypeOK`, `DefaultRows` (without the
JSON-RPC interface, every existing object has the default user's row) and `SafeTree`
(with foreign keys or without JSON-RPC, the tree is whole). Computability of all
permissions is not inductive by itself: that the rows that count for a user are on
listed objects is kept only because everything is listed, copies included. There
is one lemma per kind of change (`AddRepo`, `ChangeRows`, `GrantStep`,
`RemoveRepo`, `WithdrawKeeps`, `MembershipKeeps`, ...) and one per action or family of
calls (`RepoCallsKeep`, `GroupCallsKeep`, `MemberCallsKeep`, `DeleteUserGroupKeeps`,
`DeleteUserKeeps`). From it:

* `PermissionsInvariant`, `PermissionsTypeTheorem`;
* `TreeTheorem`: `TreeWhole`, assuming `ForeignKeys \/ ~ViaApi`;
* `ComputableTheorem`: `PermissionsComputable`, assuming `~ViaApi`;
* `SealedTheorem`: the action property `PrivateSealed`, assuming `~ViaApi`.

The second part of `PullRequestReviewProofs` is about `ReviewRequests`: a commit whose
checks are out of date is still made of the same writes, so the lemmas about them are used
again with the ids that the database gives (`IdsGiven`: above all ids in use) in the
place of those that the checks saw. `PendingOK` says what a waiting request holds,
and nothing about the tables: that is what the interleaving takes away.

* `RequestsInvariant`; `TablesStayConsistent`: `TablesConsistent`;
* `ClosedForGood`: the action property `ClosedStaysClosed`. The commits of an edit and of
  an iteration write a pull request that may have been closed meanwhile, and
  neither writes its status.

`SubprocessIOProofs`. The invariant has three layers. `TypeInv` knows where the
caller is (`MainOK`: which step belongs to which of its doings), because what the
caller reads depends on it. The bound on a buffer is inductive only with the
reader's place and the two events: a reader that has measured room and not
yet appended has the room still, for only it appends. The flow of the output is one
sequence: what was handed out, what the buffer holds, the chunk in the reader's
hand and what is in the pipe, in this order, are the first chunks that the program
wrote, each once.

* `TypesCorrect`, `BuffersStayBounded`: `TypeOK`, `BufferBounded`;
* `RunnerImplementsChannel`: the refinement of `OutputChannel`, step by step.

`CommitStatisticsProofs`. The lock is in the types only: no theorem uses that it
keeps two tasks apart, because it does not.

* `TypesCorrect`: `TypeOK`;
* `NothingIsMissed`: `NothingMissed`, from `CompleteInv`: not only the row, but every copy
  of it that a task has read is complete up to the revision it names, but for what
  is `erased`. A commit takes columns from two complete rows (`WrittenComplete`; that
  there is a row when a copy of one is committed is `ReadInv`): what they leave out lies
  between the two revisions;
* `OneRevisionErases`: nothing is erased but by a task that opened the repository with
  one revision, so that the exception is that one race;
* `EachCountedOnce`: `CountedOnce`, from `AloneInv`: as long as no two tasks overlapped,
  the copy of the task at work is the row itself.

`RepositoryActivityProofs`. Who may write the cache is `Alone` (a worker that is alone
in the window between reading the tip and writing it holds the tip or somebody is
to come) and `Current` (the cache is the tip, or somebody is busy); `Announced` says
which worker will name a changeset, and `StartsFromHead` that an edit nobody
overtook starts from a head. `Ancestors` is a recursive function: that it
satisfies its equation (`LineExists`, `LineEquation`) and that a longer log changes
nothing below (`LineStays`) is proved with least counterexamples (`LeastNatural`).

* `ActivityInvariant`; `TypesCorrect`, `CacheNamesTheTip`, `ChangesetsAreAnnounced`: the
  invariants `TypeOK`, `CacheFollows`, `EveryChangesetAnnounced`;
* `EditsMakeNoHeads`: the action property `EditsExtendBranch`.

`SearchIndexProofs`. `MarksComplete` is not inductive: a run replaces marks that it saw
when its searcher was opened, and other runs have replaced some of them since. What
is inductive is about documents without a mark, which nothing deletes but a build,
and a build runs alone (`BuildsAlone`): before each mark in the index (`MarksReady`)
and before each mark that a run has seen (`SeenReady`), every changeset has one.
`SnapsOld` says that what a run does not know of a repository is younger than all it
knows. `PartSound` is the heart: what a run has added to a repository when it ends,
at any place of its list, leaves marks from which one may go on.

* `SearchInvariant`; `TypesCorrect`, `FilesAreFoundOnce`, `MarksTellTheTruth`: the invariants
  `TypeOK`, `OneDocumentPerFile`, `MarksComplete`;
* `RunsListTheirFiles`: the action property `RunListsFiles`.

`AccountsProofs`. The inductive part is `Knows`: for each kind of request, what it has
looked up and is still true of the tables unless another request has overtaken it
(`WorkersKnow`); `KeysCounted` bounds the ids of keys that are being added, `KeysOwned`
keeps keys with their accounts. One lemma per commit shows that a request that
knows keeps the tables distinct, and that one which does not leaves its names and
addresses in `unchecked`.

* `AccountsInvariant`; `TypesCorrect`, `LookupsFindOneAccount`, `LoginsEndWhereTheyBegan`,
  `FileIsCurrent`: the invariants `TypeOK`, `AccountsDistinct`, `SecondLookupAgrees`,
  `FileFollowsKeys`;
* `LoginsKeepTheirAccount`: the action property `LoginsKeepAccounts`.

`RepositoryStoreProofs`. Assumed of the constants: finitely many ids of groups and
repositories, `Foreign` a set of paths, and that `None` and `Plain` are neither ids
nor rows. A name is a sequence of names of any length, so the proof is about trees
of any depth. `Inv` has one part for each kind of state: `TreeOK` (the rows of groups
are a tree, whose paths are their names), `RowsOK`, `DiskOK`, `TasksOK`, what `scan`
lists, and `Settled`, rows and directories agree, unless `suspect`. Of a
repository, `Settled` says more than `DirectoriesFollowRows`: that a group's directory is
no repository, without which a move could not be followed, and that names follow the
tree. The argument:

* The tree is one of paths: `Up`, a recursive function, satisfies its equation
  (`Iterates`, `UpEquation`, with least counterexamples), and since names get
  shorter on the way up, it ends at the top (`GroupDepth`) and passes exactly the
  groups whose names are prefixes (`GroupsAbove`, `GroupsBelowAre`).
* A rename replaces a prefix: what the recursive renaming computes for each group is
  `Rebased` (`RenamedIsRebased`), which keeps names apart (`RebasedInjective`), also from
  those that do not move.
* One directory is moved and many rows are renamed; both do the same to every path
  (`MovedFacts`, `ChangeFollowed`, `FollowsMove`).
* Nothing that a row counts on lies below a repository (`NothingUnderRepos`), or below a
  group without content (`NothingUnderEmpty`), so moving the one or archiving the
  other disturbs nobody; `WithoutSettled` and `WithoutDirectories` are the same for
  rows that go.
* A task keeps what it read and commits later: where the group changed
  meanwhile, `suspect` is set, and otherwise its directory is where its row says.
* A rescan: the groups that are made complete the tree (`WithMissingKeeps`), `GroupIn`
  finds the right one for each row (`GroupInIs`), and rows for what is listed agree with
  what is there (`MappedKeeps`), all groups being above repositories
  (`GroupsAboveRepos`).

From it:

* `StoreInvariant`; `StoreTypes`, `NamesFollow`, `DirectoriesFollow`: the invariants `TypeOK`,
  `NamesFollowTree`, `DirectoriesFollowRows`;
* `DataLeaves`: the action property `DataLeavesWithItsRow`. If nothing is suspect
  afterwards, each created row has its data on disk (`Inv`), and what gives a row other
  data than it had (`DataKept`), a new row or a rescan, takes nothing from the disk;
* `Healed`: the action property `RescanHeals`, of the rescan alone (`MapReposKeeps`).

Every invariant and action property of the passing runs is a theorem. `VersionsUnique` and `VotesWhole` are proved,
and no run checks them any more.

Out of the prover's reach and left to TLC: liveness under fairness and `ENABLED`
(`CallerEnds`, `ThreadsEnd`, both `CatchesUp`), and the two runs that expect a violation.
The library's theorems of induction cannot be used with the installed provers; where
the computation of a recursive function matters, as for `Ancestors`, its equation is
proved with least counterexamples. About `Up` of `RepoPermissions` the proofs use only
that what it reaches exists.

## 5. What is not modelled

* Notifications and mails, gists, feeds and pages, diffs, annotations, rendering,
  the drawing of the graph: no state that another component depends on, or none at
  all. Most of the code that no definition stands for is of this kind: read-only
  pages and calls, the abstract classes of `lib/vcs`, routes, templates' helpers.
* Which revisions a pull request gets (ancestors, `hg` or `git log`), and its git
  ref, written before the commit (`model/pull_request.py:262`).
* Two iterations of one pull request at once: the model has them, no statement of
  the code is about them (`model/pull_request.py:380`).
* Another worker between the count of a group's content and its deletion
  (`controllers/admin/repo_groups.py:246`): the web's requests on groups are one step.
* Global permissions (create, fork, register): `hg.create.repository` and
  `create_on_write` are taken as given to everybody, which only adds behaviours.
* Permissions on user groups and their creation: `GroupAdmins` names who may edit
  them, and the check that a caller can see a user group before granting to it is
  left out, which only adds behaviours.
* User groups that Crowd and PAM enforce; API keys and allowed IP addresses, which
  are rows written by single requests.
* The content of repositories: trees, files, tags.
* Set-up, migration and configuration: run by one operator.

The parts listed as `not_modelled` or `partly` in `PROJECT.json` each have their
reason there.

## 6. Plan

Done: every component with a long sequence or an interleaving to go wrong has a
module and a run; liveness, faults and two refinements are checked; every invariant,
action property and refinement of the passing runs is proved. What is left:

1. To prove more about the operators that the rest stands on: `Up` of
   `RepoPermissions` as it is done for `RepositoryStore`, and that the loop of
   `calculate_pull_request_result` ends with one row whatever the database's order.
2. Invariants that were found while proving and say more than the runs ask, such as
   `Settled`, as properties of runs of their own.
