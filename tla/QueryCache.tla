------------------------------ MODULE QueryCache ------------------------------
(***************************************************************************)
(* The query cache of a board (cache.py; storage.py, _ensure_query_cache,  *)
(* read_all_tasks, rebuild_cache): one SQLite row per task file, and the   *)
(* Git HEAD, the untracked files and the directory signature they were     *)
(* taken at.                                                               *)
(*                                                                         *)
(* A reader validates the cache under its own lease, re-reads what HEAD,   *)
(* `git status`, the untracked files and the directory times call changed, *)
(* and queries after it gave the lease up.  A writer stores its row with   *)
(* neither lease nor validation.  People edit, commit, check out and       *)
(* restore files at any time.                                              *)
(***************************************************************************)
EXTENDS Naturals, Sequences

CONSTANTS
    Tasks,       \* task IDs; each is one file
    Readers,     \* processes that list, search or show
    Contents,    \* contents of a task file
    None,        \* no file, no row, no process
    MaxCommits,  \* bound: commits
    MaxChanges   \* bound: other changes people and writers make

ASSUME BoundsAssumption == MaxCommits \in Nat \ {0} /\ MaxChanges \in Nat
ASSUME NoneAssumption == None \notin Tasks \cup Readers \cup Contents

VARIABLES
    files,       \* task -> content of its file
    commits,     \* the trees committed so far, a sequence
    head,        \* the commit HEAD names
    cache,       \* the database, or None
    touched,     \* the directories changed since the signature in the cache
    lease,       \* the owner of cache-refresh.lock, or None
    op,          \* reader -> its command, or None
    writer,      \* a mutation that has activated its file, or None
    changes,     \* bounds people and writers
    unnoticed    \* history: tasks whose last change no signature shows

board == <<files, commits, head>>
vars == <<files, commits, head, cache, touched, lease, op, writer, changes, unnoticed>>

Content == Contents \cup {None}
Trees == [Tasks -> Content]
NoRows == [t \in Tasks |-> None]

\* row: what SQLite has of each task.  head, untracked: the signatures it was taken
\* at.  valid: the metadata is there.  sealed: a rebuild has finished it.
Databases ==
    [row : Trees, head : Nat, untracked : SUBSET Tasks, valid : BOOLEAN, sealed : BOOLEAN]
Commands ==
    [kind : {"query", "all"},
     at : {"wait", "refresh", "store", "collect", "erase", "fill", "ready", "answered"},
     seen : [Tasks -> SUBSET Content], head : Nat, changed : SUBSET Tasks, due : BOOLEAN,
     copy : Trees, answer : Trees, excused : SUBSET Tasks]
Mutations == [task : Tasks, content : Contents]

ASSUME NoRecordAssumption == None \notin Databases \cup Commands \cup Mutations

EmptyDatabase ==
    [row |-> NoRows, head |-> 0, untracked |-> {}, valid |-> FALSE, sealed |-> FALSE]

---------------------------------------------------------------------------
(* What Git says.  `git add` is taken together with its commit. *)

Tree == commits[head]
Tracked(t) == Tree[t] # None
Dirty == {t \in Tasks : Tracked(t) /\ files[t] # Tree[t]}
Untracked == {t \in Tasks : ~Tracked(t) /\ files[t] # None}
Between(c, d) == {t \in Tasks : commits[c][t] # commits[d][t]}

\* Wrong: the files that were untracked at the last refresh are forgotten.
CandidatesTracked ==
    Between(cache.head, head) \cup Dirty \cup (IF touched THEN Untracked ELSE {})

\* ensure_fresh: the paths it reads again.
Candidates ==
    Between(cache.head, head)
    \cup Dirty
    \cup {t \in cache.untracked : files[t] = None \/ files[t] # cache.row[t]}
    \cup (IF touched THEN Untracked ELSE {})

\* _finish_metadata of a refresh: HEAD as it is by now; the untracked files only
\* when the directories have changed.
Finished(db) ==
    [db EXCEPT !.head = head, !.untracked = IF touched THEN Untracked ELSE @]

\* _finish_metadata of a mutation: it knows its path, and keeps the rest.
FinishedFor(db, t) ==
    [db EXCEPT !.head = head, !.valid = TRUE,
               !.untracked = IF ~Tracked(t) /\ files[t] # None THEN @ \cup {t} ELSE @ \ {t}]

---------------------------------------------------------------------------

Init ==
    /\ files \in Trees
    /\ commits = <<files>> /\ head = 1
    /\ cache = None /\ touched = FALSE
    /\ lease = None
    /\ op = [r \in Readers |-> None]
    /\ writer = None /\ changes = 0
    /\ unnoticed = {}

---------------------------------------------------------------------------
(* People, Git and mutations *)

Change ==
    /\ changes < MaxChanges
    /\ changes' = changes + 1

\* A reader's command may answer with any content a file has had since it began.
Note == op' = [r \in Readers |-> IF op[r] = None THEN None
                  ELSE [op[r] EXCEPT !.seen = [t \in Tasks |-> @[t] \cup {files'[t]}]]]

\* A file that has again what it has in the cache's commit is clean and in no
\* difference of commits, whatever its row took up in between.
Unshown ==
    unnoticed' = unnoticed \cup
        {t \in Tasks : /\ cache # None /\ cache.valid
                      /\ <<files'[t], head'>> # <<files[t], head>>
                      /\ files'[t] = commits'[head'][t]
                      /\ files'[t] = commits[cache.head][t]
                      /\ files'[t] # cache.row[t]}

\* An edit in place leaves the directory's time as it is.
Edit ==
    /\ Change
    /\ \E t \in Tasks, c \in Content \ {None} : \E renamed \in BOOLEAN :
          /\ c # files[t]
          /\ files' = [files EXCEPT ![t] = c]
          /\ touched' = (touched \/ renamed \/ files[t] = None)
    /\ Note /\ UNCHANGED <<commits, head, cache, lease, writer>> /\ Unshown

Remove ==
    /\ Change
    /\ \E t \in Tasks :
          /\ files[t] # None
          /\ files' = [files EXCEPT ![t] = None]
    /\ touched' = TRUE
    /\ Note /\ UNCHANGED <<commits, head, cache, lease, writer>> /\ Unshown

Commit ==
    /\ Len(commits) < MaxCommits
    /\ \E S \in SUBSET Tasks :
          LET tree == [t \in Tasks |-> IF t \in S THEN files[t] ELSE Tree[t]]
          IN tree # Tree /\ commits' = Append(commits, tree)
    /\ head' = Len(commits')
    /\ UNCHANGED <<files, cache, touched, lease, op, writer, changes>> /\ Unshown

\* checkout, pull or merge: HEAD moves, and with it the files that differ.
Checkout ==
    /\ Change
    /\ \E c \in DOMAIN commits \ {head} :
          /\ \A t \in Between(head, c) : files[t] = Tree[t]
          /\ files' = [t \in Tasks |-> IF t \in Between(head, c) THEN commits[c][t] ELSE files[t]]
          /\ head' = c
          /\ touched' = (touched \/ Between(head, c) # {})
    /\ Note /\ UNCHANGED <<commits, cache, lease, writer>> /\ Unshown

\* git restore, checkout -- or stash: HEAD stays.
Restore ==
    /\ Change
    /\ \E t \in Dirty : files' = [files EXCEPT ![t] = Tree[t]]
    /\ touched' = TRUE
    /\ Note /\ UNCHANGED <<commits, head, cache, lease, writer>> /\ Unshown

\* The database is deleted, or the configuration it was built for has changed.
DropCache ==
    /\ Change
    /\ lease = None /\ cache # None
    /\ cache' = None
    /\ UNCHANGED <<board, touched, lease, op, writer, unnoticed>>

\* A mutation under the board lock activates its file by a rename.
Activate ==
    /\ Change
    /\ writer = None
    /\ \E t \in Tasks, c \in Contents :
          /\ c # files[t]
          /\ files' = [files EXCEPT ![t] = c]
          /\ writer' = [task |-> t, content |-> c]
    /\ touched' = TRUE
    /\ Note /\ UNCHANGED <<commits, head, cache, lease>> /\ Unshown

\* Rows just copied may be older than a file that Git calls clean by now; rows
\* that agree with their files again are not stale.
Settle(suspects, copied) ==
    unnoticed' = {t \in suspects \cup {u \in copied : files[u] = Tree[u]} :
                      cache' = None \/ cache'.row[t] # files[t]}

\* _refresh_cache: the row; and when it is new, HEAD as it is now.  A database
\* that is not there is made, and counts as valid from then on.  A reader that has
\* validated may meet a row that is older than its file.
Upsert ==
    /\ writer # None
    /\ files[writer.task] # None
    /\ LET t == writer.task
           db == IF cache = None THEN EmptyDatabase ELSE cache
           put == [db EXCEPT !.row = [@ EXCEPT ![t] = writer.content]]
           skipped == IF db.valid THEN Between(db.head, head) ELSE {}
       IN /\ IF db.row[t] = writer.content
             THEN cache' = put /\ UNCHANGED touched /\ Settle(unnoticed, {t})
             ELSE /\ cache' = FinishedFor(put, t)
                  /\ touched' = (touched /\ db.valid)
                  /\ Settle(unnoticed \cup skipped, {t})
          /\ op' = [r \in Readers |->
                       IF op[r] = None \/ files[t] = writer.content THEN op[r]
                       ELSE [op[r] EXCEPT !.excused = @ \cup {t}]]
    /\ writer' = None
    /\ UNCHANGED <<board, lease, changes>>

\* Whatever happens to it is ignored: a busy database, a file that is gone.
UpsertFails ==
    /\ writer # None
    /\ writer' = None
    /\ UNCHANGED <<board, cache, touched, lease, op, changes, unnoticed>>

---------------------------------------------------------------------------
(* Readers *)

At(r, s) == op[r] # None /\ op[r].at = s
Goto(r, s) == op' = [op EXCEPT ![r].at = s]

\* A step after which what the command has collected is of no more use.
Done(r, s) ==
    op' = [op EXCEPT ![r].at = s, ![r].head = 0, ![r].changed = {}, ![r].due = FALSE, ![r].copy = NoRows]

\* A "query" also wants the archive's identity; "all" is read_all_tasks.
Begin(r) ==
    /\ op[r] = None
    /\ \E kind \in {"query", "all"} :
          op' = [op EXCEPT ![r] =
              [kind |-> kind, at |-> "wait", seen |-> [t \in Tasks |-> {files[t]}],
               head |-> 0, changed |-> {}, due |-> FALSE, copy |-> NoRows,
               answer |-> NoRows, excused |-> {}]]
    /\ UNCHANGED <<board, cache, touched, lease, writer, changes, unnoticed>>

\* ensure_fresh begins: no database, another schema or configuration, an error
\* from Git or a file that vanished mean a rebuild.  Any Git command may have
\* rewritten the index since, which is a reason to renew the metadata.
Examine(r) ==
    /\ At(r, "wait") /\ lease = None
    /\ lease' = r
    /\ \/ op' = [op EXCEPT ![r].at = "collect"]
       \/ /\ cache # None /\ cache.valid
          /\ \E indexed \in BOOLEAN :
                op' = [op EXCEPT ![r].at = "refresh", ![r].head = head,
                                 ![r].changed = Candidates,
                                 ![r].due = indexed \/ touched \/ cache.head # head]
    /\ UNCHANGED <<board, cache, touched, writer, changes, unnoticed>>

ReadChanged(r) ==
    /\ At(r, "refresh")
    /\ op' = [op EXCEPT ![r].at = "store",
                 ![r].copy = [t \in Tasks |-> IF t \in op[r].changed THEN files[t] ELSE None]]
    /\ UNCHANGED <<board, cache, touched, lease, writer, changes, unnoticed>>

\* The lease is given up, unless a query's archive check wants a rebuild: the
\* archive's identity is not the committed one, or it has changes of its own.
Validated(r) ==
    \/ /\ op[r].kind = "query"
       /\ Done(r, "collect") /\ UNCHANGED lease
    \/ /\ op[r].kind = "query" => cache' # None /\ cache'.sealed
       /\ Done(r, "ready") /\ lease' = None

\* The rows, and the metadata when a row or a signature changed.
Store(r) ==
    /\ At(r, "store") /\ cache # None
    /\ LET o == op[r]
           row == [t \in Tasks |-> IF t \in o.changed THEN o.copy[t] ELSE cache.row[t]]
           db == [cache EXCEPT !.row = row]
       IN IF o.due \/ row # cache.row
          THEN /\ cache' = Finished(db)
               /\ touched' = FALSE
               /\ Settle(unnoticed \cup Between(o.head, head) \cup Between(cache.head, head), o.changed)
          ELSE cache' = db /\ UNCHANGED touched /\ Settle(unnoticed, o.changed)
    /\ Validated(r)
    /\ UNCHANGED <<board, writer, changes>>

\* rebuild_cache reads every file,
Collect(r) ==
    /\ At(r, "collect")
    /\ op' = [op EXCEPT ![r].at = "erase", ![r].copy = files, ![r].head = head]
    /\ UNCHANGED <<board, cache, touched, lease, writer, changes, unnoticed>>

\* unlinks the database and makes an empty one,
Erase(r) ==
    /\ At(r, "erase")
    /\ cache' = EmptyDatabase
    /\ Goto(r, "fill")
    /\ UNCHANGED <<board, touched, lease, writer, changes, unnoticed>>

\* and fills it in one transaction, with the signatures of that moment.
Fill(r) ==
    /\ At(r, "fill")
    /\ LET o == op[r]
           old == IF cache = None THEN NoRows ELSE cache.row
       IN /\ cache' = [row |-> [t \in Tasks |-> IF o.copy[t] = None THEN old[t] ELSE o.copy[t]],
                       head |-> head, untracked |-> Untracked, valid |-> TRUE, sealed |-> TRUE]
          /\ touched' = FALSE
          /\ Settle(unnoticed \cup Between(o.head, head), Tasks)
    /\ lease' = None /\ Done(r, "ready")
    /\ UNCHANGED <<board, writer, changes>>

\* read_all_tasks falls back to the files; a query makes an empty database.
Answer(r) ==
    IF op[r].kind = "all" /\ (cache = None \/ ~cache.valid) THEN files
    ELSE IF cache = None THEN NoRows ELSE cache.row

\* What an answer is excused for: a database another process is rebuilding, has
\* removed, or that a mutation has begun, and changes no signature shows.
Excused(r) ==
    IF cache = None \/ ~cache.valid \/ ~cache.sealed THEN Tasks ELSE unnoticed

\* cache.query and cache.all run after the lease is given up.
Query(r) ==
    /\ At(r, "ready")
    /\ op' = [op EXCEPT ![r].at = "answered", ![r].answer = Answer(r), ![r].excused = @ \cup Excused(r)]
    /\ cache' = IF cache = None /\ op[r].kind = "query" THEN EmptyDatabase ELSE cache
    /\ UNCHANGED <<board, touched, lease, writer, changes, unnoticed>>

Leave(r) ==
    /\ \/ At(r, "answered")
       \/ op[r] # None /\ lease # r    \* no lease within its time
    /\ op' = [op EXCEPT ![r] = None]
    /\ UNCHANGED <<board, cache, touched, lease, writer, changes, unnoticed>>

\* A killed reader's lease is released; its transaction is not committed.
Kill(r) ==
    /\ lease = r
    /\ lease' = None
    /\ op' = [op EXCEPT ![r] = None]
    /\ UNCHANGED <<board, cache, touched, writer, changes, unnoticed>>

---------------------------------------------------------------------------

Next ==
    \/ Edit \/ Remove \/ Commit \/ Checkout \/ Restore \/ DropCache
    \/ Activate \/ Upsert \/ UpsertFails
    \/ \E r \in Readers :
          \/ Begin(r) \/ Examine(r) \/ ReadChanged(r) \/ Store(r)
          \/ Collect(r) \/ Erase(r) \/ Fill(r) \/ Query(r) \/ Leave(r) \/ Kill(r)

Spec == Init /\ [][Next]_vars

---------------------------------------------------------------------------

\* What a reader is told of a task, its file has said at some moment of the
\* command (cache.py's promise that public reads are validated against Git and
\* the files), unless one of the named windows was hit.
ReadsAreExplained ==
    \A r \in Readers : At(r, "answered") =>
        \A t \in Tasks \ op[r].excused : op[r].answer[t] \in op[r].seen[t]

\* What cache.py says: public reads validate against Git and the files.
ReadsAreFresh ==
    \A r \in Readers : At(r, "answered") =>
        \A t \in Tasks : op[r].answer[t] \in op[r].seen[t]

=============================================================================
