# Verification of the SPWS ranklist

The repository runs the ranking of the Polish veteran fencers: Python pipelines
(`src/python`) read results, match fencers and write to a Postgres database whose
functions and triggers (`src/supabase/migrations`) score, queue and guard them; GitHub
workflows run the pipelines; a web frontend and a Telegram bot sit on top. There are two
databases, CERT and PROD. This directory holds TLA+ models of its concurrent core, checked
with TLC, and proofs about them, checked with TLAPS.

## 1. Inventory

| Component | State it keeps | Operations | What is hard |
|---|---|---|---|
| Self-healing recompute (ADR-072): `recompute/worker.py`, `db_connector.py`, `plugins/{recompute,ingest}.py`, the CDC and merge migrations | birth years, results, `tbl_recompute_queue`, the watermark; a worker's local copies | a correction or a merge queues events; the drain claims, re-files, marks DONE | roster writers interleave with a worker that makes dozens of remote calls and may die between any two |
| Joined-bracket filing at recompute (ADR-104): `joined_brackets/`, `_plan_joined_recompute` | each tournament's `url_results`, N, `txt_joined_order` | plan, find or create, patch the order, ingest, clear | one logical bracket stored in several tournaments, written one call at a time |
| Recorded ingest, promotion, replay: `promotion/{cert_apply,plan,plan_check,replay,run_record,gate}.py` | CERT's run record with its promote ledger, plan, fingerprints | ingest on CERT, plan, dry run, apply to PROD, settle an unanswered apply | two databases, no common transaction, answers that get lost |
| Results sync: `promotion/results_sync.py`, `ingest-event.yml` | the cycle row, one row per event with its verdict and pause | select, begin, compare, refresh and ingest, promote, outcome | overlapping cycles, jobs started by hand beside them, steps that fail between two writes |
| CERT refresh (ADR-108): `promotion/refresh.py`, `fn_align_fencers_to`, `fn_replace_event_registrations` | both rosters, whatever refers to a fencer, the recorded pairings, the restore point | read, pair, dry run, align, copy the registrations, restore | a person has different ids on the two sides, namesakes, rosters that change between reading and aligning |
| Daily close and lifecycle: `promotion/{close,lifecycle}.py` | event and season status | status steps by date | idempotence of a step run twice |
| Registration, identity proposals: SQL and `worker.py` | registrations, proposals, overrides, alerts | register, edit, propose, approve, notify | a proposal approved after what it was compared with has changed |
| Calendar field ownership (ADR-118): `scrapers/{evf_sync,calendar_write}.py`, `promote.py`, the admin form and SQL | nine details of an event on each side, what the scraper last wrote, the audit | scrape, edit by hand, carry to PROD | two writers of one field on two databases, forms saved long after they were opened |
| FTL read ledger: `scrapers/ftl_{ledger,auth}.py` and SQL | the day's reads, the stored session | draw, sign in, read, bounce, give back | concurrent processes, one daily cap, one session, midnight |
| Scoring engines, revisions, ranking, carry-over | scores, points, standings | score, rescore, aggregate | real-valued formulas; pure SQL |
| Event status trigger, rollback, draft path, alias write-back | event rows, drafts, aliases | guarded updates | operator-driven, one at a time |
| Pipeline framework, parsers, matcher | one process's context | run plugins, parse, match | no shared state |
| Frontend, edge function, workflows, notifications, docs | none of their own | | |

How they interact: everything meets in the database. A correction reaches the recompute
only through the trigger's queue rows; the worker reaches the results only through one RPC
per bracket; a results sync calls ingest and promotion as workflows and reads what they
recorded; the workflow lanes (`concurrency:` groups) serialise runs of one kind and are an
assumption of the models. What makes each part correct is in the sections below for the
modelled parts and in `PROJECT.json` under `hazards` for all of them.

## 2. Modules

| Module | Models | Role |
|---|---|---|
| `Recompute` | the queue, the roster's writers, every remote call of a drain, crashes | component |
| `SelfHeal` | what ADR-072 promises, with no queue, worker or brackets | abstract specification |
| `MCRecompute` | three fencers, two events that share one, two categories | instance |
| `RecomputeProofs` | `TypeOK`, `StaleIsQueued` and `FinishedIsFresh`, for every instance; `Recompute` implements `SelfHeal`, for every roster and batch | proofs, refinement |
| `JoinedFiling` | one event under the joined engine: stored orders, plan, creation, clearing | component |
| `MCJoinedFiling` | one listing with a never-stored place, with and without a tie | instances |
| `JoinedProofs` | `TypeOK`, `OwnDigits`, `StaleIsQueued` and `UnstoredAgree`, for every instance; `SiblingsAgree`, for every bracket the run `joined_move` stands for | proofs |
| `Promotion` | one event's way from its source over CERT to PROD: ingest, gate, promote, both databases | component |
| `Publication` | what is promised of one event's results on PROD, with no CERT, runs, jobs or calls | abstract specification |
| `MCPromotion` | two versions of the listings, two of the roster, one state the gate blocks | instance |
| `PromotionProofs` | `TypeOK`, `HandworkStays` and `NeverOlder`, for every instance | proofs |
| `LedgerProofs` | `LedgerIsTrue` and `OnlyPassedIsPublished`, for every instance without reversals; `Promotion` implements `Publication` there | proofs, refinement |
| `ResultsSync` | cycles of the sync over one event, jobs by hand, ingest and promote as the sync sees them, verdicts and pauses | composition of the sync, the ingest and the promote |
| `MCResultsSync` | two cycles, two versions of the listings, one the gate blocks | instance |
| `ResultsSyncProofs` | `TypeOK`, `NothingMissed` and `FailurePauses`, for every instance | proofs |
| `ReadLedger` | clients of several processes on FTL's day row and session row | component |
| `MCReadLedger` | two clients, one draw beside another, midnight | instance |
| `ReadLedgerProofs` | `TypeOK`, `AllCounted` and `HonouredStays`, for every instance | proofs |
| `EventDetails` | an event's details: calendar, scraper, CERT, mirror, PROD, the forms of both sides | component |
| `MCEventDetails` | the letter and the link, two values | instance |
| `EventDetailsProofs` | `TypeOK`, `KeptForPerson` and `HandEditStands`, for every instance | proofs |
| `RosterRefresh` | both rosters, the pairing, each step of a refresh, the restore, LOCAL's mirror | component |
| `MCRosterRefresh` | two namesakes with years confirmed, estimated or missing, on two sides | instance |
| `RosterRefreshProofs` | `TypeOK`, `PersonsKeepRows` and `CopiedEntriesTheirs`, for every instance | proofs |

### Recompute

State. `year` is `tbl_fencer`'s birth year as the V-category it gives in the season (with
`NoCategory` for NULL and `Deleted` for a row a merge removed); `rows[e][c]` the result rows
of event e's tournament of category c; `pending` and `claimed` the events with queue rows of
that status (the partial unique index makes PENDING rows one per event; DONE rows never
come back and are not kept); `quiet` the watermark older than the debounce window. The
worker's variables are the local ones of `drain_recompute_queue`, `claim_recompute_batch`,
`LoadCommitted` and `_commit_recompute`. `open` is a correction whose transaction has begun
and not committed; `missed` is a history variable: events such a correction touched
without leaving a row that is PENDING.

Actions, and the code each is the whole of:

| Action | Code |
|---|---|
| `Correct`, `BeginCorrection` / `CommitCorrection` | an UPDATE of a birth year with `trg_fencer_change_enqueue`, in one step or in a transaction that stays open |
| `Merge` | `fn_merge_fencers` |
| `CheckQuiet`, `Select`, `Claim` | the debounce and the two requests of `claim_recompute_batch` |
| `LoadRows`, `LoadYears` | the two reads of `fetch_event_results`; `LoadYears` also computes the partition, which reads nothing else |
| `WriteBracket`, `WriteRefused` | one `fn_ingest_tournament_results` (one transaction: delete, insert, score), accepted or refused by the unique index or the V-category trigger |
| `ClearBracket`, `EventDone`, `MarkDone`, `Crash` | `clear_tournament_results`; the loop; `mark_recompute_done`; the job cancelled or dead |

Data abstracted: scores, places, weapons and genders (one bracket family per event), the
season's dates (a birth year is its category). One worker: the recompute workflow has a
lane of its own. `Faults` names what the environment may do, so that a run can tell apart
what each hazard breaks.

### JoinedFiling

State: per category of one event, whether a tournament exists, its URL, its stored order
(a function from places to digits; its domain is N) and its fencers; the event's queue
statuses; and the worker's groups. `PlanRefused` is the `ValueError` of
`_plan_joined_recompute` (rows of two brackets, or a tie whose fencers now differ),
`FindOrCreate` and `Ingest` the two remote calls of a group (a crash can come between them),
`PatchedOrder` is `patch_order`, `Clear` is `clear_tournament_results`, whose last statement a
CHECK constraint refuses when the tournament has an order: the rows are gone by then.

### Promotion

State: `source` is what the organiser's pages show; per database the revision of the
participants' roster rows (`roster`) and the event's results (`content`: which version of
the listings, filed by which roster); `runs` is `tbl_ingest_run` with its prior, inputs,
result and ledger column; `ingest` and `promote` are the local variables of the two jobs at
each step; `answer` and `late` hold what the database says of an apply and the applies
whose caller has given up.

| Action | Code |
|---|---|
| `Refresh`, `DrainCert` | `run_refresh`, and the drain after it and after the apply |
| `ReadSource`, `OpenRun`, `PlanFails`, `NothingFinal`, `SendCert`, `SettleIngest` | `ingest_recorded`, with `fn_ingest_run_open` and `fn_ingest_run_close` |
| `Commit`, `RollBack`, `CommitLate` | `fn_promote_event_apply` on either database, one transaction |
| `ReadRun` … `Record` | `replay`: the latest run, the gate's reads one by one, `prior_fingerprint`, the plan, the dry run, the apply or its second reading, the drain, the ledger |
| `LoseIngestAnswer`, `LosePromoteAnswer`, `IngestDies`, `PromoteDies` | an `ApplyError` with `uncertain`, a cancelled job |
| `SourceMoves`, `Correct`, `HandWrite`, `ScheduledDrain` | the world: listings, PROD's roster, foreign writes to PROD, the drains by schedule |

The workflow lanes are part of the model: cert-write holds an ingest and CERT's drains,
prod-write a promote and PROD's, so the two jobs interleave with each other and each drain
only with the other lane's job. A fingerprint is the triple (listings, roster, filing) that
determines `fn_event_result_document`, so equal triples are equal documents. Corrections are made
on PROD only and reach CERT by the refresh. What an ingest itself writes to the master data
(created fencers, moved birth years) is part of its listing's result. A late commit may
come at any later time, which is more than a connection allows.

`Publication` is the view from PROD: listings the organiser has shown are published whole,
no older than those they replace, filed by the participants of that moment and not blocked
by the gate; hand-written results are left alone; the ledger announces only what PROD shows
or has passed. `IsPublication` says that `Promotion` implements it, with PROD's side of `roster` and
`content` and the listings of the runs recorded as applied or skipped.

### ResultsSync

One event. State: `source`, what the organiser's pages show; CERT's and PROD's filed results;
`runs`, `tbl_ingest_run` with its listings, gate and ledger; the event's verdict and pause; and
per cycle the local variables and job outputs of `ingest-event.yml` at the step it has reached.

| Action | Code |
|---|---|
| `Select`, `SelectManual`, `Begin`, `BeginOthers` | `select`, `run_select`, `fn_results_sync_begin` with its twenty minutes |
| `StartCompare`, `Compare`, `CompareFails` | `run_compare`: the two reads, the pages, the verdict |
| `StartIngest` … `PauseNotLifted` | the job ingest-event: refresh, open, read, close, apply, finish, gate, and a failure at each point |
| `StartPromote` … `PromoteDies` | the promote job: latest run, gate, prior, dry run, apply, ledger |
| `Judge`, `Record`, `OutcomeDies` | `run_outcome`: what it reads, `_said`, the two calls that record verdict and pause |
| `SourceMoves`, `Correct`, `TwentyMinutes` | the world |

The lanes cert-write and prod-write admit one job each. What `Promotion` shows step by step of
one ingest and one promote is one or two steps here. Troubles (a failure, a job by hand, a
correction) share one bound. Listings never become unfinished again. Not modelled: the
morning line and Telegram, `RESULTS_SYNC=off`, the window and the links as data, the FTL hours
and the compare of the schedule alone (ADR-120 section 3), so `NothingMissed` speaks of
events whose listings are read whole.

### ReadLedger

State: per day the row's requests and sign-ins; the stored session, the cookies FTL has handed
out, those not near their expiry and those FTL still accepts; per process the client's stage,
its allowance and its cookie. A client opens, draws a chunk of the day's row under its lock, signs
in when the stored session is near its expiry, reads, bounces (drops the session it carries,
by compare-and-delete, and signs in anew) and gives its rest back when it closes; the store may
fail any call, the process may die, FTL may end a session, the day may turn. `sent`, `drawnOn`
and `misplaced` are history: what went out per day it was drawn on, and what was given back to
another day. The give-back reads the day anew (`ftl_ledger._warsaw_today`), so a client that
closes after midnight shrinks the new day's row, and that day may send more than its cap by what
was given back. Two processes may sign in at once, so one sign-in per ten days is not promised.
Left out: the pacing,
`FTL_READS=off` (a client that does nothing), the pruning of old rows.

### EventDetails

State: `source` is what the pages say; `row` the details on CERT and PROD; `written` is
`tbl_calendar_field_state`; `byPerson` the details whose last audited change on CERT was a
person's; `certAt` and `personAt` the two times the mirror compares; `form`, `scraped` and
`payload` the three copies that are read in one step and written in a later one. `hand` and
`handAt` are history: who put a value, and when.

| Action | Code |
|---|---|
| `Scrape`, `Apply` | `evf_sync` reads the pages, `evf_fields`; `fn_calendar_apply_fields`, one transaction under the row's lock |
| `OpenForm`, `Save` | `openEditForm` fills the draft; `handleSave`, `fn_update_event` and the audit trigger write all of it |
| `MirrorRead`, `MirrorCreate`, `MirrorUpdate` | `promote_calendar` and `fn_mirror_events_to_prod` |
| `Dies`, `SourceMoves` | a cancelled run; the organisers |

The letter and the link have rules of their own and follow the general ones too, so two
details stand for nine. Times are the order of the transactions. Not modelled: the weapons,
the reports of held values, the form's defaults (PLN), the PZSz scraper's write rules, the
creation, renaming and deletion of events, the details outside the nine, and payloads from
before ADR-118.

### RosterRefresh

State: per side the roster (id to row; a row has a person, a year and whether the year is
estimated) and the sequence; CERT's rows that refer to a fencer (`link`); per side the event's
registrations (`entry`); the recorded pairings; the restore point; and the refresh under way, with
what it has read. Who a row is about (`person`) is what no code can see and the properties are
about. `Honest` says that a confirmed year is the person's. LOCAL is refreshed the same way; "cert"
stands for the target.

| Action | Code |
|---|---|
| `Start`, `ReadTarget`, `ReadProd`, `Plan`, `ReadSequence` | `run_refresh` up to the payload, with `pair_rosters` and the stops of an unpaired row and, in the automatic refresh, of a renumbering |
| `DryRun`, `SavePoint`, `Align`, `AlignRefused` | `fn_align_fencers_to` with its demands (`Accepts`) and its `setval` (`SetSequence`), twice, and the restore point between |
| `ReadEntries`, `CopyEntries` | the registrations read from PROD, `fn_replace_event_registrations` |
| `Mirror`, `Restore` | `run_copy_registrations` with the comparison of the rosters' visible fields (`Looks`); `run_restore` |
| `Create`, `Promote`, `Confirm`, `Merge`, `File`, `Enter`, `Decide`, `Die` | the world between any two calls |

The two phases over negative ids are one step, since they are one transaction. Everybody of one
name and year is one person. The mirror compares what the rows show: name, year, whether it is
estimated; the other compared fields (club, gender, nationality, aliases) are taken to be equal for
namesakes, the case in which they do not help. The rules that the code takes for granted
are kept while `Careless = FALSE`; without them TLC violates `PersonsKeepRows` or `TypeOK`:

* One fencer of a name on each side is one person (`OneEachIsOne`, the administrator's rule of
  ADR-108 section 3). A recorded pair can make the last two of several namesakes "one each"
  although their confirmed years differ.
* A restore point is gone back to only when its alignment took place and nothing was restored
  or aligned since (`run_restore`, "valid until anything else writes the target"). The point is
  saved before the alignment, and nothing in it says whether the alignment was refused; restoring
  such a point swaps the rows of two fencers whose ids the plan would have exchanged. Nor is it
  gone back to while a pairing is recorded (`Restore`, `recorded = {}`): the decision names the ids
  the alignment gave, which the restore takes back.
* A recorded pairing that no longer names its own row after an alignment is removed. It names its
  PROD row by the id alone.
* PROD does not give an id that a merge has freed to somebody else while a refresh or a decision
  still means the former holder (`Stale`). A promote inserts fencers with CERT's ids, so it could.
* An alignment that has set CERT's sequence commits (`AlignRefused`). `setval` is not rolled back,
  and the function's last checks come after it (`ALIGN_ROSTER_MISMATCH`, `ALIGN_REFERENCES_MOVED`);
  they fail only if somebody else writes the roster between its statements. CERT's sequence may
  then stand below an id in use.

A plan that breaks the first rule is not taken, so such a state has no next step of the refresh.
Not modelled: the results links, the report, the drain and the final comparison, which
write no roster, and the aliases.

## 3. Runs

| Run | Question | Result |
|---|---|---|
| `recompute_safety` | Under crashes, mid-write corrections, long transactions and merges, is an event with a misfiled result always queued (`StaleIsQueued`), and is what the drain has finished fresh or queued again (`FinishedIsFresh`)? | holds |
| `recompute_heals` | While an event's own recompute is not interrupted or overtaken, does the worker implement `SelfHeal`, and does the queue drain to a fresh fixpoint (`QueueDrains`) in spite of crashes elsewhere? | holds |
| `recompute_poison` | Does the queue drain if a correction falls between an event's load and its last write? | violated |
| `joined_safety` | Whatever is refused, dies or is corrected mid-write: does a stored order name its fencers' own categories (`OwnDigits`), do never-stored places agree (`UnstoredAgree`), is a misfiled result queued? | holds |
| `joined_move` | When corrections neither empty nor create a category, do a listing's tournaments end with one order (`SiblingsAgree`) and does the queue drain? | holds |
| `joined_clear` | Every category has its tournament; one correction empties one. Does the queue drain? | violated |
| `promotion_safety` | Whatever ingests, promotes, corrections, foreign writes, lost answers, late commits and dead jobs interleave: does PROD never go back to older listings (`NeverOlder`), do foreign results stay (`HandworkStays`), does only what the gate passes arrive (`OnlyPassedIsPublished`), is a recorded success true (`LedgerIsTrue`)? Do both jobs together implement `Publication` (`IsPublication`)? | holds |
| `promotion_stranded` | Is a result that came by promotes and recomputes alone always a prior the next run's promote accepts? | violated |
| `sync_cycles` | When cycles overlap and one failure, hand job or correction falls anywhere: did a cycle that says "unchanged" or "promoted" miss no listing (`NothingMissed`), does PROD catch up unless the event ends paused (`CatchesUp`), and does a cycle whose ingest failed end with the event paused, an outcome job that dies and a run left open aside (`FailurePauses`)? | holds |
| `read_ledger_safety` | Is every request counted by its day's row, give-backs of another day aside (`AllCounted`), and is no session FTL honours dropped (`HonouredStays`)? | holds |
| `details_safety` | Does no scraper replace a person's value (`KeptForPerson`), no mirror a PROD edit by details read before it (`HandEditStands`), and does what the calendar says reach PROD (`CalendarReachesProd`)? | holds |
| `refresh_safety` | While both rosters are written between any two calls and runs die: does every row stay with its person through an alignment or a restore (`PersonsKeepRows`), is a copied registration linked to its own person, look-alike namesakes of the mirror aside (`CopiedEntriesTheirs`), and does the automatic refresh alone bring CERT to PROD once nothing is left to decide (`AutoCatchesUp`)? | holds |

The violated runs are findings (`PROJECT.json`, `findings`), each against a sentence of the
repository's own documentation or comments: the worker's "convergent", the ADR's "never
blockable", and, for `promotion_stranded`, the comment of
`txt_prior_fingerprint` that a recompute on both sides "does not strand the next promote": it
does when CERT had moved on to a run that was never promoted.

More were seen while modelling and have no run. A run left RUNNING between `fn_ingest_run_open`
and `fn_ingest_run_close` has neither listings nor a gate, which the sync's outcome reads as
"nothing final yet" (`results_sync.py:529`), so that failure does not pause the event;
`FailurePauses` leaves it out (`LeftOpen`). An ingest whose call went unanswered takes any
change of the event for its own commit (`cert_apply.py:274`); a dead job's apply that commits
late is such a change, and the run then closes FINISHED with an older result than it read
(section 4, `LedgerProofs`). What goes wrong where the refresh's rules are not kept is listed under
`RosterRefresh`. `run_verify` says "the same two people at swapped ids are a difference"
(`refresh.py:759`): not if they are namesakes whose rows look the same, and LOCAL's copy then gives
each the other's registrations (`TakenForOne`). Two namesakes without a confirmed year on either side
stop every automatic refresh until a decision is recorded. A worker that dies between two
bracket writes of one event leaves a fencer in neither, though the handbook calls an event
commit transactional (`WriteBracket`, `Crash`). A tournament created by a correction has no
listing URL, so a later correction patches its siblings' orders and not its own: `SiblingsAgree`
is checked only where no category is created or emptied. A fencer without a birth year is
grouped nowhere and drops out of the bracket that is rewritten.

Bounds. `MaxEdits`, `MaxCrashes` and `MaxMerges` bound the environment, never the worker. Two
corrections are the least that can race (one claimed, one during the work) and two events the
least for a batch with an unfinished part; they share a fencer, so one correction queues both.
Three fencers allow a merge and a bystander. Two crashes let a drain die, be resumed and die
again. In `JoinedFiling` the listing has a place nobody stored, since that digit exists only in
the stored orders; three categories let a correction create one while two others stay;
`BalancedSpec` starts from categories large enough that two corrections cannot empty one, which
is the ordinary case of `joined_move`; `joined_clear` starts with every category populated
(`PeopledSpec`) and has one correction, so that no category is created and nothing but the clear
can stop the drain. `JoinedSafety` contains a tie, so that a correction can
make a plan impossible. In `Promotion` two runs are the least that can be put in the wrong
order, two versions of the listings and of the roster the least that can be told apart, and one
fault of each kind (a lost answer, a death, a foreign write) can fall at every step; the gate
blocks one of the four (listings, roster) pairs (`Unfit`), so a run that is never promoted
occurs. Versions only grow (`Undo = FALSE`): a correction taken back during the gate's reads
restores what it has not seen, and `OnlyPassedIsPublished` is not claimed of that.
`promotion_stranded` needs three runs: one promoted, one blocked, one after the correction, and
no fault. In `ResultsSync` two cycles are the least that overlap; the second version of the
listings is the one the gate blocks, so a blocked run and one that passes both occur; one
trouble can be any failure, hand job or correction at any step (combinations for one ingest and
one promote are `promotion_safety`'s). `NothingMissed` looks back at what one cycle, c1, was
asked to read (`Watched`), which by the cycles' symmetry is any cycle. In `EventDetails` two
saves allow one on each side, or two on one with stale forms; one form is open at a time; the
source moves once. In `RosterRefresh` two namesakes are the least a pairing can confuse; they
begin with the same ids on both sides, exchanged ids, or one of them new, and with a year
confirmed, estimated (and then that of the other) or missing on either side; in one start nothing
tells the two apart, with the ids exchanged; two writes of the
world can fall between any two calls, among them a third fencer. The deadlock check is off
because each system stops when nothing is due and the bounds are used up.

Fairness. `Drain` is weakly fair: the workflow's cron starts a drain again and again and a
running job proceeds or dies. `BecomeQuiet` is weakly fair: it is the passing of the debounce
window. `CommitCorrection` is weakly fair: a transaction ends. Corrections, merges and crashes
have no fairness. In `ResultsSync` each cycle's schedule and job are weakly fair, and so are the
ingest job, the promote job and the passing of the twenty minutes: workflows are queued, not
lost. In `EventDetails` the daily reads are weakly fair and the two transactions strongly: runs
may die, not all of them. In `RosterRefresh` a refresh that has begun proceeds or dies (weakly),
and the automatic one, which every ingest starts with, is not starved by refreshes started by
hand (strongly). `QueueDrains` is claimed of behaviours in which the bounded corrections and
crashes have stopped, which is what "converges" can mean.

## 4. Proofs

`RecomputeProofs` proves, for any sets of fencers, events and categories and any bounds,

* `TypeCorrect`: `Spec => []TypeOK`;
* `NoCorrectionForgotten`: `Spec => []StaleIsQueued`;
* `FinishedStaysFresh`: `Spec => []FinishedIsFresh`.

`StaleIsQueued` is not inductive: `MarkDone` removes queue rows, so one has to know that what
it removes is fresh. `HealingInv` adds `FinishedIsFresh`: events out of `todo`, and the written
part of the current one, hold fresh results unless they were queued again meanwhile. The
argument rests on three lemmas: a written bracket is fresh *now*, even if it was planned from
old birth years, because the V-category trigger admitted it (`WrittenIsFresh`); a correction or
a merge makes results stale only in events it queues (`CorrectQueues`, `MergeQueues`); one that
stayed open does so only in events it queues or that the history variable records
(`CommitNotes`). So the guard trigger, meant against bad ingests, is also what makes the
recompute safe against corrections in the middle of a write.

The same module proves the refinement: `RecomputeHealsAtomically`, `Spec => HealsAtomically`,
for any roster, events and categories, assuming `Gentle`, which is what the run
`recompute_heals` assumes: work dies only between events' writes, corrections do not touch the
event being written, nobody is merged or without a birth year. `AtomicInv` adds to `HealingInv`
what the refinement mapping needs: nothing is open and every year known (`Plain`), nobody stands
in two brackets of one event (`Filed`), the batch is still claimed and its unfinished part
contains the event under way (`Batched`), and between two calls of one event's writes each
bracket holds its former fencers or its new ones (`Between`). Loading, writing a bracket and
clearing one are then stutters, since the mapping shows the event as it was loaded; leaving the
event maps to `Heal` (`WrittenIsHealed`, `LeftWhole`). `EveryGroupIsWritable` shows that the
guard trigger and the unique index never refuse under `Gentle`. The run `recompute_poison` shows
what happens outside it.

`JoinedProofs` proves, for any listings, places, categories and bounds,

* `JoinedTypeCorrect`: `Spec => []TypeOK`;
* `StoredOrdersHaveOwnDigits`: `Spec => []OwnDigits`;
* `JoinedStaleIsQueued`: `Spec => []StaleIsQueued`;
* `UnstoredPlacesAgree`: `Spec => []UnstoredAgree`, if listings differ in length;
* `BalancedSiblingsAgree`: `BalancedSpec => []SiblingsAgree`, for one listing without ties, if no
  drain crashes and no correction falls between a drain's calls.

For `OwnDigits` the strengthening
`DigitsInv` says that what the worker read is a whole order of the row's listing, and that a
group between `find_or_create` and its write still has its plan. The lemma about the
operator, `PatchedHasOwnDigits`, says that `patch_order` returns an order of the same places
in which each of the group's rows finds the group's category; untied places are what it needs.
`FiledInv` adds that the brackets written so far are filed by the years of now. `SheetInv` says that
there is one sheet per listing from which every stored and every loaded order has its digits
of places nobody stored; the patch keeps them because no row it patches from sits at such a
place. `LengthsDiffer` is needed: a tournament created by a correction has no URL, so its
length and order are all that tells whose it is, and two listings of equal length and order would
be patched as one.

`BracketInv` is the argument of `SiblingsAgree`. Each category has more fencers than corrections
are to come, so none is emptied or created (`StaysPeopled`). While nothing is written, every
fencer is filed once and the tournaments store one URL and one order (`Settled`). While a drain
writes, it has read every fencer once, with one order, and today's birth years; what it has
written is as its plan, the rest as it was read (`HalfWritten`). So every group is patched from
the same order by the same years, and no plan is refused (`NothingRefused`). All three
hypotheses are needed: with a tie the plan can be refused, an emptied category stops the drain
(`joined_clear`), and a drain that ends halfway leaves the order it has written beside the
others.

`PromotionProofs` proves, for any versions, any gate verdicts and any number of runs and faults,
with corrections taken back too,

* `PromotionTypeCorrect`: `Spec => []TypeOK`;
* `HandworkIsNeverOverwritten`: `Spec => HandworkStays`, an action property;
* `PublishedNeverOlder`: `Spec => NeverOlder`, an action property, if `Undo = FALSE`.

`HandInv` is the invariant: `Phases` says what each job knows at each step (an apply is only
sent with a listing and a filing), `Foreign` that no fingerprint the jobs compare PROD with (a
run's prior or result, the prior promote chose, that of a call still to commit late) is of
results somebody else wrote. CERT never holds such results, so no run records one;
`prior_fingerprint` only lets PROD's state through when it is one of those. `AcceptsNoForeign`
closes the argument: the apply compares what PROD holds inside its own transaction, so a foreign
write after promote's check is seen too.

`NeverOlder` needs an order on fingerprints. `OrderInv` adds `Ordered` to `HandInv`: whatever is
written down anywhere (results, runs, the jobs' copies, calls still to commit late) names
listings the source has shown, and every prior that promote has taken to its dry run, or that a
late call still carries, is of listings no newer than the run's it publishes. That holds when
promote plans, because it reads the source again and stops unless the run's listings are what
the source shows now, the newest there are. The apply compares PROD with that prior inside its
transaction, so what it replaces is no newer. With corrections taken back (`Undo = TRUE`) the
source itself goes back, and the premise fails.

`LedgerProofs` proves, for any versions, gate verdicts, number of runs and faults, if `Undo =
FALSE`,

* `LedgerNeverLies`: `Spec => []LedgerIsTrue`;
* `OnlyClearedIsPublished`: `Spec => OnlyPassedIsPublished`, an action property;
* `PromotionPublishes`: `Spec => IsPublication`, the refinement.

`LedgerInv` is what the two databases and the jobs know of each other. CERT never goes back, and
the row of a job under way stays RUNNING with a prior as new as every result before it. A run
can be closed with a result *older* than the listings it read: an apply left behind by a dead
job commits late, and the ingest's second reading (`SettleIngest`) takes the moved event for its
own commit ("only the apply writes the event", `cert_apply.py`). `Unfound` shows that such a
result is never on PROD and equals no result that can get there, so that "skipped", which says
PROD shows the run's result already, stays true. `GateInv` adds `Cleared`: the state of CERT the
gate last saw is not blocked, no older than the run's result and inputs, and no newer than the
source and PROD's roster. The apply insists on PROD's inputs and on the expected result inside
its transaction, where the two bounds meet.

`PublicationStep` puts these together, step by step: an apply, in time or late, is a `Publish`
or a stutter (`AppliedIsPublished`), a drain of PROD a `Refile`, a step on the run records an
`Announce` (`RowsAnnounce`), and everything on CERT and in the jobs a stutter. Promote's second
reading of the source is what it hangs on: without it an event can be published from a run older
than the one the gate looked at.

`ReadLedgerProofs` proves, for any processes, cap, chunk and faults,

* `LedgerTypeCorrect`: `Spec => []TypeOK`;
* `EveryRequestIsCounted`: `Spec => []AllCounted`;
* `HonouredIsNeverDropped`: `Spec => HonouredStays`, an action property.

The invariant is `TypeOK` with `Carries`: a process that holds an allowance has the day it was drawn
on, and one that bounced carries a cookie FTL no longer honours. `AllCounted` adds up over the
processes; its proof takes the sum as the cardinality of the set `Held(d)`, so that a draw, a
request and a give-back are each the arrival or the departure of as many elements as the row
or `sent` moves. `HonouredStays` follows because the drop removes exactly the bounced cookie.

`ResultsSyncProofs` proves, for any cycles, versions, gate verdicts and bounds,

* `SyncTypeCorrect`: `Spec => []TypeOK`;
* `SyncMissesNothing`: `Spec => []NothingMissed`;
* `SyncFailurePauses`: `Spec => FailurePauses`, an action property.

`SyncInv` is the argument of `NothingMissed`, and it rests on one fact: PROD's listings never get
older. Promote applies a run only if the run's listings are what the source shows when it
checks, and the apply insists on the prior it saw (`PromoteSound`). A run opened after a cycle was
asked read listings at least as new as the cycle was asked for, and a cycle that says
"unchanged" compared the source with the latest finished run, whose result is of the listings it
read (`RunsSound`, `SoundCycle`). Whoever else applies a run meanwhile, PROD can only be newer.

`PauseInv` is about the two lanes: the job that holds one is the job its cycle waits for
(`Waits`), so a cycle whose ingest has stopped has no promote to overtake the outcome, and a run
its ingest closed either read something final or says that it failed (`Stopped`). The outcome
then has a verdict to pause by, whatever hand jobs and other cycles did to the ledger
(`VerdictPauses`), and keeps it until the cycle ends: only `Record`, which pauses, or the
outcome's death ends it (`JudgedEnds`). A run that was left open stays open (`OpenKept`), so the
exception made for it when the cycle is judged is still one when the cycle ends.

`EventDetailsProofs` proves, for any details, values and bounds,

* `TypeCorrect`: `Spec => []TypeOK`;
* `PersonKept`: `Spec => KeptForPerson`, and `EditStands`: `Spec => HandEditStands`, action properties.

`HandHeld` is what a scraper can know of a person's value: it differs from the state row, and
where there is no state row the audit names the person. A held value starts its state row with NULL,
which no value equals, so the invariant survives the call that first meets it. `Timely` orders
the times: an edit is no later than `personAt`, a payload's time no later than `certAt`, and the
mirror writes only under a payload's time later than `personAt`. `EditStands` is about that time and not
about CERT's now: details read before an edit and landing after CERT was written again do not
replace it.

`RosterRefreshProofs` proves, for any people, names, years, rosters to begin with and bounds, if
`Careless = FALSE`,

* `RefreshTypeCorrect`: `Spec => []TypeOK`, in which the references are sound: no link points at
  a fencer who is not there;
* `EveryPersonKeepsTheirRows`: `Spec => PersonsKeepRows`, an action property;
* `CopiedEntriesAreTheirs`: `Spec => CopiedEntriesTheirs`, an action property.

The argument is that an id means one person from the moment a refresh reads it until its
alignment. `Persists` is what every write of the world keeps: an id in use afterwards was in use
before for the same person, or is above what the sequence had given out, or is one PROD took from
CERT and nobody was waiting for. `Held`, `Noted` and `DecisionsOwn` then say that the rosters
read, however old, and the recorded pairings agree with the databases wherever an id is still in
use; `PairsArePersons` shows of `pair_rosters` that whoever it pairs is one person, `PairsOwn` keeps
that to the alignment, and `Accepts` makes the pairing cover the roster of that moment
(`PartnerIs`). `PointOwn` and `RestoreOwn` carry the same through the restore point, and
`EntriesOwn` and `CopyOwn` through the copy of the registrations, where the mirror's comparison leaves
the one exception (`Taken`).

The assumptions are `RecomputeAssumption`, `JoinedAssumption`, `PromotionAssumption`,
`ReadLedgerAssumption`, `ResultsSyncAssumption`, `EventDetailsAssumption` and
`RefreshAssumption`, with `NullAssumption` (NULL is no fingerprint), which the runs evaluate.
Only model-checked: the liveness properties `QueueDrains`, `CatchesUp`,
`CalendarReachesProd` and `AutoCatchesUp`. Liveness under fairness and induction over data
are out of the prover's reach.

## 5. Not modelled, and the plan

What a continuation would take, in this order:

1. The classic engine's places (`Places`): dense ranking against a reference definition.
2. The ingest's own refresh (`RosterRefresh`) composed with `Promotion`: the participants' part of
   an ingest's inputs is compared by person, so a renumbering between an ingest's reading and its
   apply would not be noticed; today the lane cert-write keeps them apart except for a refresh
   started by hand.
3. Identity proposals and alerts of registrations. Each answer is a few statements under a row
   lock, so there is little to interleave; the two hazards listed (`PROJECT.json`) are its open ends.

Left out for good: parsers, the matcher and scoring formulas (pure functions on strings and
reals, with tests of their own), the frontend and the documentation tools (no state), the
event status trigger (a table of transitions). `PROJECT.json` lists each with its reason, and
`hazards` lists what is hard to test in the parts still to come.
