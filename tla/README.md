# TLA+ verification of FORGE

TLA+ modules for the FORGE app: what they model, what TLC checks on small
instances, and what TLAPS proves. Paths below are relative to `src/`;
`services/x.py` is short for `apps/api/src/forge_api/services/x.py`, `web/x` for
`apps/web/src/x`, `scene/x` for `apps/web/src/components/lobby/scene/x`.

Contents: [the system](#the-system), [the modules](#modules),
[the runs](#runs), [what the violation runs show](#what-the-violation-runs-show),
[what else was met](#what-else-was-met), [the proofs](#proofs), [what is only model-checked](#what-is-only-model-checked),
[what is not modelled](#not-modelled), [the plan](#plan).

## The system

FORGE is a web app (Next.js, `apps/web`, with packages of its own) in front of
one Python process (`apps/api`, FastAPI) with one SQLite file. A transaction
takes the file's write lock and one process-wide lock; a request, a background
loop and a daemon thread are otherwise concurrent. Two loops run beside the
requests: the proposals ticker (every 60 s) and the house worker (every 10 s).
Feature flags can switch whole parts off at any moment, and fail closed. A
browser's page is single-threaded, but every `await`, timer, frame and event in
it is a point where anything else may have happened; the lobby's pages also talk
to each other, through LiveKit or a BroadcastChannel.

### The API

| component | code | state it keeps | operations | what makes it hard |
|---|---|---|---|---|
| Propose floor | `services/proposals.py`, `routers/proposals.py` | motions with a deadline, the frozen electorate, consents, ballots, drafts, the pause, the Test timers switch | move, edit, withdraw, second, consent, vote, admin buttons, publish, ticker, ship | late requests, deadlines crossed while nobody looks, a floor that closes and opens, sweeps with cached answers |
| House desk | `services/house.py` | one job per proposal, the run log, specs, draft sources | queue, request, claim, call, retry, store, recover, give back, cancel | crashes and stops in the middle of a call, a proposal published meanwhile, the house switched off meanwhile, caps |
| Bridge | `services/bridge.py` | claims (leases) with a clock and a pull request, merges, dispatches, events | claim, release, dispatch, report, submit, status, which read GitHub and record what they saw | answers that are old, missing or recorded late, a clock that runs out meanwhile, one pull request for two tasks |
| Flags | `services/flags.py`, `packages/flags`, the pages' gates | three layers of configuration, read anew; what each page asked for and was told | a file edited between two reads, a layer that is bad, an answer after the page has gone without |
| Connector | `services/oauth.py`, `routers/oauth.py`, `web/app/oauth`, `web/app/me/ConnectedAgents.tsx` | codes, grants, rotating refresh tokens | consent, redeem, refresh, revoke, disconnect | a code or a token presented twice, an answer that is lost, the page's idea of what is connected |
| Copies and review, Rails and adapters, MCP server, State database, Members and notifications, Vault, Identity, GitHub reads, Upland data, Ledger gateway, API process | the other services | see [Not modelled](#not-modelled) | | |

Requests reach the floor through `routers/proposals.py`, which refuses them
while a flag is off. The floor calls the house when a motion passes, when its
draft is saved and when it is published; it publishes a task to the Bridge, and
the Bridge calls back (`on_task_shipped`) when the task's pull request merges.
The house worker calls the floor (`apply_house_spec`) inside its own
transaction.

### The web

| component | code | state it keeps | what makes it hard |
|---|---|---|---|
| Voice room | `web/components/lobby/voice`, `presence/livekitFeed.ts`, `VoicePanel.tsx` | a seat in a LiveKit room, the microphone, who is subscribed and permitted | two joins and a leave across seven awaits, sessions that are replaced, subscriptions the server answers late |
| Presence between tabs | `presence/localFeed.ts` | tabs that see each other | tabs that die unheard, are put away and come back |
| Lobby shell and navigation | `Lobby.tsx`, `LobbyScene.tsx`, `LobbyNav.tsx` | the gate, the scene, the visit's feed, the bar | a scene that breaks or comes late, one retry of a join |
| Lobby play | `scene/play.ts`, `packages/lobby`, `PlayControls.tsx` | who holds which ball, flights | packets lost while a link is down, words that come late |
| Lobby bricks, Lobby machines | `scene/bricks`, `scene/machines`, `services/lobby_bricks.py`, `MachineControls.tsx` | rows with revisions and tombstones; a browser's copy | own writes shown early and refused, holds that lapse, reads and writes out at once |
| Cave scene and controls | `createCave.ts`, `peers.ts`, `screen.ts`, `controls.ts`, `readout.ts` | what is drawn, keys and fingers | files that arrive in any order, a lost graphics context, a finger let go unheard |
| Avatars | `AvatarEditor.tsx`, `HeadFitter.tsx`, `scene/robot` | a draft, a placement, what a robot wears | requests that outlive their editor, a shared cache |
| Proposal pages | `web/app/propose`, `NotificationBell.tsx` | a proposal as last read, a write, a form, the unread count | reads that overtake each other, a write whose answer is given up |
| Contribute pages | `web/components/contribute` | a task's lease and checks, a copy, a start | the same, and round trips to GitHub |
| Practice | `lib/offline.ts`, `lib/proposals-offline.ts` | a floor and a task in the tab | refusals and stages that must match the API's |
| Web gateway and sign-in | `web/app/bff`, `lib/bff-forward.ts`, `web/app/auth`, `packages/auth` | a session cookie, one sealed attempt, one-time tokens | two attempts that share a cookie, a callback called twice, one left while it runs |
| Ledger pages | `web/app/apps/ledger`, `packages/upland-ledger` | filters, pages, reads that share a slot | aborted and kept reads, a list that grows while it is walked |
| Controls | `packages/ui` | hold, slide, button, pickers | a second press before the next frame, a list that changes while it is open |
| Rest of the web app | layouts, static pages | | see [Not modelled](#not-modelled) |

The pages call the API through the gateway (`web/app/bff`), which checks the
session, signs an assertion and gives the API a deadline; a page whose answer
does not come in time cannot know whether its write was done, and reads again.

## Modules

| module | what it is |
|---|---|
| `ProposeFloor` | the floor, one action per method of `Proposals` that changes state; at its end, history variables that measure each period |
| `ProposalWords` | what a proposal's page says and offers of a motion as the floor tells it |
| `MotionLifecycle` | the abstract specification: the lifecycle drawn at the head of `services/proposals.py` |
| `HouseDesk` | the house model's job queue, its worker's thread and its process |
| `HouseJobs` | the abstract specification: what the desk promises of a job |
| `BridgeLeases` | the Bridge's claims and the requests that keep them in step with GitHub |
| `TaskBoard` | the abstract specification: what the board of tasks promises |
| the web's modules | see [their table](#the-webs-modules) |
| `ProposeFloorProofs`, `HouseDeskProofs`, `BridgeLeasesProofs`, `WebProofs`, `PageProofs` | theorems and proofs about the components |
| `MCFloor`, `MCWeb` | instances for TLC; those of the house and the Bridge are at the end of `HouseDeskProofs` and `BridgeLeasesProofs` |
| `MCWebProofs`, and the end of `MCFloor` | the runs' own properties, proved from the components' theorems |

### ProposeFloor

A motion is one record: its row of `proposal_motions` and the rows that hang on
it. Two fields record what only the timeline keeps: `cut` (periods an admin
ended) and `agreed` (the revision its seconder had read); no guard reads them.
Time is a clock in slots, and periods are constants (`Timers`), so nothing
depends on days or minutes.

*One transaction is one step.* Every write method runs in one transaction of
the state database, which holds its only lock: it ends or resumes the pause
(`SyncFloor`), applies the transitions due (`Applied`) and makes its change
(`Write`). A refused write raises and rolls all of it back, so it is no step; a
rate limit is such a refusal, and needs no state.

*What is not atomic is kept apart.* A request takes its `now` and passes the
flags before it waits for the lock: `admit` holds the times a request in flight
may carry, up to `Lag` slots old, and keeps them after the flags went off. A
beat of the ticker, a list and a detail read work out `floor_open` first and
apply each motion's steps in transactions of their own, with the answer and the
time they began with: `BeginSweep`, `SweepApply`, `SweepShip`, `EndSweep`. Two
windows of a sweep are narrower in the model than in the code. `_sync_floor` asks
`members_can_act()` just before it takes the lock (`services/proposals.py:789`);
`BeginSweep` asks in the step of the transaction, so a pause is not recorded with
an answer that changed between the two. And a beat asks once for what is due
(`:1033`), so what becomes due while it runs waits for the next beat; `EndSweep`
wants everything overdue visited. No property that is checked rests on either.

| action | code |
|---|---|
| `Move`, `Edit`, `Withdraw`, `Second`, `Consent`, `Vote` | the methods of the same names |
| `SetTestTimers`, `EndDebate`, `CloseVote`, `PutDraft`, `Publish` | the admin's methods |
| `ApplyHouseSpec` | `apply_house_spec`, called by the house worker |
| `Merge` | the Bridge records a merge; its hook (`ship`) may run or not |
| `BeginSweep` ... `EndSweep` | `advance_all` and the reads' `advance_one` |
| `FlagsOff`, `FlagsOn` | `members_can_act` changes its answer |
| `Tick` | the wall clock |

### ProposalWords

`Detail`, `You` and `TallyOfVote` are what the API tells a member of a motion;
the lines below them are the functions of `lib/proposals-format.ts` and the panels
of `propose/[id]` that choose a sentence, a button or a countdown from it, each
sentence a name. It extends `ProposeFloor` and has no steps of its own: `PageTrue`
says of every state of the floor, and `PageKeepsWord` of every step, that what a
page would say and offer at that moment is so.

### HouseDesk

A job is one row of `house_jobs`; `line` is the order of `requested_at`, and
`runs` the rows of `house_runs` that the caps count, by age. `worker` is the
thread of a beat: where it stands, and the `_Job` it works on. Every transaction
of `work` is one step and so is the call to the model, which holds no lock, so
the floor's calls, the switch, the clock, a crash or a stop can come between any
two of them. A compare-and-set (`Mine`) is part of the transaction it guards.

| action | code |
|---|---|
| `Pass`, `RequestDraft`, `Publish` | `queue_on_pass`, `request_draft`, `cancel_queued`, in the floor's transactions |
| `PutDraft`, `Switch` | an admin saves the draft; `off_reason` changes its answer |
| `BeginBeat`, `Recover`, `Claim`, `Note` | the head of `work`: is the house on, stale jobs, `_claim`, `claimed(job)` |
| `Ask`, `CallAnswers`, `CallUnavailable` | `_still_wanted` before each call, and the call's end |
| `NotWanted`, `RunFails`, `ReadOn`, `Store`, `StoreFails` | the ends of a run |
| `Lose` | the database refuses a beat's step; `run_worker` logs it and goes on |
| `Crash`, `Start`, `Stop`, `GiveBack`, `Exit` | the process, and `run_worker` when cancelled |

The floor is only its states open, passed and building here, and the passing is
an action of its own: `HouseDesk` is the house's view of `ProposeFloor`.

### BridgeLeases

A lease is one row of `bridge_leases`; `merges` is `bridge_merges`. GitHub is
the environment: `github` is the state of each pull request, `opened` what never
changes of it, and `lately` every state an answer may still report, because it
is cached for a minute. A request in flight holds what it saw of its lease's
pull request and has yet to record, and what it does then.

| action | code |
|---|---|
| `Look` | `status_of`, `check_results`, `profile`: `_track` a lease |
| `AskClaim`, `Claim`, `Take` | `Bridge.claim`: `_track` if the old lease ran out, then `LeaseStore.claim`, which may refuse |
| `AskHeld` | `held_lease`, for a release, a hand-in or a report |
| `Record` | the transaction of `record_pull`, and the request's next read |
| `Release` | `LeaseStore.release` |
| `OpenPull`, `ClosePull`, `ReopenPull`, `MergePull`, `Tick` | GitHub and the clock |

A claim that has nothing to record carries nothing from its reads to its
transaction, so it is one step (`Claim`), which may happen in any state: GitHub
may not have answered. A read that follows a transaction is part of its step
(`Record`): what GitHub does between the two it could as well have done before.

### The web's modules

Each models one page, panel or loop as one browser runs it, with the API, the
room or the other members as far as it meets them. The rules are the same in
all of them. An event handler, a timer or what follows an `await` is one step,
together with the state updates and effects React runs for it; what is awaited
is a separate step, or several (served, answered, lost), that finds whatever
happened meanwhile. What a handler reads from a ref or a closure is kept apart
from what it reads of the present state. An answer may be late, may overtake
another and, where the code has a deadline, may never be heard although its
write was done. Poses, texts, files and meshes are one or a few values.

| module | code | steps |
|---|---|---|
| `VoiceSession` | `voice/engine.ts`, `presence/livekitFeed.ts`, `VoicePanel.tsx` | mount, join, token, connect, microphone, audio context and reverb, reconnects, leave: each await apart |
| `VoicePeers` | `voice/engine.ts`, `packages/lobby` | one other member: sessions, tracks, subscriptions, positions, whom we hear and whom we let hear us |
| `PeoplePanel` | `VoicePanel.tsx` | snapshots of the room, mute, the notice's action, the microphone asked for on entry; the list's order, held while pointed at or focused, its search and its button for those far away; the reverb's level |
| `CaveScene` | `createCave.ts`, `peers.ts`, `screen.ts` | build, frames, people and their bodies, context loss, dispose; a screen's image, poster and clip |
| `CaveControls` | `controls.ts`, `readout.ts` | keys, fingers, drags and hover, blur, frames, the readout |
| `RobotView` | `robot/view.ts`, `robot/assets.ts` | looks, files that come or fail, retries, the flyer overhead |
| `LocalFeed` | `presence/localFeed.ts` | connect, hello, publish, sweep, hide and show, close, crash |
| `LobbyShell` | `Lobby.tsx`, `LobbyScene.tsx` | flags, probe, load, ready, break, enter, join, retry, leave |
| `LobbyNav` | `LobbyNav.tsx`, `lobbyState.ts` | published states, pointer, focus, panel, menu, the linger timer |
| `LobbyPlay` | `scene/play.ts`, `packages/lobby` | wind up, throw, fly, catch, announce, hear, lapse, drops of the link |
| `LobbyBehavior` | `PlayControls.tsx`, `behaviors/catalog.ts` | presses, keys, the scene's word, the catcher's word, time-outs |
| `LobbyBricks` | `scene/bricks`, `services/lobby_bricks.py` | press, serve, answer, lose; list reads; other members' writes; holds that lapse; the purge |
| `LobbyMachines` | `scene/machines` | aim, build, arm and take down; list reads; models; another mechanic |
| `MachineLibrary` | `MachineControls.tsx`, `scene/machines` | the mechanic's role, uploads in steps with their clean-up, deletion |
| `RobotEditor` | `AvatarEditor.tsx`, `lib/avatars.ts` | choose, edit, save, reset, chestplate, retries; requests that outlive the editor |
| `HeadFitting` | `HeadFitter.tsx`, `AvatarEditor.tsx` | choose a file or a head, read, measure, place, upload, adjust |
| `ProposalPage` | `propose/[id]/ProposalView.tsx` and its panels, `lib/proposals.ts`, `lib/freshness.ts` | polls, deadline reads, consent, object and its reason, comment, giving up, late service |
| `DraftDesk` | `AdminPanel.tsx`, `HouseDraft.tsx` | edit, use the house's draft, undo, save, publish; the house and another admin |
| `FloorList` | `ProposeFloor.tsx`, `lib/server-clock.ts`, `lib/ticker.ts` | the list's reads and earlier pages, the floor switched off at a read, what is shown and offered, the switch; the bracket on the server's time |
| `BringProposal` | `NewProposalForm.tsx` | who am I, type, submit, the ways it can fail, another tab |
| `NotificationBell` | `NotificationBell.tsx`; `packages/flags`, `services/flags.py`, the gates | ticks, hidden tabs, open, mark one, mark all; the switch it hangs on, as other screens do: layers read one by one, the answer, its 8 seconds |
| `PracticeApp` | `lib/offline.ts`, `lib/proposals-offline.ts`, `lib/handoff.ts` | the practice floor's writes and refusals; a task's run by the clock |
| `TaskPage` | `TaskView.tsx`, `TaskProgress.tsx` | full and quiet reads, status ticks, checks, claim, release |
| `TaskSteps` | `RepoSteps.tsx`, `lib/handoff.ts` | copy and review by way of GitHub and back, links anyone can visit, hand-in |
| `AgentStart` | `StartRails.tsx`, `TaskProgress.tsx` | keys, a start, one that is not heard of, the notes |
| `BffForward` | `web/app/bff`, `lib/bff-forward.ts`, `lib/api.ts` | a route's checks in order, the assertion, the call, its deadline, what the page says |
| `SignInFlow` | `web/app/auth`, `packages/auth` | start, approve, arrive, exchange, read the user, act, revoke, respond, leave |
| `Connector` | `services/oauth.py`, `web/app/oauth/authorize`, `ConnectedAgents.tsx` | consent, redeem, refresh, reuse, leave; the account page's list and Disconnect |
| `LedgerScreen` | `apps/ledger/_lib/hooks.ts`, `useFilters.ts`, `query-core.ts` | draft, apply, turn pages, answers, failures, cache age, offline; the search bar |
| `LedgerReads` | `query-core.ts`, `packages/upland-ledger/client.ts` | the slot of the heavy reads and its line; a walk of a paginated list that grows |
| `Controls` | `packages/ui/src` | hold, slide, asynchronous button, search box, menu, number field, pager |

`PROJECT.json` maps the definitions to their lines. A helper whose lines lie
within those of another mapped definition is not listed a second time.

## Runs

Nine runs must pass and three must find a violation. A run of several parts
gives the parts shared variables and one more, `part`: a behaviour is of one
part and never changes it, so the run checks each part as if it were alone, with
the constants the MC module gives it. In the composites a property is the
conjunction of its parts' properties, each under its own `part`; the comment at
its definition names them, and each part's module states and explains its own.

| run | question |
|---|---|
| `floor_parts` | Four instances that each take some rules furthest: elections of three with late requests; kill switches against a reader's late sweep; two proposals of one mover; periods served across closures |
| `floor_all` | With every action, an edit among them: are decisions sound, does a proposal's page say and offer what is so, does the floor implement the drawn lifecycle, is a saved draft kept, is every motion decided by the ticker alone, and does a merged task ship although its hook did not run? |
| `house_all` | Through crashes, stops, lost writes and the switch: does the desk implement `HouseJobs`, do both caps hold while proposals race for the day's last run, does no late spec overwrite an admin's draft? |
| `house_live` | Does every job end, although the process crashes, writes are lost and another proposal is asked for again and again? |
| `bridge_all` | Do the leases implement the board, and do a pull request and its merge count once, whatever late answers are recorded? |
| `mc_cave` | The seat in the voice room, other members' voices, the people and screens drawn, a robot's clothes: with every answer at any later time, is what is told and drawn true, and does it settle? |
| `mc_lobby` | Tabs that die, the bar, the shell, a ball with lost packets, bricks and machines others change: do members come to see and hold the same? |
| `mc_pages` | A proposal's page, the bell, a task's page, the ledger's reads: is nothing untrue said, is nothing taken back by an older answer, and does the page catch up? |
| `mc_screens` | Sign-in, gateway, connector, ledger screen, controls, uploads, editors, forms, practice: does nothing act for a member but as they asked, and is what is shown and said so? |
| `floor_unheard_vote` | violation: a vote that nobody could cast a ballot in fails |
| `house_stop` | violation: a stop leaves a job running, to be counted as a failed run |
| `bridge_limit` | violation: a member holds more tasks than the limit |

What the composites' properties are made of:

| property | parts |
|---|---|
| `FloorSound` | votes: `DecisionSound`, `Electorate`; pauses: `TimelineInOrder`; two: `OneActive` |
| `NothingCutShort` | votes: `WordKept`; pauses: `DeadlineWaits`; periods: `PeriodsServed` |
| `SeatHeld` | `VoiceSession`: one seat, and no microphone that captures outside it |
| `VoiceToldTrue` | `VoiceSession`: what is told of the microphone and the sound; `VoicePeers`: who is heard |
| `DrawnTrue` | `CaveScene`: the shared body, the clip; `RobotView`: a robot wears its look, the flyer is where it belongs |
| `NothingOutOfTurn` | `VoicePeers`: permissions; `CaveScene`: nothing is told after it stopped |
| `CaveSettles` | a join settles, a closed page lets go of everything; who is there is drawn and dressed; who is near is heard |
| `LobbyInStep` | `LobbyNav`, `LobbyShell`, `LobbyBricks`, `LobbyMachines`: the bar stays while used, one feed, others' bricks as they are, a refused take-down comes back |
| `LobbyCatchesUp` | `LocalFeed`, `LobbyNav`, `LobbyShell`, `LobbyPlay`, `LobbyBricks`, `LobbyMachines`: ghosts go, the lobby comes up, hands, bricks and machines agree |
| `ToldAsItIs`, `ReadsInTurn`, `NothingTakenBack`, `PagesCatchUp` | `ProposalPage`, `LedgerReads`, `TaskPage`, `NotificationBell` |
| `ActsForThem` | `SignInFlow`: `ActsAsAsked`, `TokensReturned`; `BffForward`: `VouchedOnly`, `ToldTrue`; `Connector`: `RevokedIsOver`, `SaidIsDone` |
| `ShownIsAsked` | `LedgerScreen`, `HeadFitting`, `Controls`, `CaveControls` (by touch and by mouse) |
| `SaidIsSo` | `ProposalPage`, `TaskSteps`, `AgentStart`, `Controls`, `LobbyBehavior`, `FloorList` (the clock, and a floor never shown as empty), `NotificationBell` (the switches) |
| `FilesKept`, `WorkKept` | `MachineLibrary` twice (two blueprints; one and a change of role); `DraftDesk`, `PracticeApp` |
| `NothingUnasked` | `SignInFlow`, `RobotEditor`, `Controls`, `ProposalPage`, `FloorList`, `BringProposal`, `PracticeApp`, `PeoplePanel`, `NotificationBell` (the switches) |
| `TypesHold` | every part's type invariant |

A part's liveness property says that something does not last: `CaveLasts(i)` is
the i-th thing of the behaviour's part that must not stay so for good, or, where
`CaveFollows(i)` says what comes of it, only with that: `<>[]CaveLasts(i) =>
<>[]CaveFollows(i)`. Two indices cover the parts' properties.

### Bounds

In the floor's runs each pilot period is two slots (its vote one, except in the
periods' instances), and a test period one. Three members give every tally that
matters (quorum met and missed, a tie, an abstention that makes the quorum); two
suffice where only the order of steps matters. A clock of three or four slots
lets a period end, a vote open late and close in the same step, and a closure
begin and end inside any of them. One slot of `Lag` is enough for every order of
two requests; more only stretches the dates, which the properties bound by
`Lag`. `MaxDeadline` stops the flags from going off once a deadline is past it:
late requests can record one slot as closed again and again, which would move it
without end. `MayTick` stops the clock when every number is taken and decided.
`Punctual` makes the ticker beat in every slot; without it a beat may be late by
any time. The periods need it, because a closure nobody records gives nothing
back.

The house's runs need two proposals for one worker to be unfair to either. A
retry (`OneRetry`) shows every way through the attempts: a first failure, a
retry, and giving up. In `house_all` a day is two slots and one run a day is all
that both proposals have: the window that slides and the UTC day then differ, the
daily limit is reached and refused (`PastDailyLimit`), and the two race for it. In
`house_live` a day is one slot, so that every tick begins a new one; `house_stop`
has a longer day and a longer `StaleAfter`. `Stamps` are the start
times; the assumption leaves one more than are ever in use, so a stamp is used
again only when nobody can still hold it.

`bridge_all` has the one pull request that two claims can both find, two
requests in flight to find it at the same time, two leases for one task to
follow another or for one member to hold both, and a clock that ends the first
leases. A lease and the grace are one slot each: every duration is compared on
its own, so their proportion (48 or 96 hours to 24) plays no part. The pull
request names both tasks in its text, and the tasks are symmetric; the branch a
pull request may come from instead is in `bridge_limit`. Later leases, the end
of a cooldown and the 20 claims of a day lie beyond the bounds: they are plain
comparisons in one transaction (`MayTake`).

The web's constants are in `MCWeb`, at each `INSTANCE`. Two of each thing that
can be mistaken for another (two joins, two sessions, two attempts, two tabs, two
bricks, two heads, two members of the editor's list), one of each that cannot;
`Max...` bounds what may happen again and again: a second join or room, a third
revision (which lets a tombstone be forgotten behind a browser's back), a third
token (a refresh after a refresh), a second look, one read out beside the poll.
`MaxWire` is how many messages may be on their way in one direction: one is
enough to lose it, two to have them arrive after what they are about is over.
Some bounds leave a case to the theorems, which have none of them: `MaxV = 2` is
one change of a proposal, so that the page's own write and another's do not meet in
the run (`WritesToldTrue`), `MaxCodes = 1` one grant (`RevokedGrantsAreOver`),
`MaxJobs = 1` no second draft (`DraftsAreKept`). `ScreenYields` and `ScreenFinds`
fix what a ledger read and a search return; two searches are remembered (`Kept`),
a number field runs to two (`Most`), and the people's search opens at three
(`SearchFrom`; eight in the code). `PeoplePanel` and `FloorList` are looked at by
halves (`which`): the microphone, the order or the reverb; the list to a visitor,
to a member who opens no earlier page, or the clock. The bell meets no edit of the
flags' files; the switches do (`MaxEdits`), without the bell.
The server's clock in `FloorList` is four units, the visitor's up to three behind,
so that a bracket can be wrong on either side.

### Symmetry and deadlock

Members, proposals, tasks and the house's proposals are symmetry sets in the runs
without liveness properties (and in `house_all` and `bridge_all`, whose
refinements treat them alike). Deadlock is checked in the floor's and the
house's runs: sweeps and beats can always begin. It is not in the Bridge's, whose
clock and claims are bounded, nor in the web's, where a part may really stop: a
page is closed, a robot is disposed, a bounded number of tries is used up.

### Fairness

*Floor.* `Tick` is strongly fair (time passes, however often a slot has to wait
for the ticker) and the ticker's own steps are weakly fair: `run_ticker` logs a
failing beat and goes on. Members, admins, readers and the flags owe nothing;
the liveness properties of the floor assume the floor stays open from some
point, and that the deadlines lie inside the bound on the clock.

*House.* The clock and the worker's thread are weakly fair (a call is cut at
`TOTAL_SECONDS`), and a process that is down is started again. Recovering and
claiming are strongly fair: a database that refuses those transactions in every
beat for ever would leave a job running, and the code has no answer to it. The
property is about a house that stays on and a process that stays up from some
point. `house_live` leaves out the steps that only end a run early (the switch,
and a stop on purpose), because the premise excludes them in the long run. The
Bridge has no loop of its own, so nothing there must happen.

*Web.* Weakly fair are the browser's timers, its frame loop while the page
draws, a promise that the code itself bounds with a deadline, and what LiveKit
does with a request it has taken. Strongly fair are steps that other traffic can
keep interrupting but not for ever: a poll's tick while the tab is visible, an
answer to a poll that is asked again and again, a file that is fetched again
after every failure. Members, other members and the flags owe nothing, with one
exception: a hidden tab is looked at again (`Visibility`), because a hidden page
does not poll and promises nothing. The n-th condition of each part is the n-th
of the whole (`CaveWeakly(n)`): a behaviour is of one part, so for it the
conjunction is that part's own fairness.

## What the violation runs show

* `floor_unheard_vote`: `_resume` moves the deadlines later than the recorded
  closing time. A debate with an objection whose deadline passed just before
  keeps it; the first beat after the floor opens again opens its vote in the
  past and, after a closure as long as the vote, closes it at once without a
  quorum. ADR-006 says the pause is there so that votes do not fail while nobody
  could vote; `docs/architecture.md` says a passed deadline stays put.
* `house_stop`: a stop gives back only a job its beat has noted
  (`claimed.append`). One that comes just before leaves the job running, and
  `recover` later counts a failed run, which the head of `services/house.py`
  says a stop on purpose does not.
* `bridge_limit`: a claim past its time whose pull request nobody has looked at
  is not counted by `held_by`, and comes back once that pull request is found,
  beside the claim made meanwhile.

## What else was met

No run keeps what follows: it is what the code does, seen while modelling, at odds
with a comment or a word on the screen, or merely worth knowing.

*Bridge.* A pull request closed a second time, opened again in between while
nobody looked, gets no new day of grace, because the row still says closed
(`InStep`). A slow request may record an old close after another recorded that the
pull request is open again, which ends the claim's hold until the next look. A
closed pull request on the task's branch hides an open one that only the search
would find (`Found`).

*Proposal pages.* Editing is offered after the last edit the API takes. "Already
seconded" (`lib/proposals-format.ts:667`) is said also of a motion that has moved
past debate. The floor's list is marked out of date when an older read fails after
a newer one has come, and an answer served earlier may land later, since tickets
order when reads left and not when the API served them (`NeverBackStep` says so). A
floor found switched off by a read stays so until the page or its flag is read
again. A member's own proposal is read with the page only: one decided meanwhile
still stands in the way of "Bring a proposal". `DraftDesk` saves and publishes in
two calls, so another admin's save between them is what gets published
(`PublishesScreen` in `DraftDesk` states the contrary and is not run);
`PublishedRead`, that an admin saved what is published, holds.

*Ledger.* A paused read is not a fetching one: offline, rows of the previous
filters are shown undimmed, where `apps/ledger/_lib/hooks.ts:108` says dimmed
until the next arrive. `ShownIsAsked` therefore speaks of reads that are not
paused. A property's id of one or two digits is searched while the bar still asks
for more characters. Blanks can show the older answer for up to 250 ms.

*Controls.* A refresh after a page turn shows as another turn under way, and a
second Apply within 1.5 s is ignored. A drag of the number field let go before its
last move is drawn leaves the text uncommitted; text typed before the field is
disabled is committed by a blur. A timed-out action of the asynchronous button may
have worked, and Retry is offered.

*Voice.* The people's search closes below eight people and its needle goes on
filtering. A list that leaves under the pointer keeps its order held until the
next time the pointer leaves. Two newcomers during one hold may swap places. Where
storage is blocked the reverb goes back to its default with the last person.

*Lobby.* The answers that say who a builder is may cross a change of stand-in
(`scene/bricks/controller.ts:262`).

*Flags.* A file that vanishes between the look and the read closes every flag. An
admin's test-timers switch may show the older of two answers until the next load.

## Proofs

TLAPS proves the theorems below for every value of the constants that satisfies
the named assumption of the component's module (`FloorAssumption`,
`DeskAssumption`, `BridgeAssumption`): what the numbers of the code are, no more
than naturals, positive where the code's are, and the sentinels outside their
sets. TLC evaluates those assumptions in every run. A theorem about a part of the
web names what it needs of the constants as a hypothesis: `PeersAssumption`,
`RobotAssumption`, `PracticeAssumption`, `LedgerAssumption`,
`LibraryAssumption`, or that a bound is a natural. The cave, the proposal's page,
the task's page and the draft desk need nothing. `MCWebProofs` shows that the
runs' own constants satisfy each.

No property here is inductive as it stands. Each component has an invariant
that is (`Good...`), one lemma per action that says the action keeps it, and
theorems that follow from it; an action property or a refinement is proved of
one step under the invariant.

### ProposeFloorProofs

| theorem | statement |
|---|---|
| `FloorTypes` | `Spec => []TypeOK` |
| `DecisionsSound` | `Spec => []DecisionSound`: every decision is what its consents and ballots call for |
| `ElectorateFrozen` | `Spec => []Electorate`: nobody outside the frozen electorate speaks or votes, and the text debated is the one seconded |
| `WordsKept` | `Spec => WordKept`: no step takes back what a member said |
| `DraftsKept` | `Spec => SavedDraftKept`: an admin's draft is never written over |
| `LifecycleFollowed` | `Spec => FollowsLifecycle`: the floor implements `MotionLifecycle` |
| `NeverTwoActive` | `Spec => []OneActive`: no member has two proposals on the floor |
| `TimelineDated` | `Spec => []TimelineInOrder` |
| `DeadlinesWait` | `Spec => DeadlineWaits`: a deadline moves later only by as long as the floor was closed |
| `PeriodsAreServed` | `Punctual /\ Lag = 0 => (PeriodSpec => PeriodsServed)`: a period that ends by its deadline gave its members every slot it promised |

`GoodFloor` adds to the types and the decisions what they rest on, motion by
motion (`GoodMotion`): that a carried vote stays carried needs that ballots change
only while voting is open, that a debate has no vote behind it and that an
undecided motion has no vote closed. `FrozenFloor` adds that nobody speaks
before the second, and that a draft and the time of a decision come with the
decision. `TimedFloor` adds that a deadline is no older, but for the lag, than
what has happened to its motion. The pure rules (`Advance`, `Resumed`,
`Applied`) have lemmas of their own, shown once; `NextAlters` then says, once for
every action, what a step may do to a motion, and five theorems follow from its
cases and look at no action again. The dates have a pass of their own.

`PeriodsAreServed` is about the floor with its history (`PeriodSpec`), and its
invariant is `PacedFloor`: a motion on the floor either has been served what it
is owed, or its deadline, counted from when the floor was found closed or else
from now, leaves at least the slots it still owes (`Ahead`). Its two hypotheses are
what the property needs of the ticker. Without a beat in every slot a closure may
go unrecorded, and gives nothing back. With a late request the pause is brought
up to date with the time the request began with, which can cost a period a slot:
TLC finds `PeriodsServed` violated with `Lag = 1`.

In the refinement one step of the floor may follow several arrows of the
lifecycle: a debate whose vote has run out as well ends, opens and closes its
vote. `MotionLifecycle` says so, and the proof shows each chain.

`MCFloor` instantiates `ProposeFloorProofs` for each instance that
`floor_parts` checks. `PartsSound` and `PartsCutNothingShort` state the run's two
properties, `FloorSound` and `NothingCutShort`, of behaviours of any length and
for any people (`PeopleAssumption`: nobody is the sentinel, the reader is not the
ticker): a behaviour is of one instance throughout, each step of an instance is
one of `Next` at its constants, and the rest is what the theorems above say.

### HouseDeskProofs

| theorem | statement |
|---|---|
| `DeskTypes` | `Spec => []TypeOK` |
| `CapsAreKept` | `Spec => []CapsKept`: no more runs in a day, and for a proposal, than the limits |
| `EveryRunCounted` | a claim of a job not logged adds exactly one row to the log the caps count |
| `DraftsStand` | `Spec => DraftStands`: a late spec never writes over a saved or published draft |
| `JobsFollowed` | `Spec => FollowsJobs`: the desk implements `HouseJobs` |

`GoodDesk` is the types with three parts. `JobTidy`: a queued job that has not
been logged still has room under the draft limit, a running one has been logged,
and nothing has happened to a proposal before it passes. `WorkerTidy`: the thread
works for a proposal that has passed, and calls it moved on only when it is.
`CountsTidy`: the log is finite, its numbers are distinct, and both caps hold.
The caps are about cardinalities; the lemmas on them (a row more or less, rows
that grow older, a day that passes) rest on the library's facts about finite
sets. `FreshStamp` is a pigeonhole: with more stamps than proposals and the
thread can hold, a claim finds one that nobody has, so a compare-and-set on it
cannot take an old claim for a new one.

### BridgeLeasesProofs

| theorem | statement |
|---|---|
| `BridgeTypes` | `Spec => []TypeOK` |
| `MergesOnce` | `Spec => []MergedOnce`: a pull request, and its merge, count for one claim and once |
| `BoardFollowed` | `Spec => FollowsBoard`: the leases implement `TaskBoard` |

`GoodBridge` is `MergedOnce` with the tables' types and `Fit`, what a request in
flight rests on: it is about a lease there is, but for a claim that has recorded
what it saw, and a claim says for whom and of what. What GitHub answered never
enters: any pull request may be recorded, however old the answer, because the
transaction that does it looks again whether another lease has it. The
refinement maps a task to its last lease; `RowsTurn` says what replacing or
adding one row may do to an entry of the board, and each action cites it.

### WebProofs

| theorem | statement | property of |
|---|---|---|
| `SignTypes` | `Spec => []TypeOK` | `SignInFlow` |
| `OnlyAsAsked` | `Spec => []ActsAsAsked`: a one-time authorization does what it was asked for, once, for the account signed in | `SignInFlow` |
| `TokensGoBack` | `Spec => []TokensReturned`: no one-time token outlives its callback untried, and a callback ends within its host's time | `SignInFlow` |
| `SignedInAsApproved` | `Spec => SignedInByAsking`, if no account is called nobody | `SignInFlow` |
| `ConnectorTypes` | `Agents!Spec => []Agents!TypeOK` | `Connector` |
| `RevokedGrantsAreOver` | `Agents!Spec => []Agents!RevokedIsOver`: everything in a revoked grant is dead, a code redeemed twice leaves no live grant, and a person has at most one with an agent | `Connector` |
| `GrantsNeverBack` | no step brings a revoked grant back or unmakes one | `Connector` |
| `DisconnectedIsOver` | `Agents!Spec => []Agents!SaidIsDone`: the account page says disconnected only of a grant that is over | `Connector` |
| `VoiceTypes` | `Voice!Spec => []Voice!TypeOK` | `VoiceSession` |
| `OneSeatOnly` | `Voice!Spec => []Voice!OneSeat`: a Room stays connected only while it is the one the engine is in, or the one leave() lets go of | `VoiceSession` |
| `NoMicLeftHot` | `Voice!Spec => []Voice!NoHotMic`: no microphone captures outside that room | `VoiceSession` |
| `MicIsTold` | `Voice!Spec => []Voice!MicTold`: the button says what the room says, or an answer is coming | `VoiceSession` |
| `SoundIsTold` | `Voice!Spec => []Voice!SoundTold`: the reverb waited for is being rendered, and sound held back has a listener | `VoiceSession` |
| `CallTypes` | `Bff!Spec => []Bff!TypeOK` | `BffForward` |
| `OnlyVouchedFor` | `Bff!Spec => []Bff!VouchedOnly`: the API acts only for a member whose session counts, and is written to only from this origin | `BffForward` |
| `OutcomeToldTrue` | `Bff!Spec => []Bff!ToldTrue`: done is done; nothing changed is so, but for a call cut off after the API acted | `BffForward` |
| `LibraryTypes` | `Library!Spec => []Library!TypeOK` | `MachineLibrary` |
| `FilesAlwaysStand` | `Library!Spec => []Library!FilesStand`: a blueprint there is and a machine that stands have their file | `MachineLibrary` |
| `NothingLeftBehind` | `Library!Spec => []Library!FailedUploadLeavesNothing` | `MachineLibrary` |

The module extends `SignInFlow` and instantiates `Connector` (`Agents`),
`VoiceSession` (`Voice`), `BffForward` (`Bff`) and `MachineLibrary` (`Library`).
`ActsAsAsked`, `TokensReturned`, `RevokedIsOver`, `SaidIsDone`, `VouchedOnly` and
`ToldTrue` make up the runs' `ActsForThem`; `FilesStand` and
`FailedUploadLeavesNothing` are `FilesKept`; `SignedInByAsking` is a part of
`NothingUnasked`; `SeatHeld` and `VoiceToldTrue` say the four of `VoiceSession`.

`GoodSign` says of each callback (`CallFit`) that it is about an approval that
came back, that one past its checks has an attempt of a kind it takes, acts only
for whose token it holds, and how much of its host's time it can have spent by
each stage; and of them all that a code's token has one holder (`OneHolder`),
that a live one has one at all (`LiveHeld`), and that nobody can act again with
one that has acted (`DoneFit`). `GoodGrants` ties the API's three tables
together: a code never redeemed made no grant and one redeemed twice left none
live (`CodesFit`), a token is in a grant that was made and dead once that is over
(`TokensFit`), there is one live grant (`OneLive`), and the account page names
grants that were made (`ListFit`).

`GoodVoice` says what the engine's own fields say of where it is (`EngineFit`: in
a room it has a status that says so, an open page has one when the status says
so, a closed one has none), and what each join still on its way may find
(`JoinFit`: it is the present one only while the page is there; its Room is not
connected yet; if that is the engine's last Room, it is the one being connected,
which is why `roomForJoin` never hands it out again). From these, no two joins
share a Room, and an answer that comes too late finds another in `engine.room`
and lets go. `MicFit` adds that a change the button waits for is under way in the
engine's room, `SoundFit` that without a context no reverb is waited for.

`GoodCall` says of a call under way (`Underway`) which checks of its route it has
passed when it stands where it stands, and of an answer which the API may still
give what the page will make of it (`CallTold`). `GoodLibrary` says that a file
is kept while anything needs it (`KeptWell`), and of an upload (`UploadFit`) what
can be on the wire at each of its stages: a clean-up that was served found the
blueprint it is about, and a finish request that comes after it finds it gone.
`TypeOK` of `MachineLibrary` says nothing of the sign that the member is a
mechanic while signed out: the answer to a switch pressed before signing out sets
it afterwards. Nothing comes of it, because every control asks for the role.

### PageProofs

| theorem | statement | property of |
|---|---|---|
| `LedgerTypes` | `Spec => []TypeOK` | `LedgerReads` |
| `TurnsAreTaken` | `Spec => []TurnsTaken`: the slot counts what is in flight, and has no place free while a read waits | `LedgerReads` |
| `RegionsToldTheirOwn` | `Spec => []ToldItsOwn`: what a region shows is the outcome of the read it waits for | `LedgerReads` |
| `WalksMissNothing` | `Spec => []NothingMissed`: a walk that ended yielded every row it began with, by cursor none twice | `LedgerReads` |
| `VoicePeersTypes` | `Peers!Spec => []Peers!TypeOK` | `VoicePeers` |
| `VoicesHeardRight` | `Peers!Spec => []Peers!HeardRight`: a chain plays exactly while the member's own microphone is received | `VoicePeers` |
| `VoicePermittedRight` | `Peers!Spec => Peers!PermitsSound`: we are heard only by a session that has said it is near | `VoicePeers` |
| `WritesToldTrue` | `Page!Spec => []Page!ToldTrue`: what the page says went through, did | `ProposalPage` |
| `ProposalNeverBack` | `Page!Spec => Page!NeverBack`: no answer that left before a write puts the proposal back | `ProposalPage` |
| `LeaseLossIsTrue` | `Task!Spec => Task!LossIsTrue`: the page lets go of a lease only when its claim has ended | `TaskPage` |
| `SceneIsTrue` | `Scene!Spec => [](Scene!BodyAsItIs /\ Scene!ClipStays)`: the body is as its state says, a clip that is in stays and plays only while looked at | `CaveScene` |
| `StoppedIsQuiet` | `Scene!Spec => Scene!QuietOnceStopped` | `CaveScene` |
| `LooksAreWorn` | `Robot!Spec => [](Robot!WearsItsLook /\ Robot!FlyerWhereItBelongs)` | `RobotView` |
| `DraftsAreKept` | `Desk!Spec => [](Desk!FormKept /\ Desk!PublishedRead)`: the form holds what was last put in it, and what is published an admin saved | `DraftDesk` |
| `WalkIsAsTold` | `Practice!Spec => []Practice!WalkThrough`: the practice floor can always be walked as its words say | `PracticeApp` |

The module extends `LedgerReads` and instantiates the others by the names in the
table. What each invariant adds to the types:

* `ScreenHolds`: a read that waits or is in flight is its region's present one,
  one that is leaving is not; the line is the reads that wait, each once, and the
  counter those sent (`Queued`). That a place is never free while a read waits is
  then about two cardinalities. `WalkHolds` is about the rows of a walk. By cursor,
  of what it began with everything not older than the cursor was yielded once, and
  nothing older was (`ByCursor`). By offset, what has fewer than `offset` rows above
  it was yielded (`ByOffset`): a row ingested meanwhile pushes others down, so a page
  may repeat rows and can skip none.
* `GoodPeers`: what our engine holds of the member (`PeerFits`) is about the
  session it last saw, which the room knows; and each word on its way between the
  two ends where it was sent from (`WordsFit`).
* `GoodPage`: whatever an answer says was so of the proposal at some time
  (`OnceSo`), at most one of the reads under way settles a write (`ReadsFit`), and
  an answer that may still be shown left no earlier than the last write the page
  was answered.
* `GoodTask`: a claim the page was once told of is ours or is over (`LeaseFits`),
  for the screen and for each read, tick and write that may still be answered.
* `GoodScene`: one load of the body is out, and only while its state says loading
  (`BodyFits`); while the cave runs, the page has been told neither of a loss nor
  of an error (`WordFits`).
* `GoodRobot`: each slot wears the file of the look, waits for it or has it to ask
  for again (`SlotFits`); what flies is over the head exactly if the head is there
  and asks for it. Between a change of the head and that of the accessory within one
  step the second half fails, and `HeadOver` says what holds then.
* `GoodDesk`: a draft marked saved is one an admin saved (`DraftFits`), and a
  publish leaves only once its own save was answered, after which the house no longer
  writes over the draft (`PublishFits`).
* `GoodFloor`: the third sample proposal lacks only this account's consent in
  debate, and its mover is another (`ThirdFits`).

### MCWebProofs

The composites of the web state their properties of a behaviour's own part.
The module instantiates `WebProofs` and `PageProofs` at the constants of
`MCWeb` and shows, part by part (`VoiceSame`, `PeersSame` and so on), that the
part's `Init`, `Next` and properties are those the theorems are about. Since no
step changes `part`, a part's invariant, where the behaviour is of that part, is an
invariant of the whole; so the runs' properties hold for behaviours of any
length.

| theorem | statement |
|---|---|
| `SeatIsHeld` | `CaveSpec => []SeatHeld` |
| `VoiceIsToldTrue` | `CaveSpec => []VoiceToldTrue` |
| `CaveIsDrawnTrue` | `CaveSpec => []DrawnTrue` |
| `NothingIsOutOfTurn` | `CaveSpec => NothingOutOfTurn` |
| `ActsOnlyForThem` | `ScreensSpec => []ActsForThem` |
| `FilesAreKept` | `ScreensSpec => []FilesKept` |
| `WorkIsKept` | `ScreensSpec => []WorkKept` |
| `ReadsTakeTurns` | `PagesSpec => []ReadsInTurn` |
| `PagesToldAsItIs` | `PagesSpec => []ToldAsItIs` |
| `NothingIsTakenBack` | `PagesSpec => NothingTakenBack` |

## What is only model-checked

* *Liveness* (`EveryMotionDecided`, `MergedShips`, `JobSettles`, `CaveSettles`,
  `LobbyCatchesUp`, `PagesCatchUp`): fairness and ENABLED are out of the prover's
  reach.
* Of the web, the properties of the parts without theorems, and with them the
  runs' `TypesHold`, `LobbyInStep`, `ShownIsAsked`, `SaidIsSo` and
  `NothingUnasked`. Those of `SignInFlow`, `Connector`, `VoiceSession`,
  `VoicePeers`, `BffForward`, `MachineLibrary` and `LedgerReads` have type
  theorems, and the sign-in's share of `NothingUnasked` is `SignedInAsApproved`.
  Nothing hinders the others but the work.
* The three violations, which are counterexamples.

## Not modelled

Of the modelled components: comments, rate limits, notifications and the
timeline's words (floor); reading the repository, the prompts, cleaning a spec,
the log of calls and which spec a draft came from (house); dispatches, the
limits on visits and submissions, events, copies, the CI log and the check runs
(Bridge; its hook on a merge is `ProposeFloor`'s `Merge`); client registration
and the metadata documents, when a refresh token or a grant expires, a resource
that does not match, and revoking an access token alone (connector); in
`VoicePeers` the three early returns for a session or a context that was replaced
(`voice/engine.ts:959`, `:1111`, `:1129`); the spatial graph's gains, the reverb's
samples and the layout of packets (voice); geometry, shaders, trajectories and
meshing (cave, play, bricks, machines); the API's quotas for avatars; rendering,
styling and wording everywhere; cryptography, which is a verdict.

Whole components:

| component | why |
|---|---|
| Copies and review | a page's steps around them are `TaskSteps`; the API's own sequence of GitHub calls, each of which may fail, keeps nothing between them |
| Rails and adapters | no state: one call each to a vendor; their outcomes are the answers `AgentStart` gets |
| MCP server | a stateless mapping of tool calls onto the Bridge |
| State database | taken as atomic by every module: one transaction is one step; its nesting, savepoints and rollback are not told apart |
| Members and notifications | the bell's side is `NotificationBell`; storing and pruning notices is one statement in a transaction |
| Vault | sealing and opening one key per member and vendor |
| Identity | verifies one signed assertion per request, without state |
| GitHub reads | `BridgeLeases` takes what the cache guarantees, an answer true within its minute; the cache, in which two answers may be stored in either order, and its breaker are not modelled |
| Upland data | scraping and analytics of rows nothing else writes; the ledger's pages see its answers |
| Ledger gateway | a filtering proxy without state |
| API process | starts and stops the two loops, part of `HouseDesk`'s `Start`, `Stop` and `Exit`; the rest is wiring |
| Tools, tests, infrastructure | gate scripts, evaluation tools and deployment are not part of the running system |
| Rest of the web app | layouts, static pages and widgets without state |

Four hazards listed in `PROJECT.json` have no property: an admin who turns Test
timers on in the middle of a period (the code allows what follows), an old answer
of GitHub recorded after a newer one (it heals at the next look), the order of
two answers in the cache of GitHub reads, and a savepoint rolled back in a
transaction SQLite has already rolled back.

## Plan

Done: the three services with their abstract specifications, all their safety
and refinement properties proved, the periods of the floor among them; the web's
components, checked; and of these, with the runs' own properties, proved: the
voice room (the seat and the voices), signing in, the gateway, the connector, the
cave's scene, the robot, the machine library, the draft desk, the practice
floor, the ledger's reads, the proposal's and the task's page.

Next, in this order:

1. `RobotEditor`: `DraftKept`, and `LobbyBricks`: that a browser comes to see the
   build; then the other parts of `NothingUnasked` and `LobbyInStep`.
2. The parts of `ShownIsAsked` and `SaidIsSo`, which mostly need that an answer is
   of the question last asked.
3. New modules: the Bridge's dispatches (the reservation of a vendor call, its
   two-minute window, a crash while it is pending), and the savepoints of the
   state database.
