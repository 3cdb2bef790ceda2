# HearthVTT: a verification project

HearthVTT is a self-hosted virtual tabletop. A Node server keeps campaigns in
SQLite; browsers connect over a WebSocket, mirror the campaign they play and send
actions to it. This directory specifies that system in TLA+, model-checks the
specifications with TLC on small instances, and proves theorems about the core
for every instance with TLAPS. Source paths below are relative to `src/`.

## 1. Inventory

| Part | State it keeps | Operations | Talks to |
| --- | --- | --- | --- |
| Campaign engine (`server/src/domain/engine/core/engine-core.ts`) | `state` (scenes, tokens, actors, active scene), `seq`, `recentEvents`, `closed`, listeners, the promise chain of dispatches | `open`, `dispatch`, `getView`, `subscribe`, `close` | storage (append and read events, snapshots), rulesets (resolvers, hook), listeners |
| Resolvers and intent processor (`baseline-resolvers.ts`, `intent-processor.ts`, `ruleset-dnd.ts`) | none of their own | one resolver per action type, which checks permission and yields intents; one mutation and one event per intent; merging of intents | called by the engine |
| Campaign manager (`campaign-manager.ts`) | per campaign: engine, reference count, idle timer; opens in flight | `acquire`, `release`, `closeAll` | engine, WebSocket route, timers |
| WebSocket route (`routes/ws.ts`) | per connection: seat, subscription, request ids seen | upgrade, messages, close | manager, engine, storage |
| Storage (`storage/*.ts`) | tables of events, snapshots, campaigns, seats, invites, accounts, sessions, the admin | one method per query | every server part |
| Player accounts (`routes/auth.ts`, `domain/auth/account.ts`) | rate limits in memory, the rest in storage | claim-invite, login, logout, refresh, change password, logout-all | storage |
| Admin (`routes/admin-*.ts`, `auth/setup-pin.ts`) | the admin row, sessions, the PIN file, the recovery flag file | setup, login, logout, change password, recovery, reset of players | storage, file system |
| Seats, invites, campaigns (`routes/seats.ts`, `invites.ts`, `campaigns.ts`) | rows in storage | create, edit, delete, revoke | storage |
| Client connection (`client/src/api/ws.ts`, `state/connection.svelte.ts`) | socket, reconnect timer, ping timer, status, `lastEventSeq` | `connect`, `disconnect`, `send`, the socket's callbacks | server, auth store, mirror |
| Client mirror (`client/src/state/campaign.svelte.ts`) | tokens, actors, scenes, pending optimistic moves and data | `applyView`, `applyEvent`, optimistic moves and their revert | connection, user interface |
| Window store and components (`client/src/state/ui.svelte.ts`, `ui/window/*.svelte`) | open windows, groups of tabs with their `zIndex`, the drop target; per component its drag, pull, resize and menu | open, close, raise, merge, detach; mouse and keyboard handlers | user input |
| Admin page (`state/admin.svelte.ts`, `ui/layout/AdminLayout.svelte`, `ui/admin/*.svelte`) | arrays of campaigns, seats and invites, the tree built from them, expanded and selected nodes, one flag per panel | load, create, rename, delete, invite, revoke, navigate | admin routes over HTTP |
| Canvas (`app/canvas-input-controller.ts`, `state/selection.svelte.ts`, `ui/canvas/MainCanvas.svelte`, `render/`) | the gesture, the selected and the hovered tokens; sprites, outlines and rectangle of the renderer | pointer down, move, up and cancel, Escape; mount and unmount; effects that push the stores to the layers | mirror, user input |
| Other client stores | drawers, notifications, viewport | user input | mirror, connection |

### What is hard about it, and what correct means

*Engine.* The process has one thread, but a dispatch awaits storage for every
event it appends, and other dispatches, connections and closes run in between.
Correct: requests take effect one at a time and in order, whole or not at all;
the permission checked by the resolver still holds when the event is stored; no
token is left on a scene that is gone, in memory or in any prefix of what a session stores; the
sequence numbers in memory, in the log, in the window of recent events and at the
listeners agree; each dispatch is answered.

*Manager and route.* Connections arrive while an engine is opening, while its idle
timer runs or after it fired. Correct: one engine per campaign, never closed under
a connection, always closed in the end when nobody is left.

*Client.* Sockets drop, are replaced, and report their close late; optimistic moves
wait for events that other seats' events overtake. Correct: the mirror is the
server's board as of `lastEventSeq` except for pending moves, a revert restores
that board, a connection that can be restored is restored, and one that was ended
stays ended.

*Accounts and admin.* Password hashing takes long enough for other requests to run
between a check and the write that depends on it, and recovery and setup are
several writes to a file system and a database. Correct: a name has one account, a seat one
owner, an invite is used at most as often as it says, sessions stay below their
cap, attempts stay within their window, a recovery flag serves once, and the
operator can get back in.

*Storage.* Two implementations of one interface; the routes are tested on Maps and
run on SQLite. Correct: the keys of the schema hold after every series of calls,
each campaign's events are numbered without a gap, and both answer alike.

*Pages.* A drag on the canvas lasts while events move, delete and re-create the token
in the hand. Every window hears every mouse event and a release may be lost, so gestures
overlap; the admin page has several requests in flight whose answers replace parts
of one set of arrays. Correct: no gesture
leaves something behind and the canvas shows the board, each window is in one group, groups have distinct
levels, the tree shows what the arrays hold, no row appears twice, and an operation
that succeeds is seen.

`PROJECT.json` lists these hazards at their lines, with the properties that would
catch each going wrong, and says which still have none.

## 2. Modules

| Module | Models | Rests on |
| --- | --- | --- |
| `CampaignState` | entities, permission rules, resolvers, the merging and the effect of intents | |
| `EngineCore` | the engine's chain of dispatches, its awaits, listeners, close, crash, reopen | `CampaignState` |
| `AtomicCampaign` | the abstract engine: each request in one step | `CampaignState` |
| `EngineCoreRefinement` | the refinement mapping from `EngineCore` to `AtomicCampaign` | both |
| `MCEngineCore`, `MCEngineCoreRefinement` | the instances for TLC: the seeded board and the sets of requests | `EngineCore`, the mapping |
| `CampaignManager` | reference counts, shared opens, idle timeouts, and the WebSocket route that acquires and releases | |
| `ClientConnection` | the browser's socket, reconnect timer, ping interval and silent refresh | |
| `ClientMirror` | a client that follows the board by views and events, and whose user drags tokens | `CampaignState` |
| `MCClientMirror` | the instances for TLC: a board of two scenes and what a GM does to it | `ClientMirror` |
| `SqliteStorage`, `InMemoryBackend` | every operation of the two storages, as functions on a database value | |
| `StorageBackends`, `MCStorageBackends` | both storages given the same calls | both |
| `Accounts` | claims, logins, refreshes, changes of password, and the admin's routes on accounts, seats, invites and campaigns | `SqliteStorage` |
| `AdminSetup` | starts and stops of the server, setup, admin login, change of password, recovery | `SqliteStorage` |
| `Windows` | the window store and the mouse and keyboard handlers of its components | |
| `AdminTree` | the admin page: store, panels, requests in flight, the server's answers | |
| `Canvas` | pointer gestures, selection, and the layers of the renderer that the effects keep | |
| `ClientPages` | a browser tab that shows the play page or the admin page | `Windows`, `AdminTree`, `Canvas` |
| `CampaignStateProofs`, `EngineCoreProofs`, `CampaignManagerProofs`, `ClientMirrorProofs`, `StorageBackendsProofs`, `AccountsProofs`, `AdminSetupProofs` | the theorems | the module of that name |
| `ClientPagesProofs` | the theorems on a tab and its parts, and on the connection | `ClientPages`, `ClientConnection` |

### CampaignState and EngineCore

`State` is the part of `CampaignState` (`types-internal.ts`) that the board needs:
which scenes, tokens and actors exist, where a token stands, whose actor it is,
the permissions of seats on actors, the active scene, and a data blob per entity
(a member of a small set). `Request` has one record type per action of
`baseline-resolvers.ts`; `Resolves` is the guard of its resolver, in the
resolver's order of checks; `IntentsOf` what it yields: one intent as a rule, the
tokens of a scene in any order and then the scene for `scene.delete`
(`Object.values` gives some order that the model need not know), and a move
followed by a chat line when the D&D ruleset is composed. `Mutate` is the closure
`processIntent` builds, `StoredEvent` the event it leaves, which for creations has
fewer fields than the intent.

`EngineCore` has one action per piece of code between two awaits on the Storage
interface. `Submit` puts a dispatch at the end of the promise chain; `Begin` runs
the resolver and the first mutation; `Commit` is the append that storage makes,
`AppendFails` the rejection; `Proceed`, `RunHook`, `HookThrows` and `Accept` apply
and broadcast the stored event and go on with the next intent, the derived-field
hook or the answer. Because JavaScript runs each of these without interruption,
nothing else can come between the parts of one action, while everything else can
come between two actions: other submissions, subscriptions (`Subscribe` includes
the view that the route sends in the same turn), `Close` and `Crash`. The two
storages of the repository answer within the turn, so in today's process some of
these interleavings do not arise; the engine is written against the interface, and
the model gives the interface its freedom. `Open` waits until the dispatches of
the engine before it have settled.

`log` is the events table. Two history variables are of one open engine: `sinceOpen`
is what the events stored since `Open` give on the snapshot it started from, and
`appendLost` remembers that an append failed since. The log itself goes on over
`Open`, on a board that forgets what it says; `LogReplaysWhole` is about it, and
`log_across_opens.cfg` shows it false.

`ResolverArgs` is what `dispatchInternal` tells a resolver: the seat of the connection
and whether it is a GM's, and over them the fields of the payload
(engine-core.ts:374-381), which is how `actor.linkSeat` gets its `seatId`. `Input`
has the two fields a payload may name that are injected too. ws.ts:311-317 replaces
the seat beside the payload, not fields within it, so a statement about who may do
what can only speak of the seat and the role the resolver was told:
`AuthorisedAtCommit` does, and does not say that they are those of the connection.

Abstracted: the validation of payloads, the wrong campaign and the unknown action
(refusals without other effect), names and wording, dice numbers (a roll is an
event without effect on the board), and that the hook patches several actors at
once. `mergeIntents` is defined by what it returns, the last of the intents that
name the same thing; `MCEngineCore` has the loop of the code, and an assumption
there, which TLC evaluates in every run of that module, compares the two on up to
three intents. Not modelled: `workflow.open`, `campaignData.set` and custom data, the
audience filter on events and views.

### CampaignManager

`entries` and `opening` are the two maps of the class; `refCount` and `timer` the
fields of an entry, kept per engine since every open makes an entry and an engine
together; `status` what an engine is. A connection is resolving its session,
waiting for an engine, or attached, and its close listener exists only once it is
attached. A timeout whose handle is overwritten is counted in `strays`, since it
still fires and calls `closeEntry` for the campaign. `StorageYields` says whether
other callbacks run while a Storage call is awaited: with FALSE, a connection goes
from upgrade to attached in one turn, as with both storages of the repository;
with TRUE, sockets arrive, vanish and time out in between. `ReleaseAgain`, bounded
by `MaxExtraReleases`, is the extra call of `release` that the class promises to
tolerate and that no caller makes.

### SqliteStorage, InMemoryBackend and StorageBackends

A database is a record of tables, each a set of rows; every method of a storage is
one operator with the method's name, which returns the new database or the answer.
`SqliteStorage` has what SQL does beyond the statement: `ON DELETE CASCADE`, unique
keys, and a write that is refused and leaves the database as it was.
`InMemoryBackend` translates the Maps of the test double as they are: the events are
an array per campaign, which is made by the first append and goes with the campaign,
everything else rows by id. Ids, tokens
and timestamps are what the caller gave or the clock `now` shows; text is a name.

`StorageBackends` is the facade `Storage` (`storage.ts`), which makes the ids, over
both at once: each action is a method called on each, with ids that `held` remembers
also after the row is gone. Rows a caller would have looked up first are looked up;
POST invites looks up neither its seat nor its campaign, so `CreateInvite` takes any of
each, and `madeFor` remembers the campaign, which the Maps forget.
Reads are compared by the properties for every argument of interest.

### Accounts and AdminSetup

A request runs to its next await of scrypt or of a file in one action, since
better-sqlite3 answers synchronously; `req[n]` holds how far request `n` is and the
local variables it will use after the await. Between two steps any other request
may run, the clock may pass an expiry (`Tick`), and a restart may cut every request.
The statements after the last await are not one transaction: in `Accounts` the
process may also die between any two of them (`Killed`). A registration killed so
leaves an account that nobody was told of, with or without the seat: its name
cannot be registered again, and the player gets in by logging in with the password,
when need be with another invite. What no kill leaves is a seat bound to an account
that did not claim it (`SeatBoundByClaim`), or a use without a claim that spent it.
In `Accounts` the ids of rows are the numbers of the requests that made them, so a
property can ask whose row it is.

`ClaimInvite` is the part up to the check of the PIN, `ClaimRegisters` and
`ClaimLogsIn` what follows for a new name and a known one, `ClaimCreates` and
`ClaimVerified` the end, with `Binds` and `OpenSession`. `Allowed` and `Counted` are the
rate limit in memory. The admin's routes are there because they change the rows a
claim has read; `CreateInvite` takes any seat and any campaign, since the route does
not compare them. `AdminSetup` has the two files of the data directory; `Stops` may
come between any two steps of a start, a setup or a reset, but not inside one
synchronous segment, where a kill could cut two writes of the database apart. Writes
and unlinks of the two files succeed: a full disk or a file held by another program
is not modelled.

Abstracted: a password or PIN stands for its hash, a token is the id of its row,
and there is one client address. Deleting accounts and disconnecting seats answer
501 in the code and are not there.

### Windows, Canvas, AdminTree and ClientPages

`TabbedWindow` is mounted once per group and listens on the whole browser window, so
a mouse event is a series of handlers: `Deliver` names the components that will hear
it, `WindowMouseMove` and `WindowMouseUp` run for them in the order they were mounted,
and a component mounted meanwhile, or gone, is skipped. Coordinates are left out:
where the cursor is decides which header it is over and whether a tab was pulled
far enough, and every outcome is allowed. `LeaveAndReturn` mounts everything afresh
over a store that nothing resets. The keyboard works during a drag.

`Canvas` has the controller's fields as `gesture`, the selection store, and the layers
of the renderer as one record on which `updateTokens`, `setSelection` and the others
act. Svelte runs effects before the next event is delivered, so an action ends with
`Flush`: the effects of the stores it wrote to, in the order of MainCanvas.svelte.
The board is what the mirror holds, changed by any event or view (`BoardChanges`);
what a drag sends is in `ClientMirror`. Places replace coordinates; which token a
pointer hits is any outcome. Mounting takes three steps, and the page may be left
between them; what the renderer is told before it is ready is queued and replayed,
and applied at once here, because nothing can be hit until then.

In `AdminTree` an operation goes through the stages of its requests: it is sent,
the server makes the change (`ServerMutates`), the answer arrives and the store asks
for what it shows, the server answers each of these at some time, and the last
answer lands (`SliceLands`, `LoadLands`, `CampaignsListed`). Any of them may be lost
(`OpFails`). A panel disables its own buttons while its operation runs, but the tree
leads to another panel, and coming back makes a new one; Enter in the name field
of a campaign or a seat does not look at the flag (SeatSettings.svelte:181). `seats` and `invites` are
bags, because the arrays of the store may hold an id twice.

The two pages share no state, nor do the windows and the canvas under them:
`ClientPages` is the tab that shows one page, and follows one part of it.

### ClientConnection

`WebSocketClient` is one object for the life of the browser tab; the play page
calls `connect` when it is mounted and `disconnect` when it is left. `ws`,
`shouldReconnect`, `timer`, `ping` and `status` are its fields and the status in
`connectionState`; `refreshing` counts the requests to `/api/auth/refresh` that are
awaited, since nothing cancels one. `socket` is what each `WebSocket` is: the close
event of a socket comes some time after `close()`, when the client may already have
another, and `handleClose` has one action for each branch it takes on the code. A
socket that is closing counts as gone from `ws`, because `connect` looks at
`readyState` only. A socket that was open when the client closed it is `crossing`:
the server may have sent its own close code before.

The server is what a socket shows of it: it answers the upgrade, then welcomes the
connection if session and seat are there, or closes it with 4401. The session may
end at any moment and come back only by logging in, which is another page; the
seat may be taken and given. `faults` bounds what the client cannot help: lost
connections, refusals with other codes, refresh requests that fail. Code 4403 is
among them, although the server sends it only for a forbidden origin.

`navigate` to another page unmounts the play page in the same turn, so the actions
that navigate include `disconnect`. Abstracted: the delays of reconnecting, the
messages after the welcome, `resume`, and the `catch` around the constructor of the
socket, which throws only for an URL the code never builds.

### ClientMirror

One client of one seat, `Me`, with its socket's handler on the server, both
directions of the wire, and the engine as the wire shows it: requests are served
one after the other, and `Emit` changes the board, stores the event and broadcasts
it. `history` keeps the board after every event, so that `BoardAt(lastEventSeq)` is
what the client ought to show. The requests come from the client's own dispatches
and from `Inputs`, what other seats (or this seat on another device) ask for; both
go through the resolvers and mutations of `CampaignState`.

`ViewOf` is `getView`, which leaves out tokens that are hidden from the seat;
`TakeView` is `applyView`, `ApplyEvent` `applyEvent`. Events know nothing of hiding:
`token.created` does not carry the field, so a player has the token until the next
view, and `MirrorInStep` claims of hidden tokens only that what is shown is right. The client
has a branch for every event but those that replace an entity's data, and each
branch does to the maps of the client what `processIntent` does to the engine's, so
`ApplyEvent` applies `Mutate` to the mirror; `StoredEvent` has already taken away
the fields an event lacks. `Grab`, `Release` and `LetGo` are the drag of
`canvas-input-controller.ts`: the permission is looked at when the token is picked
up, and anything may arrive before it is put down. `pending` is
`pendingMoveOriginals`.

The connection may be lost at any moment with all that is on its way (`Drop`), also
because the server restarts or closes an idle engine (`Reopen`), which puts the
board back to the snapshot while the numbers go on. What the client sends before
the handler has attached its listener is lost (`LoseEarly`). `cached` says whether
the seat is among those the engine read when it was opened; a GM's seat always is
here, since one made later is also refused what GMs may do, which is not modelled.

Abstracted: the storage settles within the turn, as both storages do, so the events
and the answer of one request are sent before another message is handled;
rejections are the only errors (a failing append is in `EngineCore`); every event
is public, as `audienceForType` has it; a GM drags only tokens drawn on the canvas.
Not modelled: pings, panels, prompts, chat, the overlay of campaign data, and the
request ids, which matter to a client that retries, as this one does not.
`DownMessage` stamps every message with the engine's number: the protocol has it in
views and events, and the client reads it nowhere else.

## 3. Runs

The instances have two scenes, tokens, actors, seats and positions: enough for a
token to be moved between scenes, controlled or not, deleted and created again,
and for a scene to have several tokens or none. Three dispatches allow one to be
in flight while a second waits and a third is still to come; the second and third
differ in nothing but their place in the chain. `RecentLimit` is 2, below the
number of events a run can store, so that the window is cut.

| Run | Instance | Question |
| --- | --- | --- |
| `engine_board` | 3 dispatches, no listener, failing appends and crashes, the requests on scenes and tokens | do board and log keep their integrity? `IInv` is the invariant that the proofs use |
| `engine_requests` | 2 dispatches, 1 listener, all faults, requests on permissions and data, both rulesets | is a move authorised when it is stored, do memory, log and listener agree, is every dispatch answered? |
| `engine_atomic` | 3 dispatches, no faults | does the engine implement `AtomicCampaign`? |
| `manager` | 2 connections, 2 campaigns, 3 engines, a storage that yields, one release too many | shared opens, exact counts, held engines stay open, abandoned ones close, nobody waits forever |
| `client_connection` | 3 sockets, 2 refreshes in flight, 2 faults | is there one live socket with a true status, is no page stranded, is it reconnected? |
| `client_mirror` | 2 events of others, 2 drags, 1 lost connection or reopening | is the canvas the server's board but for the pending moves, do those settle, is an event ever missing? |
| `storage` | 4 calls from a small database in use, 2 names, 2 events, limits of 1 to 3 rows per table | do the keys of the schema and the numbering hold, do both storages answer alike? |
| `accounts` | 3 requests, 2 names, 2 passwords, an invite with 2 uses, one session per account | who gets an account, a use, a seat, a session when requests overlap? |
| `admin_setup` | 2 starts, 3 requests, 1 flag, one attempt per window | one admin, a way in, one reset per flag, attempts within their window |
| `client_pages` | 6 ids of windows and groups, 5 levels, one lost release; 2 tokens, 2 places, 2 pointers, 2 renderers; 2 campaigns, 2 seats each, 3 operations, one change from elsewhere | one home per window, distinct levels; a canvas that shows its stores, no gesture that leaves something behind; a tree that is true, no seat twice, one's own change is shown |
| `reopen_loses_board` | violation | data-model.md: replaying the events restores the state |
| `refused_claim_spends` | violation | auth-join-flow.md: the account is validated before a use is consumed |

The violations are statements of the repository's own documents that the code does
not meet; `PROJECT.json` quotes them under `findings`. The first loses state: a
reopened engine starts from the snapshot and never replays the events after it. The
second makes a player who mistypes a password ask for another invite.

Twelve more counterexamples are kept beside the runs, to be run by hand with
`tlc -config X.cfg M`; each checks one property that the code does not have:

| Configuration | Module | What TLC shows |
| --- | --- | --- |
| `left_page_reconnects.cfg` | `ClientConnection` | `DisconnectIsFinal`: a refresh answered after the page was left connects again (ws.ts:394), though ws.ts:109 says that `disconnect` "stops reconnection attempts" |
| `refresh_loops.cfg` | `ClientConnection` | `OneRefresh`: an account without a seat is refused with 4401, refreshes, and is refused again, without end (ws.ts:395); ws.ts:380 says "one attempt" and realtime-ws.md:46 promises 4403 |
| `scene_switch.cfg` | `MCClientMirror` | `CanvasIsProjection`: `scene.activated` carries no tokens (campaign.svelte.ts:565), so the canvas is empty until the next view; realtime-ws.md:114 says each connection is "a projection of server state" |
| `late_seat.cfg` | `MCClientMirror` | `PublicReachesAll`: a seat made while the engine is open gets only the numbers of events (engine-core.ts:70); realtime-ws.md:296 says public events are for all seats |
| `hidden_token_shown.cfg` | `MCClientMirror` | `HiddenIsUnseen`: `token.created` goes to every seat and does not carry `hidden` (campaign.svelte.ts:471), so a player sees a token created hidden until the next view takes it away (engine-core.ts:300); entities.ts:126 says "visible only to the GM" |
| `log_across_opens.cfg` | `MCEngineCore` | `LogReplaysWhole`: a scene deleted before a reopening is back, a token is put on it, and the log as a whole has a token without its scene (engine-core.ts:204); data-model.md:77 says that the events "can reconstruct CampaignState from any retained Snapshot" |
| `invite_unlisted.cfg` | `MCStorageBackends` | `InvitesListed`: an invite for the seat of another campaign is stored (invites.ts:137) and can be claimed, and is found by no campaign's list; invites.ts:29 says "all invites across all seats in a campaign" |
| `expired_pin_stays.cfg` | `AdminSetup` | `RestartRenewsPin`: a restart does not renew an expired PIN (setup-pin.ts:169), though the PIN file (setup-pin.ts:91) tells its reader that it does |
| `outline_stranded.cfg` | `Canvas` | `OutlinesFollow`: an event during a drag, then a cancel, and the outline of a selected token is not where its sprite is (TokenLayer.ts:111 moves only the sprite), though SelectionLayer.ts:5 has the ghosts "positioned identically to their source sprites" |
| `selection_unshown.cfg` | `Canvas` | `SelectionIsShown`: a selected token that comes onto the canvas, made again or by a change of scene, has no outline, since the effect runs only when the selection changes (MainCanvas.svelte:85) |
| `marquee_other_scene.cfg` | `Canvas` | `MarqueeSelectsVisible`: the rectangle selects among the tokens of all scenes the client has (canvas-input-controller.ts:354) |
| `renderer_leaks.cfg` | `Canvas` | `RendererDisposed`: the page left while PixiJS starts leaves an application that is never destroyed (PixiRenderer.ts:108) |

In `accounts` three requests let two claims wait for scrypt while a third request
changes what both have read; the cap of one session and the limit of one attempt
are reached by the second. In `admin_setup` the second start finds what the first
left at any of its steps. In `storage` four calls reach a row, what refers to it,
its deletion and the use of its id afterwards. In `client_pages` six ids make three
groups, so that a drag, its target and a third window are there; three operations
let one be overtaken twice. Two tokens are one in the hand and one beside it; the
canvas has no other bound but the renderers alive.

Three sockets allow two to be closing while a third is connecting, and two
refreshes an old one to be answered after a new one was sent; two faults allow the
reconnection itself to be lost.

In `client_mirror` two events let one overtake a dispatch and another its answer;
two drags let a second start before the first is answered, of the same token or of
one that is gone, or be released after its permission was taken away; one loss
catches them at every stage. The board is small because each of these is about one
token, and the second token and scene are what a scene switch needs. The run stops
checking for deadlock: after the last drag and the last loss nothing is left to do.

`SessionIntegrity` is claimed while no append was lost: after a failing append
the memory is ahead of the log, since the mutation came first and nothing undoes
it, and later events may build on what was never stored. `ServesAtomically` is checked without
faults for the same reason, and because a crash answers some dispatches never.

The runs of the manager, storage, accounts, admin and pages stop checking for
deadlock: after the shutdown, or the last request the bound allows, there is
nothing left to do. Once the manager is stopped, `HeldEngineIsOpen` and
`CountIsExact` claim nothing, since `closeAll` closes engines under connections on
purpose; nor after a release too many: campaign-manager.ts:121 promises that
`release` may be called again, but the second call arms a second timeout over the
first, which no `acquire` can then cancel. The run includes such a call and shows that
no engine is orphaned and idle ones still close. It has a storage that yields,
which allows what the storages of the repository do and more: a socket that closes
before the route listens for it stays counted, its engine is never released, and
`IdleEngineCloses` counts it as used. `WayIn` claims nothing after a stop that cut a
start or a reset half way, and `CalmStoreIsTheServer` only what operations that ran
alone leave: overlapping ones may leave the store behind the server, as below.

### What the models showed beside the properties

*Storages.* The Maps keep the invites of a deleted seat, list an account whose name
SQLite refuses, and differ for a limit of 0, for missing rows (one throws where the
other ignores), for a second admin (replaced or added) and in the order of lists.
`BackendsAlike` compares what the routes rely on. POST invites never compares the
campaign of its path with that of the seat, which data-model.md:260 assumes. An
invite for another campaign's seat is listed by neither campaign in SQLite, by the
seat's in the Maps; SQLite deletes it with either campaign, the Maps with the seat's.
`InvitesAlike` says what is left: an invite is the same in both as long as its seat
and the campaign it was made for are there.

*Admin.* data-model.md:160 says the PIN hash is cleared after setup; the code keeps
it and clears the expiry. A setup without a password deletes the PIN file, against
decisions/007:427. A login or a change of password that was verified before a reset
takes effect after it.

*Windows.* ui.svelte.ts:199-203 says the drop target is null when nothing is dragged.
Leaving the page in a drag, or closing the dragged window by keyboard, keeps it, and
the next click on a header merges that window into it. RulesetWindow.svelte:22 calls
`closeTab` with a panel's id, which has no effect, and nothing calls `reset`.

*Admin page.* A slice that lands after its campaign was deleted brings its seats
back until the next load, and an invite of a seat made during a refresh is listed
twice after four operations, which is beyond the bound of the run. `load` clears
`loading` while another load runs, and the counts of seats per account are read
only by `load`.

### Fairness

A promise the code awaits settles and its continuation runs: weak fairness of
`Serve(d)` for each dispatch, of `Admit(k)` and `OpenSettles(c)` in the manager.
Nobody has to submit, connect, subscribe, close or crash. For timers,
`FairSpec` of the manager says only what an event loop gives: a timeout that stays
armed for good fires. (Weak fairness would ask for a turn in which the timer may
fire to last, and the turns of other connections interrupt it.)

The accounts, the admin, the storages and the pages have safety properties only: a
request that stops half way is a case of theirs, not an exception.

In the client: the reconnect timeout fires, the refresh is answered, a connecting
socket opens or closes, an open one is welcomed or closed, a closing one closes.
The page need not stay, the session need not last, and `Reconnects` assumes that
the seat is there in the end: without one the client loops, which is the finding
`refresh_loops`. Faults are bounded, so they end.

In the mirror: the server handles what it was sent and finishes what it began, the
client reads what has arrived and reconnects, and the handshake ends. Nobody has to
drag, release or dispatch.

## 4. Proofs

All theorems hold for every value of the constants that satisfies the assumptions
in the modules: finite sets of ids, a recent window of at least one event, a seed
board with integrity, any requests of the right types.

*Engine.* `Integrity` of the board is not inductive: a cascade has deleted some
tokens and is about to delete more, and its next mutation preserves integrity only
if what it has still to do is right. `IInv` therefore says what each dispatch still
holds in hand (`RestIsSafe`: each remaining `scene.delete` comes after the deletion
of every token on that scene), that dispatches run one at a time and in order
(`CallsInOrder`), how `seq`, log and listeners stand to each other at each await
(`SeqInStep`, `SubscribersInStep`), that board and log differ by exactly the intent
whose append is awaited (`ReplayInStep`), and that a move in hand is one
its resolver would allow still, told what it was told (`MovesAuthorised`). `Inductive` proves it, part by part and
action by action; `BoardKeepsIntegrity`, `SessionKeepsIntegrity`, `BoardFollowsLog`,
`SeqFollowsLog`, `RecentFollowsLog`, `DeliveryIsGapFree` and `MovesAreAuthorised`
follow. `ReplayKeepsBoard` in `CampaignStateProofs` is the lemma about the data:
an intent and the event it leaves do the same to the board, although the event
has fewer fields. The lemmas there on what keeps a board whole serve the mirror too.

*Engine and `AtomicCampaign`.* A dispatch takes its abstract step when it begins on
its intents, and the mapping runs ahead of the code: it applies what the one dispatch
in hand has still to do to the state, and adds the events still to be stored to the
log. `EngineServesAtomically` shows that each later turn of the dispatch then changes
nothing (`CommitStutters`, `ProceedStutters`, `AcceptStutters`), that the requests
are answered in turn (`TurnBar`), and that opening again is the abstract restart.
The lemma about the data is `AppliedStep`, the loop over the intents as its first
turn and the rest; `Applied` is a recursion, and what it does is proved by the least
number of turns at which it would not. The hypotheses are those of the run: no
append fails, the process does not crash, and no ruleset derives fields. Each of the
three makes the statement false of the code.

*Manager.* `IInv` has two halves. `Registered`, `NoOrphanEngine` and `OpensAwaited`
hold however often `release` is called. The exactness of the counts and the safety
of held engines hold until a release too many or the shutdown, and then also there
are no stray timeouts. The two
properties need each other: an idle timeout is harmless because the count is
exact, and the count is exact because a closing connection finds the entry of the
engine it holds.

*Client.* `ConnectionInv` adds two facts to the four properties: the socket in `ws` is not
gone, and a page that is shown while `shouldReconnect` is off has a refresh in
flight. The second is what makes `NeverStranded` inductive: a close event that finds
`shouldReconnect` off schedules nothing, and must not have been the last hope.
Two lemmas say what `connect` and `disconnect` leave behind, a third what a socket
that closes takes with it.

*Mirror.* That the mirror is the board at `lastEventSeq` survives an event only if
the event is the next one and what it says is true of that board. `IInv` therefore
describes the wire: a socket over which no view was received has one on its way,
behind the welcome at most (`WireShape`); the stamps of the messages lead from the
client's number to the engine's without a gap (`StampsInOrder`); every view is the
board of its stamp and every event how that board came from the one before
(`MessagesTrue`); boards are whole, so that a view never has an active scene that
is gone (`BoardsWhole`). `MirrorFollows` is then an argument about data, made in
lemmas for one view, one event, one revert and one move. For the pending moves,
`PendingIsAnswered` follows each from the client's message over the engine's work
to the event, rejection or view that settles it, which gives `QuietMirror`;
`PermissionsInStep` gives `GateFollows`. `EventsInTurn` says that the gap the client
looks for cannot occur, since one engine numbers the events and the wire keeps
their order.

*Storages.* `IInv` of `StorageBackends` says, table by table, what the Maps have and
SQLite has not. Campaigns, sessions and settings are the same rows. Entities, seats and
snapshots of the Maps are those of SQLite and some of campaigns that are gone; such
a seat was refused by SQLite, so nobody was told its id and no account is bound to it
(`SeatsInv`). An invite of the Maps alone names a seat that is gone, or was made for a
campaign that is, and will for good, since a new seat has a new id (`InvitesInv`). An account of the Maps alone
came after the one that has its name, and the Maps answer the first (`AccountsInv`).
SQLite's events are the arrays of the campaigns there are, each numbered by its
places (`LogsInv`). One lemma per method says that it keeps the invariant; in
`DeleteCampaign` the cascade of the schema and the loops of the Maps have to take
the same rows. `KeysStand`, `LogsStayDense` and `BackendsStayAlike` follow. The last
needs that `ORDER BY seq` over some rows is the filter of the array: both pick the
n-th element by what lies before it, and `Ranked` shows by a count that among the
indices of some elements each rank below their number is taken once; `SameEvents` has
the reads of the log for any options but a limit of 0, where the two differ. The
assumption is that `NULL` is no number and no row.

*Accounts.* What a request decided before an await must still be right after it, so
`IInv` follows each claim and login through its stages. `RequestsHoldWell` says what
the request has in hand: a use it spent, an account it found, the seat of an invite
that is still there or gone for good. `UsesAccounted` is then a count: the uses left
and the claims that spent one add up to the uses of the invite; `SessionsCapped` holds
because the check and the insertion lie in one turn; `OneAccountPerName` because a
claim that hashes looks again, and the key of the table is the last resort.
`IdsKnown` says that every row was made by a request that has come that far, which
makes new ids new. One lemma per statement of SQL says what it changes, one per
action what the tables and the request are afterwards; the two theorems on a claim
(`NoUseIsShared`, `ClaimIsKept`) survive a restart between any two steps, and a kill
between any two statements (`Killed` leaves one of the databases of `Binding` or
`Opening`, each of which has what it needs). `BoundByClaim` ties every bound seat to a
claim that spent a use and made, or gave the password of, the account it is bound to. The
assumption that `NULL` is no number, status or row is that of the schema.
`SeatStaysBound` is the action property, over the same invariant.

*Admin.* `OneAdmin` is not inductive: a start that found no admin is about to write
one. `AdminThere` says at which stages there is none yet, and `PinIsTold` that what
the table has is what the file or the log said, or will say once the write that is
under way is done; `AttemptsCounted` relates each attempt that was let through to
the window that counted it. `AttemptsBounded` needs a limit above zero: the first
attempt of a window is let through whatever the limit is, and the code has 5.

*Canvas.* `CanvasInv` relates the layers to the stores and the controller: what is
committed to a sprite is where the board has its token (so that a preview taken away
leaves the sprite in its place), the layer of the ghosts remembers the hovered token
or none (so that no ghost of another comes back), without a renderer nothing is
drawn, and only on a canvas that is ready is a gesture going on. One lemma per method
of the renderer says that it keeps a drawing and what it puts into the hand;
`EffectsDraw` is their composition, for any stores written to; the lemmas on the
steps are about the controller.

*Windows.* `WindowsInv` is about lists and a map that must agree: the tabs of a group
are exactly the windows mapped to it, each once. Closing, pulling out and merging
filter a list, and what a filter computes is a recursion: `WithoutIs` states the
result outright (the list with position k skipped) and proves it by the least
position at which the recursion would differ, since induction is out of the
provers' reach. `MaxIsGreatest` is what raising a group rests on: the level above
the highest is nobody's.

*Admin page.* Three layers. `ServerOK`: no seat without its campaign, no invite
without its seat. `TreeInv`: the tree is closed under children whatever is selected
and expanded, operations ask only for their own campaign, and the bag of seats has
each once (a slice replaces the seats of its campaign and no others). `Calm`:
while operations run one at a time and succeed, the store is the server but for the
campaign the operation is about, stage by stage: what was listed, pruned or fetched
so far (`CalmOp`). `WriteInv` has what `AnswersShowTheirWrites` needs when nothing is
calm: seat numbers are never given twice, so what an operation made stays made or
gone for good, and a slice fetched after the change contains it. In the tab as a whole the
parts leave each other alone, which `PagesKeepTheirPromises` puts together.

Each invariant was an invariant of a run of TLC before it was proved, within the
bounds of section 3.

Every safety property of the passing runs is a theorem. Model-checked only: what is
claimed under fairness (`EveryDispatchSettles`, `ConnectSettles`, `IdleEngineCloses`,
`Reconnects`, `PendingSettles`), since the provers have no ENABLED.

## 5. Plan

Done: the engine and its refinement, the manager, the client's connection, its mirror and its pages, the
accounts, the admin and the storages, with their theorems. In order, what is still
missing:

1. `EngineCore` as the server side of `ClientMirror`: the view of a seat and the
   filtered events there, so that the mirror's engine is shown to be an abstraction
   of it.
2. The request ids of the route, for a client that retries; the overlay of campaign
   data, chat and panels in the mirror.

## 6. Not modelled

Drawing (PixiJS), background and grid, pan and zoom, the forms and layout of the Svelte components, HTTP plumbing, header and cookie
formatting, password hashing itself, dice arithmetic, configuration and logging:
stateless, or third-party, or nothing a state machine says more about than the
code. `PROJECT.json` lists every component with its status.
