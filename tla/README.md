# CollabPulse: TLA+ models, checks and proofs

CollabPulse is a chat and calling application for teams. The program that runs (`npm run dev`,
`npm start`) is a single Node process (`server.ts`, `server/`) with PostgreSQL behind it, and a React
client (`src/`). This directory holds TLA+ modules for the parts of it where order, concurrency and
failure matter, the TLC configurations that check them, and proofs for the TLA+ proof system (TLAPS).

- [1. The system](#1-the-system)
- [2. What makes it hard](#2-what-makes-it-hard)
- [3. The modules](#3-the-modules)
- [4. The runs](#4-the-runs)
- [5. What is proved](#5-what-is-proved)
- [6. Disagreements between code and documentation](#6-disagreements-between-code-and-documentation)
- [7. What is not modelled](#7-what-is-not-modelled)
- [8. Plan](#8-plan)

Paths are relative to the repository. To repeat a check: `tlc -config MCx_y.cfg MCx` for a run,
`tlapm XProofs.tla` for the proofs of a module.

## 1. The system

| Component | Code | State | Operations | Talks to |
|---|---|---|---|---|
| 1:1 call engine | `server/routes/calls.ts`, `server/db.ts` | `db.calls`, `activeCallClaims`, `outgoingCallTimeouts`, table `calls` | invite, claim, response, cancel, end, hold, resume, timeout callback | realtime hub, PostgreSQL, conversations |
| Group calls | `server/routes/groupCalls.ts` | tables `group_calls`, `group_call_participants` | create, invite, join, leave, end, tokens, mute, webhook | PostgreSQL, LiveKit |
| Sessions and tokens | `server/routes/auth.ts`, `server/security.ts`, `src/services/api.ts` | `db.sessions`, grace records, table `user_sessions`; token in memory and `localStorage` of each tab | login, refresh, logout, logout-all | PostgreSQL |
| Messages | `server/routes/messages.ts`, `conversations.ts`, `db.ts` | `db.messages`, `processedClientMessageIds`, `db.pinnedMessages`, tables `messages`, `message_reactions` | post (two endpoints), edit, delete, react, pin, save, receipts, page | realtime hub, PostgreSQL |
| Conversations | `server/routes/conversations.ts`, `db.ts` | `db.conversations`, its tables | create, add and remove members, find-or-create for a call | calls, messages |
| Realtime hub | `server/realtime.ts` | connections, groups, typing timers, presence | register, unregister, join, leave, broadcast, keep-alive | every route |
| Realtime client | `src/services/signalr.ts`, effects of `AppContext.tsx`, list of `ChatArea.tsx` | the EventSource, its reconnect timer, the channel in view, the messages shown | connect, reconnect after 3 s, join, leave, load | hub, contexts |
| Call manager of a tab | `src/context/CallContext.tsx` | call state, incoming, outgoing, active, held call, delayed transitions | start, accept, decline, end, hold, resume, event handlers | call engine, signaling, peers |
| Signaling | `server/routes/signaling.ts`, `src/services/call/SignalingClient.ts` | the set of processed signal keys | relay, de-duplicate | hub, peers |
| Peers, SFU, media | `src/services/call/*` | peer connections, candidate queues | offer, answer, candidate, ICE restart | signaling, browser |
| Accounts and login protection | `server/security.ts`, `middleware.ts`, `auth.ts`, `admin.ts` | lock records, rate windows, sessions, password, status | login, lock, sign-out, revocation, reset, change of status | sessions, PostgreSQL |
| Organizations, workspaces, administration | `organizations.ts`, `workspaces.ts`, `admin.ts`, `middleware.ts`, `bootstrap.ts` | tenants, memberships of organization and workspace, roles, accounts | create, assign, remove, switch, change role, suspend, delete | PostgreSQL, sessions |
| Channels, meetings, tasks, files, calendar, users, notifications, search | the routes of these names | arrays of `db` and their tables | one change, one statement | PostgreSQL |
| Boot and shutdown | `server.ts`, `bootstrap.ts`, `db.syncFromPostgres` | – | DDL, load of all tables, reminder worker | all |

What each must get right:

- *Call engine*: one tab of the callee owns a call; a call that was answered never times out, one that
  was not does; memory does not forget how a call ended; the table follows memory.
- *Group calls*: the limit of participants; an active call has a host and participants; an ended or
  abandoned call holds nobody.
- *Tokens*: a token has one successor; what a client holds is durable; refreshing alone never signs a
  user out.
- *Messages*: a retry is not a second message; what was answered is stored; a deleted message stays
  deleted; memory and tables agree; a pinned message is a visible one.
- *Call manager of a tab*: the transition table is obeyed, a delayed transition never hits a later
  call, an event of one call never acts on another.
- *Hub*: presence agrees with the connections; a broadcast reaches the connections of its group.
- *Signaling and peers*: no signal is dropped as a duplicate of a different one; candidates are applied
  after the remote description, to the connection they belong to.
- *Conversations*: a pair has one direct conversation; whoever left stays out; nothing is left without members.
- *Accounts*: the lock holds against concurrent attempts; a revocation reaches a login that is on its way;
  a status that was set is the one the next start loads.
- *Organizations and members*: a workspace keeps an owner; whoever was locked out stays out; the tables know
  what memory knows.

## 2. What makes it hard

The server is single threaded, so a handler is atomic between two `await`s and interleaves with every
other handler at each of them. Three consequences run through all modules:

1. **Memory first, table later.** Most handlers change an object of `db`, then await one statement whose
   values were captured when it was issued. The pool has up to 15 connections: statements of two
   handlers reach PostgreSQL in any order. A rejected statement is logged and the handler continues.
2. **Registries in memory.** Claims, timers, grace records, idempotency maps and pins are lost in a
   restart, and the tables are loaded as they are.
3. **No transactions, few keys.** Group calls keep everything in PostgreSQL, but a handler is a series of
   separate statements, and `group_call_participants`, `message_reactions` and `workspace_members` have no unique
   key over what identifies a row.

The client adds a fourth: every request is a message of its own. Two signals, two group changes, two lists of one
tab may be served in either order, and the event stream beside them has no numbering and no replay.

`PROJECT.json` lists the hazards one by one, at their lines, with the properties that watch them.

## 3. The modules

Most modules describe one component for one instance of its subject (one call, one session, one
message id, one channel, one account, one pair of peers, one organization): the handlers never touch two keys of
the same registry. `CallTab` is about several calls at once and `Conversations` about several conversations, since
that is where they can go wrong. `X.tla` holds the
variables, the actions, the properties and the inductive invariant; `MCX.tla` adds the symmetry sets;
`XProofs.tla` holds the theorems. The definitions marked *mutant* in the comments are faulty versions
of the definition below them (a dropped guard, a missing reset, a swapped order); the system never uses
them, they show that the properties notice such an error.

### CallServer (1:1 call engine)

A handler in flight is a *slot* with a program counter: `write` (statement issued), `ack` (applied, the
promise not resumed), `history`, and the direct `select`/`update` of hold and resume. `persistCall`
replaces the array entry by a fresh merged object when it resumes, so a handler that still waits
mutates an object the array has dropped; objects therefore live on a small heap with garbage collection
(`heap`, `mem`). `claim` is `activeCallClaims`, `timer` is the entry of `outgoingCallTimeouts`; the timeout
callback has a slot of its own. `Restart` clears all of them and loads the row, or does not (`LIMIT 500`, or
a failed load). `granted`, `released`, `answered`, `raced` are history variables.

### GroupCall

A slot's program counter names the next *statement*: `create` (host), `invite` (member, insert), `join`
(count, existing, write), `leave` (left, remaining, close or transfer), `end` (close, clear). `part` is the
table of participants, with possibly several rows per user; a `SELECT` without `ORDER BY` returns any of
the rows. Webhooks of LiveKit and failing statements interleave. The token, mute and video endpoints do
not change this state and are left out. `GroupCallSerial` adds the history variable `overlapped` (two requests were in
flight at once) for `SerialCall`, and `MaxParallel`, which bounds the behaviors in which they are.

### TokenRotation

One session, the tabs of one browser that share `localStorage`, and the refresh handler: `Lookup` (session
by hash, else grace record, else 401), `Persist` (the row), `Register` (the grace record and the answer). Tokens are
natural numbers in the order of issue. A tab has at most one refresh in flight (the promise the client
shares between its requests). `Lose`, `Reload`, `SignOut`, `Revoke` and `Restart` are the disturbances.

### MessageSend

One client message id, and the POSTs that carry it (`Attempts`). The endpoint of the client is chosen in the
initial state. `/messages` consults a map that it writes *after* its await; the conversations endpoint looks
on the objects in memory, then in the table, and pushes without looking again. `Forget` is the
cleanup timer of the map; `Restart` loads messages from the table, without their client ids.

### MessageStore

The messages of one channel: post, edit, soft delete, reactions, pins. `objects`, `row` (message and reactions) and
`pins` are separate; `Applied` says what each statement does to the row with the values it captured, so
that `Write` may come in any order. The record of a message counts the reactions of each user, because
after a restart the array may hold duplicates.

### CallTab and CallDisplay (call manager of a tab)

One tab, the 1:1 calls it takes part in, and the server and the other parties as its environment.
Handlers of `CallContext.tsx` read refs that follow the state only when React renders; `ui` is what was
rendered, `set` what the setters have been called with since, and `Render` makes the second the first. A
handler that awaits is a record in `ops`; its request is served by the server (`Serve`) and its answer
handled later (`ClaimReturns`, `HoldReturns`, ...), or it fails on the way. `inbox` holds the events sent to the tab, in order;
`timers` and `hangup` are the delayed transitions to idle; `links` are the peer connections. `line` and `owner`
are what the server makes of a call, reduced to what a tab can tell. `stale` is a history variable: it
becomes true when a handler runs while React owes it a rendering, when an answer to an invite is overtaken by
the events of that call, or when `endCall` gives up because another one is still running.

The environment is reduced from `server/routes/calls.ts`: an end gives up a ringing call, an accept on its
way may revive it, a claim lost to another tab is refused. Left out: group calls, `joinCall` (a link to a
meeting), WebRTC signals below "a connection opens, comes up, weakens", media devices, mute flags and what is only
shown.

`CallDisplay` is the abstract promise: the displayed state moves along `VALID_STATE_TRANSITIONS`, or falls
back to `held` while a held call is left (`endCall` and the `CallEnded` handler set it past the table). `CallTab`
implements it under the mapping `state <- ui.state`, `holding <- ` "a rendered session is held". That is
not evident: each transition is checked against the state *rendered*, and several of them may come between two renderings.

### Accounts

One account: `Attempt` passes the check of the lock and waits for the lookup, `CheckPassword` counts or opens a session in
memory, `Opened` is the answer of its INSERT. `SignOut` removes the *latest* session of the user, which is how the code finds
one; `RevokeOne`, `LogoutAll`, `ResetPassword` and `ChangePassword` remove others. Two administrators change the status
statement by statement. `Restart` brings back every row, because the load ignores `is_active`. `guesses`, `epoch`, `lost`
and `mixed` are history variables. What is refreshed meanwhile is the subject of `TokenRotation`.

### PeerLink

The negotiation of one accepted call: `posts` are signals under way, each a request of its own, so in any order; `seen`
are the keys of `SignalingClient.ts`, made of type, sender and the first 30 characters (`Key`, and `Prefixes` for what these
are in a candidate). A handler that awaits the camera or the `RTCPeerConnection` is a job with a stage per await, and a
connection has an id, because a job may find another one than it started with. `RTCPeerConnection` itself is external, with the
states of the W3C standard. The caller has one tab, the called user any number, all of which receive each signal. `Exhausted` says
that a side has made an offer after its first, which `Key` takes for the first one again, so that the other side drops it. Names
that `GroupCall` has too carry a prefix (`LinkInit`, `LinkSpec`, `LinkTypeOK`), so that `GroupCallProofs` can hold the proofs of both.

### Realtime

The streams of one user. The server's `clients` and `tracked` against the device's `source`, `timer`, `ident` and `view`; requests
(`stream`, `join`, `leave`, `load`) are served in any order, `feed` holds what was written to a stream and is not read yet.
`Break` loses a stream on the device's side, `Unregister` notices it on the server's, later. `ListComplete` is about the
composition of both with the store: what a channel's list shows after any mixture of loads and events. `gap`,
`stale` and `clash` are history variables for the circumstances in which the code loses something: an event sent to
nobody, a switch of organization that meets a reconnect timer, a leave (by user id) that hits a stream that wants the group.

### Conversations

Direct and group conversations, memory beside rows, one step per statement. `todo` is the set of members whose statements a
handler has still to issue; `shared` says that the array it iterates is the live `memberIds` of the object, so that a change by
another handler changes what it writes. The call (`Invite`, `FindOrCreate`) looks for the conversation of a pair and lists it only
after its statements; the endpoint of the client looks and lists without an await. `MessageSend` models the messages.

### Tenancy

One organization with its workspace and its users, through four sets of routes: `organizations.ts` (`Create`, `Assign`,
`Remove`, switching, status), `workspaces.ts` (`SetRole`, `RemoveMember`, memory only), `admin.ts` (`UpdateStatus`, `UpdateRole`,
`EditUser`, `DeleteUser`) and `authenticate` (`Associate`: whoever belongs to the tenant and has no record gets one, and its
INSERT lands later). `mem` and `row` have the same shape. A membership of the organization has two possible ids, that of the route and
that of the link made at boot; a user may have several records in the workspace, of which the code reads the
first. `Abort` is the unhandled rejection of the switch, which ends the process; `Reboot` and `Abort` share `Boot`. `stripped`
collects the circumstances in which the owner may be lost, and `unsaved`, `overlapped`, `missed` those in which memory and tables
differ. Names that `Accounts` has too carry a prefix (`TenancyInit`, `TenancySpec`, `TenancyTypeOK`), so that one module can hold
the proofs of both.

### How the modules relate

The components share PostgreSQL and the process. Where one handler of a modelled component touches the state of another, the
module that owns the state has the action: the conversation that `/invite` finds or creates is in `Conversations`, and in
`CallServer` the await and its failure; the status an administrator sets is in `Accounts` with its sessions and in `Tenancy` with
its memberships. `CallTab` composes a tab with an environment reduced from `calls.ts`, `PeerLink` two
or three tabs with the relay, `Realtime` the hub with the devices and the store. A restart is an action of every
server module that keeps state in memory, except `Realtime`, which describes one life of the hub: to a device a restart is a
lost stream (`Break`), and what it does to the presence in the table is left out.

## 4. The runs

| Run | Question | Bounds |
|---|---|---|
| `callserver_requests` | Who owns a call, when may the timer fire, what do overlapping `persistCall`s keep, and does a ringing call nobody claims stop ringing? `OneOwner`, `NoTimeoutOnceAnswered`, `FactsSurvive`, `SerialWriteThrough`, `UnclaimedCallExpires` | 2 tabs, 2 requests in flight beside the timer, 3 requests, 1 failure, 1 restart, 4 objects (one per slot and one for the array) |
| `groupcall_requests` | How far can joins overshoot, is an abandoned call noticed, and, with requests one at a time, is there always a host and is an ended call empty? `BoundedOvershoot`, `NoEmptyCall`, `SerialCall` | 3 users, 4 rows, 2 slots, limit 2, 6 requests, 5 of them when any overlap, 1 webhook, 1 failure |
| `token_tabs` | Are tokens durable before they are handed out, never forked, and is a session never stranded by refreshes? `HandedOutIsDurable`, `NoFork`, `CurrentTokenHeld` | 3 tabs, 4 tokens, 1 failure, 2 disturbances |
| `accounts_sessions` | Does the lock hold against attempts under way, do revocations and sign-outs reach all sessions? `GuessesBounded`, `RevocationHolds`, `NoSessionLeft` | 2 devices, 2 administrators, limit 2, 2 sessions, 4 acts |
| `send_retries` | Are retries recognised, and is an answer durable? `SerialRetriesSafe`, `AnsweredIsStored` | 4 attempts, 1 failure, 2 restarts |
| `messages_reorder` | What can reordered statements do? `DeletionIsFinal`, `SerialStore`, `OneReaction`, `PinsAgree` | 2 messages, 2 users, 2 contents, 2 slots, pin limit 1, 5 requests, 1 failure, 1 restart |
| `conversations_members` | Has a pair one conversation, do the rows agree, does a deletion last, is none left without members? `OneDirect`, `RowsAgree`, `NoneDeserted` | 3 users, 2 handlers, 2 conversations, 4 requests, 1 failure, 1 restart |
| `tenancy_roles` | Who keeps owning a workspace, who stays out, what do the tables know? `OwnerKept`, `LockedOut`, `TablesAgree` | founder and one more user, 2 handlers, 3 requests, 1 failure, 1 restart; from nothing, and from an organization of both |
| `calltab_display` | Is what a tab shows legal, true and not a dead end, and does a held call survive the end of another? `DisplayLegal` (refinement), `EndedHasExit`, `ModalTruthful`, `HeldKept` | 2 calls; 5 acts of the user, the other parties and failures together |
| `peerlink_negotiation` | Do negotiations settle, candidates arrive, second answers stay out, cameras go off? `NegotiationSettles`, `CandidatesArrive`, `OneAnswer`, `NoMediaAfterEnd` | caller and 1 or 2 tabs of the called user, 1 candidate a side and description, 1 lost connection, hang-ups at any time |
| `realtime_streams` | Does presence follow the streams, does the channel in view reach the device, is the list complete, is nobody cut off? `PresenceAgrees`, `ViewFed`, `ListComplete`, `NeverCutOff` | 2 devices, 2 organizations, 3 channels, 2 messages, 4 acts (sign-ins, switches, views, sign-outs, faults) |
| `realtime_deletion` | *violated*: a device that missed nothing shows no deleted message, `DeletedLeavesView` | 1 device, otherwise as above |

`TypeOK` is proved of every module (`LinkTypeOK` in `PeerLink`, `StoreTypeOK` in `MessageStore` and `TenancyTypeOK` in `Tenancy`; the
runs of the last two check it too). Every bound is a constant whose name starts with `Max` and appears in a
guard. They are enough in this sense: the hazards need two handlers (three with the timer), one of them having passed
its check before the other acts; a third user, tab or attempt shows what a bystander sees; and one failure or restart can be
placed at every step. The inductive invariants of section 5 hold for every value of the bounds. In `CallTab`, `Accounts`,
`Realtime` and `Conversations` one bound, `MaxActs`, and in `Tenancy` `MaxArrivals`, counts what comes from outside: clicks, requests, faults. What
follows from them (serving, statements, answers, events, renderings, timers) is free. In `CallTab`, five acts place a held call
beside an active one and leave one act to end, cancel or lose either. In `Accounts`, four acts are a lock, a revocation, a change of
status and a restart around two logins. In `Realtime`, four acts on two devices are two sign-ins, a change of view and a lost
stream or a sign-out; `MaxUnderWay` delays an act, never an answer, so requests of earlier acts still overtake each
other. In `Tenancy`, the run starts from an organization that is settled as well as from none, so that three
requests are enough to promote, demote and remove; two users are the owner and the one who could be another.

`CHECK_DEADLOCK FALSE` is set throughout: the bounds on requests end every behavior, and a server without
requests has nothing to do. Slots, handlers, attempts, tabs without a role of their own and users that nothing names are
symmetric; the run with the liveness property declares no symmetry.

**Fairness** is stated in `CallServer` only: `WF(Fire)`, since Node calls an expired timer, and `WF(HandlerStep(s))`,
since a statement is answered, with a result or with an error, and its promise is resumed. No fairness is assumed of requests,
failures or restarts. `UnclaimedCallExpires` therefore rests on the runtime alone. What must eventually happen elsewhere is
stated as an invariant about states in which nothing is under way (`NegotiationSettles`, `ListComplete`) or about what will make it
happen (`EndedHasExit`, `NeverCutOff`: there is a timer), which needs no fairness. The provisos of a
property (`~raced`, `failures = 0`, `~overlapped`, `~clash`, `~stripped`, ...) are part of what it says: they name the
circumstance in which the code does not keep the promise.

## 5. What is proved

All theorems hold for every value of the constants (finite sets where the assumptions say so). Each proof has the
same shape: `Inv` holds initially, one lemma per action shows that it is kept, with one step
per conjunct, and the theorem follows by temporal logic.

| Module | Theorem | Property |
|---|---|---|
| `CallServerProofs` | `TypeCorrect`, `SingleOwner`, `TimerDiscipline`, `NoLateTimeout`, `MemoryKeepsFacts`, `WriteThrough` | `TypeOK`, `OneOwner`, `ArmedMeansUnanswered`, `NoTimeoutOnceAnswered`, `FactsSurvive`, `SerialWriteThrough` |
| `GroupCallProofs`, of `GroupCall` | `TypeCorrect`, `OvershootBounded`, `EmptyCallEnds`, `SerialCallsSettled` | `TypeOK`, `BoundedOvershoot`, `NoEmptyCall`, `SerialCall` |
| `GroupCallProofs`, of `PeerLink` | `LinkTypeCorrect`, `SettledNegotiationAgrees`, `EarlyCandidatesAreKept`, `MediaIsReleased`, `FirstAnswerStays` | `LinkTypeOK`, `NegotiationSettles`, `CandidatesArrive`, `NoMediaAfterEnd`, `OneAnswer` |
| `TokenRotationProofs` | `TypeCorrect`, `RotationsExclusive`, `DurableBeforeHandedOut`, `NeverForks`, `NeverStranded` | `TypeOK`, `OneRotation`, `HandedOutIsDurable`, `NoFork`, `CurrentTokenHeld` |
| `CallTabProofs` | `TypeCorrect`, `EndedIsLeft`, `DisplayRefined`, `HeldCallsKept`, `ModalsTruthful` | `TypeOK`, `EndedHasExit`, `DisplayLegal`, `HeldKept`, `ModalTruthful` |
| `MessageProofs`, of `MessageSend` | `TypeCorrect`, `NoSerialDuplicates`, `AnswersAreDurable` | `TypeOK`, `SerialRetriesSafe`, `AnsweredIsStored` |
| `MessageProofs`, of `MessageStore` | `StoreTypes`, `SerialStoreHolds`, `ReactionsSingle`, `PinsListed`, `DeletionFinal` | `StoreTypeOK`, `SerialStore`, `OneReaction`, `PinsAgree`, `DeletionIsFinal` |
| `AccountsProofs`, of `Accounts` | `TypeCorrect`, `GuessesAreBounded`, `RevocationIsComplete`, `SignOutsSuffice`, `StatusIsWritten` | `TypeOK`, `GuessesBounded`, `RevocationHolds`, `NoSessionLeft`, `StatusWritten` |
| `AccountsProofs`, of `Tenancy` | `TenancyTypes`, `WorkspaceHasOwner`, `BarredStayOut`, `MemoryIsWritten` | `TenancyTypeOK`, `OwnerKept`, `LockedOut`, `TablesAgree` |
| `ConversationsProofs` | `TypeCorrect`, `OneDirectHolds`, `RowsAgreeHolds`, `NoneDesertedHolds` | `TypeOK`, `OneDirect`, `RowsAgree`, `NoneDeserted` |
| `RealtimeProofs` | `TypeCorrect`, `PresenceIsRight`, `ViewIsFed`, `NobodyIsCutOff`, `ListIsComplete` | `TypeOK`, `PresenceAgrees`, `ViewFed`, `NeverCutOff`, `ListComplete` |

`ArmedMeansUnanswered`, `OneRotation`, `StatusWritten`, `LinkTypeOK` and the `TypeOK` of these modules are left to the proofs; the runs check the
other properties of the table too.

- *OneOwner* needs that every tab that was told it owns the call is the one in the registry
  (`GrantedIsClaimed`). *ArmedMeansUnanswered* is not inductive: it needs that nothing at all has happened to a
  call before its invite answered (`NothingBeforeKnown`), in memory, in the row and in every statement on its way, and that
  there is one invite (`OneInvite`). *FactsSurvive* and *SerialWriteThrough* need who may meet an empty memory
  (`EntryInv`: the one `/invite` up to its first `persistCall`, and a direct `UPDATE`); everybody else persists the entry of the
  array. While nothing is raced, the one `persistCall` in flight works on that entry with the value it still has
  (`UndisturbedPersist`), and the row equals the entry when none is in flight (`RowIsEntry`).
- *BoundedOvershoot* counts, beside the joined rows, the handlers that have passed the capacity check and have not
  written yet (`Approved`) and the rows about to be updated (`Claimed`); the sum is what stays bounded, since a handler that
  passes the check takes a slot. *NoEmptyCall* needs that an empty active call always has a handler on its way that
  adds a participant or will notice (`EmptyNoticed`). *SerialCall* follows what the only request in flight has found and
  must leave behind, statement by statement (`Underway`): a host that has left leaves the call without one until it is handed over
  or closed, an `/end` has ended the call before it clears the participants.
- *OneRotation* holds because the handler replaces the hash in memory before it awaits: the successor of a rotation in
  progress is the last token issued and nobody has it (`RotationInv`). *HandedOutIsDurable* bounds every token in
  circulation by the row (`DurableInv`); *NoFork* relates answers to grace records and to rotations in
  progress (`ForkInv`); both lean on the order of the tokens (`AgeInv`). *CurrentTokenHeld* holds in any interleaving of refreshes and
  failures: the session expects the last token issued, and a token that is refused is older (`HeldInv`), so the tab that clears its
  storage never clears that one. It assumes that there is a tab (`TabAssumption`).
- *SerialRetriesSafe* needs, for each stage of an attempt, where the message can be found (`FoundInv`): in the map, in the
  hands of the one attempt in flight, or in the table; *AnsweredIsStored* needs that memory exceeds
  the table only by messages whose INSERT is on its way (`StoreInv`).
- *SerialStore*, *OneReaction* and *PinsAgree* need what the one statement on its way will make of the row (`SerialRows`): as
  long as no two requests about a message overlap and none is rejected, that is what memory says already; the pins in memory
  follow the message. *DeletionIsFinal* is an action property: every step but a restart leaves a deleted message deleted in
  memory, and `SoundInv` says what deleted means (mark and tombstone together, in the object and in the row).
- *DisplayLegal* is the step simulation of `CallDisplay`. Only `Render` changes the displayed state, so the
  invariant says that what was set is never more than one legal move away from what is displayed (`OneMove`). It is kept
  because a handler either leaves `set.state` alone, sets a successor of `ui.state`, or falls back to `held` with a
  held session rendered. *EndedHasExit* is inductive with `TypeOK`: every handler that sets `ended` starts a
  timer, or is the cancellation whose answer starts it, and a timer fires only when nothing waits to be
  rendered, when `ended` leads to `idle`. *ModalTruthful* needs that a call rings one
  way only, that what is pending agrees with it, and that a tab which reads what was rendered has been told what it shows
  (`ModalInv`). *HeldKept* is proved action by action: only `endCall` and the handler of `CallEnded` close a connection. Without its
  last disjunct it is true within the bounds of the run and false beyond them: a `CallEnded` for a call that is gone
  closes the connection of the active session, which after two more acts may be on hold.

- *GuessesBounded* counts, beside the guesses, the requests that have passed the check of the lock; while the record is
  open it counts every guess (`LockInv`). *NoSessionLeft* bounds a cardinality: each action that
  adds a session adds a device that waits for it, and each that forgets a device removes a session or is counted in
  `lost`; `SigningIn` and `Numbered` say whose sessions they are. *StatusWritten* needs that the one administrator at
  work writes the status that is set (`StatusInv`).
- *OwnerKept*, *LockedOut* and *TablesAgree* share one invariant (`TenancyInv`), since a step about the organization has to leave
  alone what is said of the people, and the other way round. *TablesAgree* needs that a handler which is alone accounts for
  every difference: each column of a table agrees with memory unless the statement that writes it is still to come, and that
  statement carries the value of memory (`TablesInv`); a record of a member is its row, or is what `persistWorkspaceMemberUpdate` will make
  of the row, or is an INSERT on its way (`MembersAgree`). *OwnerKept* needs in addition when a restart may be trusted: while `unsure`
  is false, memory and tables agree but for users who have two rows (`OwnerInv`), so the boot finds the owner or sets
  `stripped`; a demotion or removal by `workspaces.ts` leaves a second owner, which is an argument about the cardinality `OwnerCount`
  (`AnotherOwner`). *LockedOut* follows the two bars separately, the account in memory and in its row (`ShutOut`) and the records
  in memory and in theirs (`SilentOut`): one failing statement spares one of them, which `ClosingInv` states for a handler that is
  between its two statements.
- *OneDirect* needs the conversation a call has created and not listed yet: `Direct` covers both, `NoTwin` states the
  uniqueness for it, and `DirectHasPair`, `OnlyGroupsGrow` and `CallsAlone` say that nothing turns one
  conversation into a second one of the same pair. *RowsAgree* and *NoneDeserted* are read off what each conversation owes to the
  tables (`Fits`): every difference between `memberIds` and the rows is a statement that some handler has still to issue, and
  whoever left last is at work to delete the conversation.
- *PresenceAgrees*, *ViewFed* and *NeverCutOff* need that a stream has one number, is either under way or registered, and that no
  request repeats it (`Numbered`), that a timer will start the organization of its device (`TimersCurrent`), that the view
  is of that organization (`ViewOwn`) and that no leave under way is of a channel in view (`LeavesElsewhere`). *ListComplete* needs
  that lists are numbered by the loads that asked for them and are of the channel in view, and that every stored message is in the
  list on show or in the feed, and in every answer of the latest load (`NothingMissed`).
- *NegotiationSettles* and *CandidatesArrive* speak of a call at rest, so their invariant has to say what a call
  may be on its way: `StageInv` has it at one of 15 `Points`, from the claim to the answer of the callee's first offer, each
  of which says which descriptions are made, received and under way, which handlers run, and what either connection holds
  (`Stands`). A step stays at its point or goes to the next. That only one next point exists, however signals
  overtake each other, is due to the keys: at a point, only one offer or answer is under way, and the key of
  none that is still to come has been seen (`Unheard`). An ICE restart starts a handler that is no part of a point until it makes an
  offer; before the first answer none can (`Undisturbed`). At rest only the two points are left at which nothing is to be done.
  *CandidatesArrive* follows the candidates of both descriptions with the point known: each is under way, or its prefix has been seen and a
  candidate with that prefix waits in the queue or has been applied (`Follows`). *NoMediaAfterEnd* needs that an `ended` comes from
  a side that has left and that, while `late` is false, nothing is under way after it that could open the camera again
  (`EndInv`). *OneAnswer* is an action property: an answer becomes the remote description only by a key the tab has not seen,
  and the key of the first stays in `seen` (`RemoteInv`). `BeforeInv` and `AbsentInv` say that nothing happens before the claim, or
  in a tab that is not open. TLC has checked `LinkInv` on the instance of the run, and the proof extends it to any number of tabs, candidates,
  prefixes and lost connections.

Every property that a passing run checks is proved but one: `UnclaimedCallExpires` is only model-checked, since liveness under
fairness and `ENABLED` are outside what the prover can do, as is induction over data; no module uses a recursive operator.

## 6. Disagreements between code and documentation

One run ends in a counterexample, `realtime_deletion`: the server sends `MessageDeleted` with `messageId`, the handler of
`ChatArea.tsx` reads `id` and removes nothing, so a deleted message stays on every other screen until the list is loaded again
(`docs/realtime.md:14` says it is removed).

The following were met while modelling. They have no run: each appears in its module as the proviso of a property, or as
behavior that the action allows.

*Calls*
- `/response` takes a call that has ended back to `connecting` (`calls.ts:415`); `scratch/test_phase1_call_engine.ts:26` allows
  `ended` only to become `idle`. (`raced`)
- A claim cancels the only timer of a call, so a call whose tab never responds rings on. (`UnclaimedCallExpires` has the
  claim as a proviso.)
- `resumeCall` sets the resumed session active and then calls `transitionCallState`, which writes the session rendered *before* back
  (`CallContext.tsx:245`): after a swap the window belongs to the call on hold (`scratch/test_phase3_multiple_calls.ts:9`).
- The next host of a group call is chosen in one statement and appointed in another, between which it may leave.
- The key of 30 characters (`SignalingClient.ts:60`) is the same for any two offers of a user: the offer of a second ICE restart is
  dropped, and the restart is not answered (`PeerConnectionManager.ts:4`). (`Exhausted`)
- A second tab of the called user answers the offer too, although the claim is atomic (`calls.ts:319`); the caller keeps the
  first answer that fits. (`Alone`)
- A `CallEnded` for a call the tab does not know closes the connection of the active session, even one on hold
  (`CallContext.tsx:469`, `sessionsRef.current.get(callId) || activeSessionRef.current`; `:1140` "Supports individual call
  termination"). (`HeldKept`)
- An offer that arrives after a hang-up opens connection and camera anew (`LocalMediaController.ts:180`). (`late`)

*Sessions, messages*
- The grace record that is to serve parallel refreshes is registered after the await of the row, so a refresh in between is
  refused (`auth.ts:854`, "resolves parallel race conditions").
- The id of a message is remembered after the await, so a retry during it is a second message (`messages.ts:10`). (`overlapped`)
- Revoked sessions are loaded again at the next start (`auth.ts:1217`, "Revoke all existing sessions for security"). (`Recent`)

*Realtime*
- Groups are left by user id on all of the user's streams: another device, or a quick return to the channel, loses
  the group. (`clash`)
- A reconnect timer keeps the organization it was set with; a switch meanwhile gets a stream of the old one. (`stale`)
- The answer of an earlier list replaces a later one, and a list under way overwrites an event that came after it was read;
  events sent while there is no stream are never replayed. (`gap`, `shown`)
- The hub sends `TypingStarted` and `TypingStopped`, the client listens to `UserTyping` and `UserStoppedTyping`; signing in sets the
  user Online without a stream (`auth.ts:197`). (`greeted`)

*Conversations*
- A call and another request for one pair create two direct conversations. (`raced`) A direct conversation that became a group is direct
  again after a restart. (`escalated`)
- An addition that overlaps a removal may leave a row; a deletion whose statement fails is answered all the same. (`mixed`,
  `failures`)
- The last member may remove himself, which deletes nothing; a crash between the statements of a leave has the same effect.
  (`selfRemoved`, `restarts`)

*Organizations and members*
- The workspaces routes write no table: a promotion is forgotten and a removal undone by a restart. (`unsaved`) With a promotion there
  and a demotion of the founder by the administration, a restart leaves a workspace without an owner; the check "Prevent
  demoting the last Owner" exists in `workspaces.ts` only. (`stripped`)
- Whoever belongs to an organization and has no record in the workspace is barred by the account alone: where the UPDATE of a
  deletion is lost, a restart lets that user in again, and the next request makes a member of it. (`LockedOut` speaks of members.)
- `authenticate` makes whoever was removed a member again at the next request (`middleware.ts:220`;
  `docs/testing/part-6-qa-testing-seed-plan.md:167` says that they cannot send any more). After a restart such a user may have two
  records: owners are counted twice and a removal takes the first only. (`Twice`, `stripped`)
- The link at boot (`bootstrap.ts:338`) makes deactivated members active again, and an active membership with another id ends
  its loop. The status of an organization is read before an await and written back after it (`organizations.ts:482`, `:625`).
- The second UPDATE of a deactivation names a column no script creates. The UPDATE of a switch (`organizations.ts:526`) is not in
  a `try`: where it is rejected, the rejection is unhandled and ends the process. (`Abort`)

## 7. What is not modelled

- *Too simple to be worth a module*: tasks, files, meetings, calendar, channels, users, search and
  notifications are one synchronous change, or one statement, per request.
- *I/O*: DDL, media devices, LiveKit, rendering, deployment. Of the boot only the load of each module's rows and the link of
  memberships are modelled.
- *Other programs*: the .NET backend (`backend/`) and the Angular client (`frontend/`) are neither started by
  `package.json` nor reached by this server.
- *Inside the modelled components*: wording of responses, audit entries, the history rows of calls (written,
  never read back by the engine), permissions that are constant during a behavior, threads, receipts and saved
  messages, typing, rate limits per address, domains and settings of organizations, invitations, `POST /workspaces`, the creation of
  accounts.
- *Seen and left*: the answer of a refresh that comes after the sign-out (`api.ts:167`) and the cursor of a page whose message
  was deleted (`messages.ts:94`).

## 8. Plan

| Step | Module | Subject | Worth stating | Worth proving |
|---|---|---|---|---|
| done | `CallServer`, `GroupCall`, `TokenRotation`, `Accounts`, `MessageSend`, `MessageStore`, `Conversations`, `Tenancy`, `CallTab`, `CallDisplay`, `PeerLink`, `Realtime` | sections 3 to 5 | | |
| 1 | `CallProtocol`, composing `CallServer` and `CallTab`; group calls in `CallTab` | one call, the tabs of both users, the stream of events between them | an abstract `CallAgreement` (one owner, an end reaches everybody) that `CallProtocol` implements; tabs that lost the claim stop ringing | the step simulation |
| 2 | `MessagePaging` | the cursor of `GET /messages` under posts and deletions | pages cover what stayed, once | |

The number of runs is kept to about a dozen: a run that shows a disagreement gives way when a component of
this list needs the place.
