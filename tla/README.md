# Mailwarden: a TLA+ development

Mailwarden lets an AI agent read, sort and draft mail, and lets mail out only
when a human has confirmed it. This directory holds TLA+ models of the parts of
the program whose correctness depends on the order in which things happen, the
TLC configurations that check them on small instances, and TLAPS proofs.

Paths below are relative to the repository's root unless they name a file here.

## How the program runs

Mailwarden Cloud is a set of request handlers in Worker isolates over one SQL
database. **No handler uses a transaction that spans two statements**; what
protects a table is a unique index or an `UPDATE ... WHERE` whose returned rows
are counted. Every `await` is therefore a point where any other request may run
and where the isolate may be lost. The models take that literally: one
statement (with the local computation up to the next await) is one action, a
request is a record with a `pc` and what it has read so far, and a *crash*
simply ends the request there.

Mailwarden Bridge is a Node daemon on a customer's machine. It reaches Cloud
over HTTP, keeps one identity record in a secret store, and runs a heartbeat
loop beside commands that arrive on its local API or its gateway.

## Inventory

| component | code | state | operations | what must hold | hard behaviour | modules |
|---|---|---|---|---|---|---|
| Send guard | `src/services/sending.ts`, `drafts.ts`, `outbound-gates.ts`, `utils/hash.ts`, review and confirm routes of `http/routes/management.ts` | `drafts`, `send_approvals`, `send_attempts` | create, edit, sign; request, review, confirm; send | only a confirmed payload leaves; a key sends once; a success has sent | edits and sends interleave, two sends race for a key, crash after the provider took the mail, polls run out | `ApprovedDelivery`, `SendGuard`, `SendGuardProofs` |
| Relay devices (Cloud) | `src/services/relay-devices.ts` | `relay_provisioning_sessions`, `relay_devices`, `relay_device_credentials` | start, authorize, poll, renew, rotate, heartbeat, revoke | a code is answered by the poll that holds it; what was delivered is not undone; a revoked device stays dark | two polls of a code, a catch block that undoes, issue and revocation overlap | `Enrolment`, `RelayDevices`, `RelayDevicesProofs` (partly) |
| Bridge identity | `apps/bridge/src/core/identity.ts`, `bridge.ts`, `cloud.ts`, `daemon.ts` | the identity record or a revocation marker | provision, heartbeat, renew | a revoked bridge forgets its credential, in time and only for a cause | a lost reply, overlapping renewals, reconnects | `BridgeIdentity`, over `RelayDevices`; `RelayDevicesProofs` |
| Managed tunnels | `src/services/cloudflare-tunnels.ts`, cron of `worker.ts` | tunnel columns of a device, `relay_tunnel_cleanup`, tunnels and DNS at Cloudflare | provision, release, reconcile | a device in service has its tunnel; a released one is deleted or in the ledger; the ledger is emptied | two stores, failures between two requests | `ManagedTunnels`, `ManagedTunnelsProofs` |
| Relay host | `apps/bridge/src/core/tunnel.ts`, `secrets.ts`, `gateway.ts`, `local-api.ts`, `daemon.ts`, `cli.ts`, `packages/relay`, `packages/proton`, `src/services/bridge-control.ts` | gateway, port, `cloudflared` child, secret file, replay cache | boot, heartbeat, repair, setup, stop; sign, accept; observe, diagnose | a signature is accepted once; one tunnel; a broken edge is named and the advice works | commands overlap, another program holds the port, restarts | `BridgeHealth`, `RelayHost`, `RelayHostProofs` |
| Organizations | `src/services/organizations.ts`, `packages/organizations` | `tenants`, `memberships`, `organization_invites` | found, invite, revoke, accept, change role, remove | an owner, seats within the plan, an invite admits one | checks and writes are separate statements | `Membership`, `RegistrationProofs` |
| Registration, beta invites | `src/services/user-auth.ts`, `invites.ts` | `users`, `identity_email_claims`, `user_auth_credentials`, `beta_invites` | register, provision, rotate, create a code | who was told can sign in; a failure can be retried; a code admits one | a roll-back by hand over three tables | `Registration`, over `Membership`; `RegistrationProofs` |
| OAuth server, sessions, tickets | `src/services/oauth.ts`, `auth.ts`, `human-session.ts`, `http/routes/oauth.ts` | `oauth_clients`, `oauth_codes`, `oauth_tokens`, `sessions`, `stream_tickets` | register, authorize, exchange, refresh, revoke, sign in, tickets | a grant is honoured once; reuse ends the family; removal ends access | reuse while the successor is being inserted | `OAuthClients`, `AccessTokens`, `AccessTokensProofs` |
| Triage | `src/services/triage.ts`, `triage-events.ts`, `inbox-state.ts`, `attention.ts`, `packages/triage-*` | `message_facts`, `triage_events` and their keys and members, `triage_decisions` | record, judge, save, merge, unmerge, read the inbox | a judgment shown as current knows its messages; a message is shown once; what is over asks for nothing | an agent that judges for minutes; messages out of order | `TriagePriority`, `TriageFeatures`, `Triage`; `InboxProofs` |
| Mail policies | `src/services/policy.ts`, `user-preferences.ts` | `mail_policies`, `user_preferences`, `mailbox_actions` | set, change, remove, preset, evaluate, act | the most specific rule acts; a preset takes no rule of the user's | a preset wipes and refills under an ingestion | `MailPolicies`, `InboxProofs` |
| Provider connection | `src/services/provider-oauth.ts`, `http/routes/provider-connect.ts`, `portal.ts`, `privacy.ts`, `sync.ts` | `email_accounts`, `provider_connections`, `email_identities` | connect (five routes), sync, disconnect, remove | credentials are the owner's; one switched off fetches nothing | three rows in separate statements, a sync beside them | `MailAccounts`, `MailAccountsProofs` |
| Ingestion, mutations, relationships | `src/services/email.ts`, `relationships.ts`, searches of `src/providers` | `emails`, `thread_states`, `sender_profiles`, `relationships`, `projects` | ingest, mutate, relate, associate, forget, purge | what was shown is stored; counts and marks are right | read, change and write back | `Mailbox`, `InboxProofs` |
| Privacy, audit, encryption, preferences, localization | `src/services/*` | rows and text | - | - | - | partly: what takes rows away is in `MailAccounts` and `Mailbox` |
| HTTP, MCP, UI shells | `src/http`, `src/mcp`, `src/ui`, `packages/ui` | none | dispatch | - | - | partly: routes begin the calls of the modules |

Interactions. The send guard stands between the shells and the mail providers.
A bridge calls the relay-device handlers over HTTP and shares no state with them
but the credential it was given; an admin calls the same handlers from the
portal, and a revocation releases the device's tunnel. Registration ends in the
acceptance of an organization's invitation; a member's removal ends its sessions
and tokens. Connecting or syncing an account ingests its messages; an ingestion
writes the mailbox's memory, records the message with an event and lets the
first matching rule act on it. OAuth and membership decide who may call, and are
guards outside the other models.

`PROJECT.json` lists the hazards of this code line by line, each with the
properties that would catch it or the reason why none does.

## Modules

Every module opens with a comment that names its files and what it leaves out,
and its variables are commented with the table or field they stand for. The
tables below give the correspondence of actions; `PROJECT.json` has it line by
line.

### ApprovedDelivery and SendGuard

`ApprovedDelivery` is the promise: a challenge is opened for one hash, approved
once and for good, and a message leaves only under an approved challenge that
carries its hash. `SendGuard` is the code: its three tables (`attempts` by its
unique idempotency key), the requests in flight (`editors`, `askers`,
`confirmers`, `senders`) and two histories, `viewed` (what each review page has
shown) and `mail` (what providers accepted).

| actions | code |
|---|---|
| `CreateDraft`; `EditRead`, `EditWrite`; `SignRead`, `SignWrite` | `createDraft`; `editDraft`; `setDraftSignature` |
| `AskRead`, `AskInsert`, `AskLost` | `requestSendApproval` |
| `Review` | `GET /approvals/:id/review` |
| `ConfirmRead`, `ConfirmHash`, `ConfirmCas`, `ConfirmCrash` | `confirmSendApproval` |
| `SendStart` ... `MarkFailed`, `SendCrash` | `sendDraft`, step by step |

A payload is a *text* (everything the hash covers) and a flag *extra* (Bcc,
HTML, attachments, which `computeSendPayloadHash` leaves out and
`assertGmailOutboundSupported` refuses). The hash is injective on texts. There
is one user. The faults are constants: `crash` (the isolate is lost), `db` (a
statement is refused), `provider` (the message is refused, or taken and the
answer lost), `poll` (twenty polls pass without a sent attempt).

### Enrolment, RelayDevices and BridgeIdentity

`Enrolment` is the promise: an approved code is answered by the poll that holds
it, and a step may give it back. `RelayDevices` has the three tables, the calls
in flight and two histories, `delivered` (the answers) and `reopened` (the codes
a failing poll gave back).

| actions | code |
|---|---|
| `Start`, `StartElsewhere`, `Lapse` | `startProvisioning` with its purge, here or for another organization; the passing of `expiresAt` |
| `HumanAuthorizes` (`AuthorizeRead`), `Authorize` | `authorizeProvisioning`: limit, then compare-and-set |
| `PollRead` ... `PollExpire`, `UndoDevice`, `UndoSession` | `pollProvisioning` with the loser's path and the catch block |
| `IssueRead`, `IssueInsert`, `IssueOrphaned`, `IssueRetire`, `IssueUndo`, `Answer` | `issueCredential` and the answer of its three callers |
| `RotateRead`, `RenewRead` | `rotateCredential`, `renewDeviceCredential` |
| `RevokeForm` (`RevokeDevice`), `RevokeCreds` | `revokeDevice`, from the portal's form or the API |

`BridgeIdentity` extends it with one bridge: the stored credential, the marker
`markRevoked` leaves, `serving`, the ages of credentials, a running `setup` and
the `loops`. A heartbeat cycle and the `refresh_registration` repair each load
the identity, renew it if it is aged and go on with what they loaded. A lost
reply is a step of the bridge after which Cloud's call goes on without it.

### ManagedTunnels

Cloud's tables and Cloudflare's account are two stores. `Request` is a call of
Cloudflare's API that may be refused, or done and its answer lost; `Statement` a
write that may be refused. `TunnelRoute` ... `Again` is `getTunnelCredential` and
`provision` with its catch; `RevokeBegin` ... `Clear` the release within
`revokeDevice`; `PassBegin` ... `PassFail` the cron's `reconcile`; `Unconfigure`
a deployment without the four settings. A hostname is named by its device: two
device ids that `relayHostname` maps to one label are not modelled (the DNS
record would be pointed before the unique index refuses the row).

### Membership and Registration

`Membership` has one organization in full and further ones by their owner alone.

| actions | code |
|---|---|
| `BeginChange`, `BeginRemove`, `ReadTarget`, `CheckOwners`, `WriteChange` | `changeMemberRole`, `removeMember` |
| `BeginInvite`, `CountMembers`, `CountPending`, `InsertInvite`; `BeginRevoke`, `Shut` | `createInvite`; `revokeInvite` |
| `BeginAccept`, `ReadExisting`, `TakeSeat`, `Claim`, `Latest`, `Join` | `acceptInvite`, claim first, row afterwards |
| `BeginFound`, `CheckPlan`, `InsertTeam`, `OwnTeam`, `UndoTeam`, `LoseTeam` | `createOrganization`, with its compensating delete |

`Registration` extends it: `SignUpForm` ... `OpenSession` is `registerUser`,
`UndoUser` and `UndoClaim` its roll-back, `Accepted` its last call of
`acceptInvite` in the same slot; `BetaRoutes` provision and rotate; `InviteForm`
makes a code. The founder exists, so the race of two first users is not modelled.

### OAuthClients and AccessTokens

`OAuthClients` is `validateClient` with the compatibility path, the fetched
metadata document and `registerClient`, and `POST /oauth/register`.
`AccessTokens` extends it with what one user holds of one workspace: the page
and the form of `/oauth/authorize`, the code, `exchangeCodeForToken`,
`refreshAccessToken` with its rotation and the revocation on reuse, `revoke`,
`createToken` for every login, human sessions and their rotation, the choice of a
workspace, stream tickets, and `removeMember`'s three deletes. Every row carries
the *era* (membership) it was made in, a history. PKCE, resources and scopes are
checks a call passes or never begins.

### TriagePriority, TriageFeatures and Triage

`TriagePriority` is the priority table and the clamps as functions;
`TriageFeatures` what is read out of a message, how facts age and merge, and the
keys a message joins an event by. `Triage` is the state machine over them:

| actions | code |
|---|---|
| `Ingest`, `Replay`, `WriteFacts` ... `Supersede` | `recordMessage` from `ingestEmail` or `scripts/replay.ts` |
| `Judge`, `Prepare`, `Save` | `getTriageBatch` or `getEventContext`, the agent, `saveDecisions` |
| `ChangeContext`, `markUocChanged` | `setUserService`, `setUserCommitment` |
| `BeginMerge`, `CheckChild`, `BeginUnmerge`, `Link`, `FlagLinked` | `mergeEvents`, `unmergeEvent` |
| `InboxState`, `Shown` | `getInboxState`, which flags what it reads |
| `getAttentionQueue`, `getWaitingForUser` | `attention.ts` |

### MailPolicies

`PolicyRoutes` and `SetBegin` ... are `setPolicy` and `removePolicy`, the prompt
of `setPolicyFromPrompt` reads a rule out of words, `Preset*` is `applyPreset`
from its four callers (with the `user_preferences` row that tells it),
`IngestBegin` ... `IngestAct` the evaluation of one message: the rules are read,
read again when none is enabled, and the first matching one acts. `Steps`,
`Ahead` and `Fits` are the evaluation's order.

### MailAccounts

A mailbox is three rows. The forms `oauth`, `imap`, `proton`, `portalImap` and
`portalProton` go through the same statements in their own order
(`AfterAccount`, `AfterConnection`, `AfterConnect`); `SyncForm` ... `Settle` is
`syncAccount`; `DropConnection` ... `DropAccount` are `disconnectAccount` and the
portal's removal.

### Mailbox

`BeginSync`, `BeginGmailSync`, `Sync` and `NextMessage` are a provider's search
and `syncAccount`'s loop; `InsertEmail` ... `Act` one `ingestEmail`; `Flag`
`mutateMailboxState`; `BeginRelate`, `BeginAssociate`, `BeginLook` and their
statements `relationships.ts`; `PrivacyRoutes` the purges. The mail server is
external (`Arrive`, `MoveOut`). `MAILBOX_MUTATIONS_ENABLED` is on.

### BridgeHealth and RelayHost

`BridgeHealth` is `packages/relay/src/observation.ts` as functions: component
health, relay status, and each diagnosis with its advice. `RelayHost` is the
host. A call is one activity (`boot`, `beat`, the repairs, `setup`, `stop`) run
up to its next await; the port, the systemd unit and the processes are external.
`Sign` is Cloud's `bridge-control.ts`, `verifyGatewayRequest` and `Accept` the
gateway's check with its replay cache, `RepairRoute` its control route.
`Observed` is what `observe()` would find, and `Environments` what it finds beside
the state of the module.

### CallFrames and Races

`CallFrames` is what the modules of concurrent calls share: a slot holds the
record of the call it runs, whose `pc` names the statement it is about to make
(`At`, `Goto`, `Go`); `Triage`, `Mailbox` and `MailPolicies` are written with it.
`Races` counts the calls that begin while another is in flight, for `Triage` and
`Mailbox`.

### MC modules

The MC modules extend the modules with symmetry sets and the values of function
constants; the `.cfg` files give the rest. No configuration replaces a
definition. Symmetry is used only in runs without liveness.

## Runs

| run | instance | shows |
|---|---|---|
| `send_guard` | 1 draft, 2 texts, 1 approval, 1 key, an editor, 2 confirmations, 2 sends, all faults | `MailWasConfirmed`, `UnhashedNeverMailed`, `SentAttemptIsBacked`, `SuccessMeansMailed`; `KeepsPromise`: the handlers refine `ApprovedDelivery` |
| `send_guard_calm` | 2 approvals, 2 keys, 2 sends, no editor, no faults, fair | `ConfirmedAfterReview`, `OneMailPerKey`, `EverySendEnds` |
| `relay` | 1 code, 2 devices, 2 credentials, 2 calls, all faults | `DeliveredIsKept`, `RevokedStaysDark`; `KeepsEnrolment`: provisioning refines `Enrolment` |
| `bridge` | 1 code, 1 device, 3 credentials, 2 calls, the heartbeat, lost replies, crashes, fair | `ErasedForACause`; `RevokedIsForgotten` |
| `tunnels` | 2 devices, 2 tunnels, 2 fetches, a revocation, a pass, any 2 faults, fair | `ActiveIsServed`, `AnsweredIsKept`; `PendingIsReleased` |
| `membership` | 4 people of 2 addresses, 1 invitation, 1 beta code, 2 further organizations, 2 calls, 1 fault | `InviteAdmitsOne`, `OwnerWhenAlone`, `AnsweredCanSignIn`, `FailedCanRetry`, `CodeAdmitsOneWhenAlone` |
| `access` | 2 clients and redirects, 1 code, 2 refresh tokens, 2 sessions, 1 ticket, 2 memberships, 2 calls | `HonouredOnce`, `RemovalEndsAccess`, `ReuseEndsFamily`, `CodesGoHome` |
| `triage` | 3 messages that make two or three events, 2 judgments, 2 calls, failures | `FreshBetweenCalls`, `ShownOnce`, `ActionIsLive` |
| `policies` | 4 rules, 2 presets, 2 calls, failures, 1 message ingested | `MostSpecificWins`, `OwnRulesStay` |
| `accounts` | 2 users, 2 addresses, 2 accounts, all five forms, a sync, 2 calls | `CredentialsAreOwners`, `OffStaysOff` |
| `mailbox` | 2 messages of one sender and thread, every kind of call, 2 at a time | `ShownIsStored`, `CountsWhenAlone`, `MarksWhenAlone` |
| `host` | every activity, 2 at a time, 2 tunnel processes, 1 signature in use | `BrokenIsExplained`, `AdviceWorks`, `AcceptedOnce`, `OneTunnelWhenAlone`, `StaysDark` |

Every property comes with a mutant in `PROJECT.json`: an operator beside the
definition it changes (`MatchesUnchecked`, `OwnTeamOrLeave`, ...), which no
specification uses, and under which TLC finds that property violated.

Each module also states its type invariant and a few further properties that
hold and that no run lists (`ConfirmedOnce`, `UsedApprovalStaysShut`,
`RenewalRetires`, `AuthorizedInTime`, `SeatsWhenAlone`, `TeamsWhenAlone`,
`ConnectedIsUsable`, `MailboxesWhenAlone`, `SaidWhenAlone`, `SecretsWhenAlone`);
put in the `.cfg` of the component's run, TLC finds them true there. Of these
`ConfirmedOnce`, `RenewalRetires`, `AuthorizedInTime`, `ConnectedIsUsable`,
`MailboxesWhenAlone` and `SecretsWhenAlone` are proved too.

Deadlock is not checked: every model has a finite number of requests, ids and
ticks and stops when they are used up.

### Properties that say "alone"

Much of this code is right only as long as the calls of one user or one
organization come one at a time, and it would be wrong to state more. Those
modules count the calls that begin while another is in flight (`raced`, in
`Triage` by what was mixed: `mixed`) and a property ending in `WhenAlone`, or
conditioned on `raced = 0`, is checked of the histories where the count is zero;
failures of single statements count too, unless the property is about them.
Overlap is explored all the same, for the properties that hold under it:
`InviteAdmitsOne`, `AnsweredCanSignIn`, `FailedCanRetry`, `HonouredOnce`,
`ShownOnce` (merges apart), `MostSpecificWins`, `OwnRulesStay`,
`CredentialsAreOwners`, `OffStaysOff`, `ShownIsStored`, `BrokenIsExplained`,
`AdviceWorks`, `AcceptedOnce`.

### Bounds, and why they are enough

* *Ids.* Every property is about one draft, device, invitation, address, thread
  or client, or about two that meet; two are the least that do. Where an id is
  used up by an insert, an action starts only while one is left (`CredLeft`,
  `DeviceLeft`, `Unused`), so that no call is stuck for want of one.
* *Calls.* Two at a time. A call that has ended frees its slot, so a history may
  be of any length up to the ids; a race of three calls is not covered.
  `MaxRaces = 1` lets one call (or failure) begin beside another: one overlap of
  any two calls at any two statements. In `membership` only the kinds in `Racing`
  (revocation, acceptance, registration, founding) overlap or come after an
  overlap: a role change beside another, which loses the owner, is left to the
  table below.
* *Scenes.* `MailPolicies` (rules, preferences), `AccessTokens` (arrivals,
  tokens) and `Membership` (members, further organizations) choose one scene at
  the start, because the two halves share too little state to be multiplied. Each
  pair meets where it matters: the preset in both scenes of the first, a code's
  client in both of the second.
* *Faults.* `MaxTrouble = 2` in `tunnels`: a failure and another on the way of
  its repair. `MaxFaults = 1` in `membership`: one failure, whose roll-back may
  not fail again except as the mishap it is counted as. `MayFail` in `triage` and
  `StatementsFail` in `policies` let any statement fail.
* *Time.* `Validity` 1 and `MaxTime` 2: an approval is fresh, at its last tick
  and expired at each of its checks. `Window` 1 and `MaxClock` 2 in `host`: a
  signature is new, at the edge and outside the window. `MaxClock` 2 in `triage`:
  received, judged and expired are three times.
* *Counts.* `MaxWrites = 3` rules written (two of the user's and a preset, or the
  reverse), `MaxIngested = 1`, `MaxTold = 2` statements of the user about senders
  or marks, `MaxRows = 3` rows made of a sender (one purge and what follows it),
  `MaxJoins = 2` and `MaxEra = 2` (a member removed and admitted again),
  `MaxTeams = 2` with the founder's first organization as one of them,
  `MaxSent = 1`.

### Fairness

* `send_guard_calm`: weak fairness of a started send's own steps: its isolate
  runs on and its awaits settle. Nobody must start one. The run excludes faults
  and assumes that twenty polls outlast the winner.
* `bridge`: weak fairness of the loop's steps (`daemon.ts` schedules a heartbeat
  after every heartbeat, whatever came of it) and of Cloud's work on a call that
  has begun; strong fairness of `Heartbeat` and `HeartbeatRevoked`, because a
  link that loses replies is assumed not to lose every one of them.
* `tunnels`: weak fairness of a pass's steps, of the cron that begins one
  (`worker.ts`, `scheduled`), of the fifteen minutes passing, and of a
  deployment's settings being restored. Faults are bounded by `MaxTrouble`, so
  Cloudflare is reachable in the end, as the comment of `reconcile` supposes.

## Proofs

Every theorem below is proved for every value of the constants that the module's
named assumptions admit: any number of ids, users, messages and calls in flight,
any bound, and any set of faults unless the theorem says otherwise. The runs
check the same definitions on the instances above. Every invariant of a run, its
action properties and its two refinements are theorems; what is left to TLC is
listed at the end.

| module | theorem | statement |
|---|---|---|
| `SendGuardProofs` | `TypeCorrect`, `Invariance` | `TypeOK`; `IInv` |
| | `MailIsConfirmed`, `UnhashedIsNotMailed` | `MailWasConfirmed`, `UnhashedNeverMailed` |
| | `SentIsBacked`, `SuccessIsMailed` | `SentAttemptIsBacked`, `SuccessMeansMailed` |
| | `ConfirmedIsReviewed`, `OneConfirmationSucceeds` | `ConfirmedAfterReview`, `ConfirmedOnce` |
| | `KeySendsOnce` | `OneMailPerKey`, unless polls run out (`"poll" \notin Faults`) |
| | `NothingIsTakenBack` | no step takes back what was opened, confirmed, used, seen or mailed |
| | `PromiseIsKept` | `KeepsPromise`: the handlers implement `ApprovedDelivery` |
| `RelayDevicesProofs` | `RelayTypeCorrect` | `RelayTypeOK` |
| | `DeliveredStays`, `RenewedIsRetired` | `DeliveredIsKept`, `RenewalRetires` |
| | `EnrolmentIsKept` | `KeepsEnrolment`: provisioning implements `Enrolment` |
| | `NoLateAuthorization`, `RevokedIsDark` | the action properties `AuthorizedInTime`, `RevokedStaysDark` |
| | `ErasedOnlyForACause` | `ErasedForACause` of `BridgeIdentity`, for one loop and credentials that do not lapse |
| `ManagedTunnelsProofs` | `TunnelTypeCorrect` | `TunnelTypeOK` |
| | `ServedWhileActive`, `RevocationIsKept` | `ActiveIsServed`, `AnsweredIsKept` |
| `RegistrationProofs` | `RegistrationTypeCorrect` | `MembershipTypeOK`, `RegistrationTypeOK` |
| | `InvitationAdmitsOne`, `OwnerStays` | `InviteAdmitsOne`, `OwnerWhenAlone` of `Membership` |
| | `AnsweredSignsIn`, `FailedRegistersAgain`, `CodeMakesOneUser` | `AnsweredCanSignIn`, `FailedCanRetry`, `CodeAdmitsOneWhenAlone` |
| `AccessTokensProofs` | `AccessTypeCorrect` | `AccessTypeOK`, `ClientTypeOK` |
| | `GrantsHonouredOnce` | `HonouredOnce` |
| | `RemovalIsComplete`, `ReuseIsAnswered`, `CodesStayHome` | `RemovalEndsAccess`, `ReuseEndsFamily`, `CodesGoHome` |
| `MailAccountsProofs` | `MailInvariance`, `AccountsTypeCorrect` | `MailInv`; `AccountsTypeOK` |
| | `CredentialsStayTheirs`, `OffIsNotOpened` | `CredentialsAreOwners`, `OffStaysOff` |
| | `PlanIsKept`, `ConnectedCanSync` | `MailboxesWhenAlone`, `ConnectedIsUsable` |
| `RelayHostProofs` | `DoctorExplains` | of every observation: what its health shows as broken has a diagnostic |
| | `HostInvariance`, `HostTypeCorrect` | the invariant `Inv`; `HostTypeOK` |
| | `BrokenAlwaysExplained`, `AdviceAlwaysWorks` | `BrokenIsExplained`, `AdviceWorks` |
| | `AcceptedAtMostOnce` | `AcceptedOnce` |
| | `OneTunnel`, `DarkStaysDark`, `SecretsAreKept` | `OneTunnelWhenAlone`, `StaysDark`, `SecretsWhenAlone` |
| `InboxProofs` | `TriageTypeCorrect`, `EventsHold` | `TriageTypeOK`; every row that is named is there |
| | `MergesShowOnce`, `JudgmentsAreFresh`, `ActionsAreLive` | `ShownOnce`, `FreshBetweenCalls`, `ActionIsLive` |
| | `MailboxTypeCorrect` | `MailboxTypeOK` |
| | `ShownAreStored`, `MarksStayWhenAlone`, `CountsHoldWhenAlone` | `ShownIsStored`, `MarksWhenAlone`, `CountsWhenAlone` |
| | `PolicyTypeCorrect` | `PolicyTypeOK` |
| | `OwnRulesKept`, `SpecificRuleWins` | `OwnRulesStay`, `MostSpecificWins` |

`RelayDevicesProofs` is about `RelayDevices` and `BridgeIdentity`,
`RegistrationProofs` about `Membership` and `Registration`, `AccessTokensProofs`
about `OAuthClients` and `AccessTokens`, `InboxProofs` about `Triage`, `Mailbox`
and `MailPolicies`.

### Why the properties hold

No property is inductive as it stands: a call acts on what it read some
statements earlier, and says nothing of the rows as they are now. Every
invariant below therefore ties what a call holds, at each statement it may be
at, to the tables; TLC checked each on the component's instance before it was
proved. A proof has one lemma per form of record a step writes, one per action,
and one per conjunct the action may disturb.

* *SendGuard.* `IInv`: rows that are named exist; only the owner of an attempt
  settles it; a sender past its checks stands on a confirmed approval and holds
  a payload with its hash, which an edit of the draft no longer reaches. Over it
  `SendInv` (an attempt is its inserter's, who has mailed before it writes so),
  `ReviewInv` (a confirmation's nonce was shown) and `KeyInv` (without exhausted
  polls only a key's owner dispatches). `NothingTakenBack` makes the confirmation
  stable, and with `SendInv` each handler step one of `ApprovedDelivery`.
* *RelayDevices.* `StepInv`: rows that calls hold are there and of their device;
  `OwnedInv`: no two polls hold one device and no two calls one credential, and
  what was delivered nobody holds; `ClaimInv`: a code no catch block gave back
  is won by one poll, which answers once.
* *BridgeIdentity.* `HandInv` (what a renewal has in hand goes only with its
  device), `BridgeInv` (the bridge holds what it was answered with) and `LifeInv`
  (the credential it holds authenticates or has a cause not to). Two hypotheses:
  *one loop*, because a repair beside a heartbeat may renew what the other still
  holds, and *no expiry*, because a credential that lapses unrenewed is rejected
  with no revocation. Without either TLC shows the property false.
* *ManagedTunnels.* `TunnelInv`: an unfinished set-up holds a tunnel no row and
  no other call knows; a release only what no active row has; the ledger lists
  only unwanted tunnels, and has a released one deleted.
* *Registration.* `StepInv` ties the two records of a slot and each statement to
  the claim, user and secret it stands on; `HeldInv` that a claim is of a user
  there is or of a registration on its way; `AloneInv` that, without overlap,
  what was read is still so, including that another owner was seen.
* *AccessTokens.* `SpentInv`: past the compare-and-set a grant has one spender,
  and it has not been honoured; `AloneInv`: without overlap the era read is the
  present one, a removal under way has yet to delete exactly what is left, and a
  visit's redirect is in its client's list or about to be.
* *MailAccounts.* `MailInv`: an address has one account, a connection its owner's
  credentials, an account that is off no connection; `CountInv` compares the
  plan's count, a cardinality, with nothing in between; `UseInv` says how far the
  account a call is at work on has come, and that all others are complete.
* *RelayHost.* `HostInv` has the port the gateway's only while the core has its
  handle, and every accepted signature in the cache for twice the window or out
  of it; `AloneInv` that the child is the one process, and the file as it was
  when it was read to be written.
* *Triage.* `EventInv`, that what is named is there. `MergeInv`: without
  overlapping merges, events are merged one level deep. `FreshInv`: an event
  whose judgment is behind its messages is owed a flag by a call in flight.
  `FactsInv`, `StoredInv`, `OrderInv`: facts are what was once read out of the
  message, and in order an event's state is its newest message's or about to be.
* *Mailbox.* `BoxInv` (each message a sync was shown is left, stored, or at hand)
  and, without overlap, `LoneInv` (what was read is still so), `CountsInv` and
  `MarksInv` (counts and marks but for what the one call has yet to write).
* *MailPolicies.* `PolicyInv`: a row that is the user's is no preset's, which is
  all a wipe deletes. That the most specific rule wins is a fact about
  `evaluatePolicies` alone (`MatchedIsSpecific`): the loops go down the documented
  precedence (`LaterIsLess`), the first that finds a rule exists by induction on
  its number, and within a loop the service's own priorities order the two scopes
  (`FirstOfAStep`).

Alone means `raced = 0` (or the kind not in `mixed`), as in the runs: the
theorems are of all behaviours, and say nothing of those once calls have
overlapped.

### Assumptions of the proofs

The named `ASSUME`s of each module, which TLC evaluates in its run:

* *An absent row is no row*: `NoRowAssumption`, `RowAssumption`, `NoIdAssumption`
  and their like. SQL's NULL is no value of a column.
* *Bounds are numbers*: `TimeAssumption`, `MailboxAssumption`, `HostBounds` and
  their like; lifetimes, windows and seats positive where the code's constants
  are.
* *Inputs are what the routes' schemas admit*: `OffersAssumption` (no one is
  invited as owner), `InputsAssumption` and `LevelsAssumption` (a rule has a
  scope there is and a priority that is no negative number; 0 stands for one not
  given, so that a given 0 is not told from it), `TriageAssumption` (judgments
  are of the agent's schema, no two messages are received at one instant).
* *Ids are unique*: `TablesAssumption`, `AddressAssumption`, `ClientAssumption`.
* *What a host observes is an observation*: `EnvironmentsObserved`.

Cloud and bridge read one clock: a skew between them is not modelled.

### What stays with TLC

* Liveness: `EverySendEnds`, `PendingIsReleased` and `RevokedIsForgotten`, which
  rest on fairness.
* `UsedApprovalStaysShut`, `SaidWhenAlone`, `SeatsWhenAlone` and `TeamsWhenAlone`,
  which no run lists.

### What the proofs found

* The lanes of `BridgeHealth`, the prompts of `MailPolicies` and the bands of
  `TriagePriority` are chains of `if`s whose conditions overlap. As `CASE`s they
  could not be reasoned about (TLC takes the first arm, the logic any), and are
  now nested `IF`s, the code's own order.
* An earlier form of `OffStaysOff`, which compared the accounts with the syncs
  already fetching from them, held of two overlapping calls and not of three. The
  call now remembers whether the account was off when its credentials were opened
  (`late`).
* `FreshBetweenCalls` did not except overlapping merges. Two that make a chain
  (A into B while B goes into C) flag only the events they name.
* `RelayHost.WriteFile` kept the replay cache's history across a new gateway
  secret, under which no earlier signature verifies.

## Where the code and its documents part

Each of the following is a definition that states what a document, comment or
test says, and that TLC finds violated when it is put in the `.cfg` of the
component's run. They are not runs of the project, whose runs all pass.

| definition | says | what happens |
|---|---|---|
| `SendGuard.OneMailPerApproval` | `sending.ts:290`: an approval is single-use | `usedAt` is read before the dispatch and written after it, unconditionally: two keys both pass |
| `SendGuard.OneMailPerKey`, with the fault `poll` | `docs/MAILWARDEN_SPEC.md:65`: "Retries return the existing send result and never send duplicate emails." | after twenty polls the loser dispatches too |
| `SendGuard.MailedAsReviewed` | `README.md:66`: "Sending requires human review of the exact hashed payload" | the review page renders the draft of the moment and compares nothing |
| `RelayDevices.WithinPlan` | the plan's device limit | it is compared when a code is authorized, the device is counted from its poll on |
| `RelayDevices.OneCredentialPerCode` | `docs/parallel-development/handoffs/CLAUDE_BRIDGE.md:105`: "`deviceCode` is opaque, single-use, short-lived" | the catch block of `pollProvisioning` clears `consumedAt` whoever set it |
| `BridgeIdentity.ErasedOnlyOnRevocation` | `docs/operations/RELAY_OPERATIONS.md:56`: "A transient Cloud failure never discards a still-valid credential." | after a lost renewal the bridge keeps a credential Cloud has revoked, and the next heartbeat erases its identity; so does the repair beside a heartbeat (`bridge.ts:363`) |
| `ManagedTunnels.RevokedIsDark` | `packages/db/src/schema.ts:1282`: an orphaned tunnel "is recorded here and retried rather than leaked" | a fetch begun before the revocation writes its tunnel into the revoked row (`relay-devices.ts:348`) |
| `Membership.HasOwner`, with `change` in `Racing` | `tests/portal_and_organizations.test.ts:113`: "Invariant: Cannot remove sole owner" | two owners demote each other, each seeing the other |
| `Triage.JudgedOnAll` | `docs/architecture/INBOX_INTELLIGENCE.md:69`: relevant new messages mark a decision | a message that joins while the agent judges is not known to what it saves |
| `Triage.SettledStaysSettled` | a judgment nothing has changed is not asked for again | stored facts are never refreshed: a deadline once crossed flags the event at every read |
| `MailPolicies.OnlyEnabledActs` | a disabled rule does nothing | with no rule enabled the preset is applied and all rows are used, disabled ones too (`policy.ts:550`) |
| `MailPolicies.ToldIsApplied` | the preset shown is the one in force | see the list below |
| `Mailbox.NothingPassedOver` | `docs/architecture/MAIL_PROVIDERS.md:41,78`: incremental fetch | a backlog longer than the window is cut off, and the cursor moves past it |
| `RelayHost.ErasedIsDark` | `docs/operations/RELAY_OPERATIONS.md:53`: an erased bridge stops serving | a rejected renewal erases the identity and throws past the lines that stop gateway and tunnel |

Also seen while modelling:

* Send guard. `setDraftSignature` and an edit in flight rewrite the status of a
  draft that is already sent.
* Devices. Two overlapping issues can leave a device with no live credential; an
  admin's rotation ends the bridge, because no heartbeat carries the new
  credential.
* Organizations. Seats, and the organizations a plan allows, are counted before
  the insert: overlapping calls pass both limits. An acceptance that decided to
  raise a role writes it after a later promotion and can demote its owner. A
  removed member rejoins with the invitation it once accepted. A lost worker
  leaves a founded organization without owner.
* Registration. A code is validated and consumed by separate statements, the
  second unconditional and its failure swallowed: overlapping registrations
  share it. A failed registration leaves the claimed invitation spent; a lost
  one leaves an address that can never register. A provisioning that fails
  before its secret is not undone (a rotation mends it).
* OAuth. Overlapping first arrivals overwrite each other's client; two additions
  to a client's redirects lose one. A reuse is caught before the client is
  checked: presented under another client's id it revokes that client's family
  and not its own. `GET /oauth/authorize` already registers unknown compatible
  clients. A refresh whose insert is under way when a reuse is caught survives.
* Triage. The version of the user's context includes `messagesSeen`, so every
  ingested message outdates every judgment (`triage.ts:60-95`). "Tomorrow" counts
  from the extraction, so a replay moves the deadline. `prepareDecision` clamps
  by unrefreshed facts; `getBriefingCandidates` shows decisions of merged events
  and ignores staleness. Two merges at once make a chain whose end hides
  messages; two messages with the same keys recorded at once make two events. An
  ingestion that dies before its record leaves a message only
  `scripts/replay.ts` brings back. IMAP delivers newest first, and the event's
  observed state is that of the message ingested last.
* Policies. A custom priority beats the documented precedence
  (`policy.ts:530`); the project scope is never evaluated; "never archive
  newsletters" makes a rule that archives (`policy.ts:818`); two first messages
  insert two presets, and a failure leaves half of one. `completeOnboarding`
  writes back the settings it read and tells the preset before applying it;
  `POST /api/preferences` tells one without applying it; the automatic preset
  ignores what was told. `resetOnboarding` has no caller and nothing creates a
  suggestion.
* Accounts. `POST /api/connect/proton` on an existing account leaves status and
  provider as they were; a sync's last statement sets "connected" on an account
  disconnected meanwhile (`sync.ts:56`); one in "error" is never picked by the
  cron (`sync.ts:123`).
* Mailbox. A sender's `messagesSeen` is one too high; flags, the thread's count
  and a relationship's projects are read, changed and written back, so that
  overlapping calls lose updates.
* Host. Overlapping tunnel repairs, a stop during a start, or the CLI's own
  repair after five seconds (`cli.ts:207-221`) leave a `cloudflared` nobody stops
  (`tunnel.ts:139-173`). `FileSecretStore` reads, changes and writes the whole
  file, so an erased identity can come back (`secrets.ts:107-111`). The replay
  cache dies with the gateway, though `gateway-auth.ts:64` says "accepted at most
  once inside its window", and the signature has no nonce. A renewal changes the
  gateway secret before the bridge stores it. `secrets.permissions` can never be
  reported. A setup during a daemon does not restart what was stopped. Two
  `POST /setup` before the prompt start two provisionings.

## Assumptions about the outside

All that wait for one server to stop go on together (Bun); deleting a tunnel
that is already deleted succeeds at Cloudflare; a mail server numbers its
messages in the order they come; a user acts elsewhere only once the
registration is over.

## Not modelled, and why

* Rendering and texts (`src/ui`, `packages/ui`, the desktop application,
  `localization.ts`): no state.
* The MCP server and its tools, and the parts of the HTTP routes that parse and
  answer: they check their input and call one service.
* The protocols of IMAP, SMTP, Gmail and Outlook, MIME, and the providers'
  searches beyond which messages they return; `markRead`, `archive` and
  `getMessage` of the providers have no caller.
* `provider-discovery.ts` (DNS and probes, read only), `proton-connector.ts`'s
  registry, `DevCloudClient` (a stand-in for development), configuration,
  logging, the cipher, the append-only audit log.
* Reads: lists, exports, searches, explanations, metrics and briefings.
* In the modules: scopes and the claims of signed tokens, PKCE, rate limits, the
  first user of a deployment, a beta code reserved for an address, slugs, and
  text.

## Plan

1. **Done**: all modules above and their runs; the theorems of every safety
   property, action property and refinement the runs check.
2. **Left**: the pure lemmas of `TriagePriority` (the clamps bound the band);
   `SeatsWhenAlone` and `TeamsWhenAlone`, which count rows and open invitations;
   `UsedApprovalStaysShut` and `SaidWhenAlone`; a race of three calls in the runs.
   Liveness stays with TLC.
