# A TLA+ model of CampusCart

CampusCart lets hostel students pool small grocery orders until they reach a
store's minimum. This directory holds TLA+ modules that model its core, TLC
configurations that check them on small instances, and theorems about them
that the TLA+ proof system checks for every instance. Paths below are relative
to the repository root, which the modules and `PROJECT.json` call `src/`.

    tlc -config ordering.cfg MCNotices.tla         # one run (PROJECT.json lists them)
    tlapm GroupOrderProofs.tla                     # all proofs of a module

## 1. Inventory

The backend is a Fastify server over PostgreSQL (Prisma), Redis, BullMQ and
Socket.io; the app is React Native with React Query. Any number of server
processes run the same handlers. A handler is a sequence of awaited database
statements: *anything else may run between two of them*, and almost none of
them share a transaction. That is where nearly all of the hard behaviour is.

| Component | State | Operations | What makes it correct |
|---|---|---|---|
| **Group orders** `backend/src/routes/groups.ts`, `lib/groupStatus.ts` | `GroupOrder` (status, coordinator, fee), `GroupItem`, `Contribution`, `ReliabilityEvent` | create, join, recompute, claim-coordinator, pay, confirm, complete, dispute | the order goes ahead only above the minimum; one coordinator, one bill; the bill stays within the cart; all payers are judged by one look; a crossed threshold is noticed; credit only for confirmed payments |
| **Cost splitting** `lib/splitting.ts` | none | `splitCost`, `groupTotalPaise` | adds up to the paisa, every buyer once, nobody overpays but the largest buyer |
| **Payment webhook** `routes/webhooks.ts` | `Contribution.verifiedByWebhook` | `POST /webhooks/payment`, repeated at the gateway's will | a verified payment is final; nothing else marks PAID |
| **Disputes** `routes/groups.ts`, `routes/admin.ts` | `Dispute` rows | raise, resolve | a disputed group has a row an admin can find |
| **Expiry sweep** `jobs/workers.ts`, `jobs/queue.ts` | the sweep's `findMany` result | repeated every 15 s by BullMQ | a group past its deadline closes for good; nothing else is expired |
| **Audit log** `lib/audit.ts` | `AuditLog` rows | insert | every privileged change has its row |
| **Sessions** `routes/auth.ts`, `lib/jwt.ts`, `plugins/auth.ts`, the app's `api/client.ts`, `api/tokenStore.ts`, `store/authStore.ts` | `RefreshToken` rows; the device's two stored tokens; the auth store | sign-up, login, refresh with rotation and reuse detection, logout, logout-everywhere; the app's request / refresh / retry, start-up | a device keeps a usable token; reuse means theft; the app always leaves its loading screen |
| **Sign-up and login lockout** `routes/auth.ts` | `User` rows, a Redis counter per address | sign-up; login with get, incr + expire, del | one account per address; parallel guesses exceed the limit only by those under way at once; a lock ends |
| **Reliability score** `lib/reliability.ts`, `groups.ts:276-282` | `ReliabilityEvent` rows, `User.reliabilityScore` | confirm, complete, recalculate | the clamped sum of the events up to the last completion; an order counted once |
| **Matching, heatmap** `lib/matching.ts`, `groups.ts:85-124` | none | rank the groups of a hostel and store; total them by hostel | a better group stands first; terms on one scale; the map shows what the list shows, plus fees |
| **Realtime** `plugins/socket.ts`, the app's `api/realtime.ts`, `api/hooks.ts` | rooms, sockets, the query cache | subscribe, broadcast, invalidate, poll every 15 s | an open screen comes to show the current rows, whatever was missed |
| **Screens** the app's `GroupDetailScreen.tsx`, `HomeScreen.tsx` | which screen is open, a mutation under way | create, join, claim, pay (optimistic), confirm, complete, dispute | what it says of a payment is backed; who owes is offered to pay |
| **Push** `jobs/*`, `routes/push.ts` | jobs, phone tokens | `notify`, enqueue, deliver | delivery is best effort; who is told what is not: payers are asked, members hear of the threshold |
| UPI links, money, users, hostels, health, start-up, other screens | - | formatting, single statements, wiring, rendering | unit tests suffice |

How they meet: the routes, the webhook, the admin route and the sweep all write
the *same* `GroupOrder`/`Contribution` rows, which is why they are one module.
The routes call `splitCost` with items they read one statement earlier and write
audit rows one statement later. Sessions meets the rest only through
`authenticate`, which decides whether a handler runs at all.

The hard behaviours, each at its line, are the `hazards` of `PROJECT.json`.
The recurring ones:

- *check, then act in a later statement*: join checks the status and then
  inserts; recompute reads the row, then the items, then writes the status
  whatever it has become; the sweep finds, then updates by id; refresh finds a
  token, then rotates it by id;
- *repeated or late calls*: pay after confirm, webhooks, double completion;
- *half-done handlers*: a failure between two statements;
- *lost answers*: a rotation that committed and whose answer never arrived;
- *overlapping calls of one app*, each with its own refresh;
- *a cache that is written by answers, events, timers and optimism*, in any
  order.

## 2. Modules

| # | Module | State | Checked | Proved |
|---|---|---|---|---|
| 1 | `GroupOrder` | one group with everything that writes its rows | `ordering`, `settlement`, `failures` | all its safety properties |
| 2 | `GroupLedger` | abstract promise: one bill, shares that move only as it says, outcomes that are one look at all shares | `settlement` | that `GroupOrder` implements it |
| 3 | `GroupOrderProperties`, `GroupOrderProofs`, `SettlementProofs` | properties, inductive invariants, refinement | | |
| 4 | `Notices`, `NoticesProofs` | what joins and claims tell whom, over `GroupOrder` | `ordering` | both its properties, and that it implements `GroupOrder` |
| 5 | `Sessions`, `SessionsProofs` | token rotation and the app's token handling | `sessions` | its safety |
| 6 | `GroupScreen`, `GroupScreenProofs` | one device on one group: screen, caches, socket, routes | `screen` | its safety |
| 7 | `Reliability`, `ReliabilityProofs` | events and scores of members of several orders | `reliability` | all its properties |
| 8 | `Accounts`, `AccountsProofs` | sign-up, login and lockout of one address | `accounts` | its safety |
| 9 | `Lists`, `Splitting`, `Matching`, `AlgorithmsProofs` | the algorithms | `algorithms` | all their properties |

`Notices` composes with `GroupOrder`: every step of it is a step of
`GroupOrder` or leaves the group alone, so whatever is proved of `GroupOrder`
holds there too (`NoticesImplementOrder`).
`GroupScreen` takes the routes whole, one step each, because what interleaves inside a route is `GroupOrder`'s subject and what interleaves
between the routes, the caches and the socket is its own. `Reliability` starts
where `GroupOrder` ends, with orders awaiting payments, and adds what
`GroupOrder` does not need: several orders, and deltas that add up.
`MCAlgorithms` puts the two pure modules into one run.

## 3. GroupOrder

A request is a small state machine in a slot of `Reqs`. One awaited statement
is one atomic action; a Prisma `$transaction` is one action; a Prisma read with
an `include` is two SELECTs and so two actions. An early return leaves no
trace, so a request enters a slot only when its first read lets it go on; what
a handler keeps in local variables (caller, body, status read, totals read,
events to insert) is kept in the slot. Users are identities, money is a natural
number of paise, items of one request are their total.

| Code | Actions |
|---|---|
| `recomputeThresholdStatus` | `RecomputeReadRow`, `RecomputeReadItems`, `RecomputeWrite` |
| `POST /groups` | `CreateGroup` (one nested create, then the recompute's actions) |
| `POST /groups/:id/join` | `JoinRead`, `JoinInsert`, then the recompute |
| `POST .../claim-coordinator` | `ClaimRead`, `ClaimReadItems`, `ClaimCommit` or `ClaimRollback` (unique index on group and user), `ClaimAudit` |
| `POST .../pay` | `PayRead`, `PayWrite` |
| `POST .../confirm` | `ConfirmRead`, `ConfirmWrite`, `ConfirmEvent`, `ConfirmAudit` |
| `POST .../complete` | `CompleteRead`, `CompleteReadContributions`, `CompleteWrite`, `CompleteEvents`, `CompleteAudit` |
| `POST .../dispute` | `DisputeRead`, `DisputeCreate`, `DisputeStatus`, `DisputeAudit` |
| `PATCH /admin/disputes/:id` | `ResolveDispute`, `ResolveAudit` |
| `POST /webhooks/payment` | `PaymentWebhook`, at any time, any number of times |
| expiry worker | `Deadline` (time), `SweepRead`, `SweepWrite` |
| failures | `Crash` (a request), `SweepCrash` |

`SplitTotal` in `GroupOrder` uses only that the shares add up to items plus
fee. That is `SumsToTotal` of `Splitting`, where `splitCost` is modelled line by
line. There the floating-point division is a choice of outcomes: JavaScript's
`(subtotal / total) * fee` can come out just below a whole number, and
`Math.floor` then takes one paisa off; the module's comment says for which
amounts no other outcome is possible.

`GroupLedger` is what those who pay are promised: one
coordinator draws up one bill, and who is on it never changes (`DrawUp`); a share
stands at what was said of it last, by its owner (`Report`) or by the coordinator
or the gateway (`Settle`); the order is judged by one look at all shares at once
(`Judge`), whoever stood at PAID at that moment is credited, everybody else on
the bill has missed; and what is recorded (`Record`) is such a verdict, perhaps
out of date, perhaps lost to a failure (`Forget`), never a mixture of two looks or
a verdict about others. It does *not* promise that a settled share stays settled:
`Report` takes PAID back, as `POST .../pay` does, and only `Gateway` forbids it.
`GroupOrder` implements it with `bill <- Bill` (the coordinator and who has a
contribution), `shares <- contrib`, the statuses complete really judges by,
`verdicts <- Verdicts` (the events that completions under way keep in local
variables) and `outcomes <- Outcomes` (the rows of `ReliabilityEvent`, but for
those of confirmations).

## 4. Sessions

Token *n* is the *n*-th pair issued. A device stores an access and a refresh
token; its calls run in `Lanes`, one await at a time, and take their request
through the server. Whoever stops waiting leaves the server's half running
(`gone`): so a rotation may commit although its answer is lost. The app may be
killed at any await. Access and refresh tokens expire at any time, in this
order.

| Code | Actions |
|---|---|
| `authStore.init`, `login`, `signup`, `logout` | `StartApp`, `StartLogin`, `StartLogout`, `SaveAccess`, `SaveRefresh`, `ClearAccess`, `ClearRefresh` |
| `client.request` | `StartCall`, `Served`, `Unauthorized`, `Resend`, `Drop` |
| `client.tryRefresh` | `ReadRefreshToken`, then the server's part, then the saves |
| `POST /auth/refresh` | `FindToken`, then `Burn` and `Alarm`, or `RevokeLapsed`, or `Rotate` |
| `POST /auth/login` | `Login`, `RefuseLogin` (a 401, after which the app tries a refresh) |
| `POST /auth/logout`, `/logout-everywhere` | `Logout`, `LogoutEverywhere` |
| the operating system | `Kill` |

`cut` is a history variable: the devices that ever missed an answer.

## 5. Notices

`was` is the `wasActive` a join remembers in its handler (a create has none and
never announces). `SawCrossing` is the comparison after the recompute: it uses
the row the recompute *returned*, so a join whose recompute found the status
already written announces it too. `Announce` is `notifyGroupMembers` (a read of
the members, then a notice to each), `TellsPayers` the loop after a claim's
transaction. `called` records every call of `notify`; `jobs` is the queue, which
may lose a job at the enqueue (the handler does not wait), at the worker (one
attempt) or at a user without a phone. So no property speaks of delivery.

| Code | Actions |
|---|---|
| `addItemsAndRecompute` | `Remember`, `SawCrossing`, `Announce` |
| claim-coordinator | `TellsPayers`, `Notify` |
| `pushWorker` | `PushJob` |

## 6. GroupScreen

The routes as one step each, and around them the app: `group` and `share` are
React Query's entries `["group", id]` and `["contribution", id]` with their data
and a fetch that is sent, answered and received; `call` is the mutation under
way; `socket` and `room` are the one socket of `realtime.ts` and this screen's
subscription, which holds for one connection. Other students act as the same
app lets them.

| Code | Actions |
|---|---|
| `useGroup`, `useMyContribution` | `Poll`, `FetchShareOnceEnabled`, `ServeGroup`, `ReceiveGroup`, `LoseGroup`, and the same for the share |
| `useMarkPaid` and the other mutations | `Press`, `ServeCall`, `LoseCall`, `FailCall`, `OpenScreen`, `SettleGroup`, `SettlePay`, `SettleConfirm`, `SettleDispute` |
| `GroupDetailScreen`, `HomeScreen` | what is `Offered`, `LeaveScreen` |
| `useGroupRealtime`, `plugins/socket.ts` | `Subscribe`, `Connect`, `RefuseSocket`, `DropSocket`, `Broadcast` |
| everybody else | `OthersCall`, `SweepExpires` |

React Query's own rules (marked external in `PROJECT.json`) are taken from how
the hooks use it: a refetch joins a fetch under way, an invalidation of an
active query with data replaces it, `cancelQueries` drops it, and `setQueryData`
leaves it running, so an older answer may land on top of a newer one.

## 7. Reliability, Accounts, Matching

`Reliability`: a completion reads status and contributions, writes the status,
inserts the events, and then for one member after the other reads all events and
writes the score. `points[u]` is the sum of a user's events. The rest are history
variables: `unseen[u]` and `raced` say what no recalculation has read and whether
two recalculations overlapped; `counted[o]` how often an order was counted,
`late` which completions read their order's status after that, and `recounted`
which orders such a late completion counted again. `CountedOnlyTogether` says
that there are none, so whatever is counted twice is counted by completions that
had all begun before the first of them counted.

`Accounts`: a request is in a slot from the read that lets it go on to its last
write. `fails` and `expires` are the Redis key's value and time to live.
`LockHolds` gives the exact bound: the threshold and the concurrency, less one.

`Matching`: scores are fractions with one denominator, the constant `Scale`,
which the denominators of all terms must divide (`ScaleAssumption`; there is one
whenever the lists of scores have bounded length). A stable sort is modelled by
places: a row's place is one more than the number of candidates before it
(`Before`: the higher score, or the same and the earlier row). Candidates are the
positions of the rows a route selects. A row is the group as the database has it:
its status is what the last recompute wrote, so a full cart may still be OPEN, and
a group that was claimed and made active again by a late recompute
(`claimed_reopens`) carries a `fee`. The heatmap adds the fee to what is pending
and the match list does not; `MapMatchesList` says that this is their only
difference. `Better` is the reference that does not
mention weights: a group nowhere worse and somewhere better must stand first.

## 8. Runs

Passing runs. *Bounds* are named constants: `MaxPaise` (no create or join
starts above it, so the cart may pass it by one request), `MaxDisputes`,
`MaxTokens` (no call, login or kill starts at it), `MaxItems`, `MaxGroups`,
`MaxFaults`, `MaxConfirms`.

| Run | Instance | What it shows |
|---|---|---|
| `ordering` | 2 users, 2 concurrent requests, 2 amounts, threshold 3, notices, the sweep, fairness | `MinimumReached`, `SplitWithinCart`, `CrossingIsNoticed`, `ClaimIsFinal`, `NeverBackToOpen`; `CrossingIsAnnounced` and `PayersAreTold`; `DueGroupCloses`: once due, eventually inactive for good, though a stale recompute can write THRESHOLD_MET over EXPIRED |
| `settlement` | 2 users, 2 concurrent requests of all user routes | `HonestCompletion`, `AuditTrail`; `ImplementsLedger` as a refinement |
| `failures` | gateway on, crashes on, webhook, pay, disputes and decisions | `DisputeRowFirst`, `GatewayPaymentSticks` |
| `algorithms` | every cart of up to 3 lines of 3 students, 3 prices, 2 quantities, 4 fees, both outcomes of the division; every list of up to 2 groups, 2 hostels, 2 stores, 2 ages, 2 carts, with and without a fee, 3 lists of scores | `SumsToTotal`, `EveryBuyerOnce`, `OnlyLargestPaysMore`; `BetterStandsFirst`, `ScoresOnScale`, `MapMatchesList` |
| `sessions` | 1 device, 2 concurrent calls, 2 tokens, losses and kills, fairness | `KeptIsCurrent`, `AppSettles`, `SessionsTypeOK` |
| `screen` | 2 students, one of them on the device, 1 fault, fairness | `ViewCatchesUp`, `ShareIsOffered`, `OptimismIsBacked`, `ScreenTypeOK` |
| `reliability` | 2 users, 2 orders, 2 concurrent completions, 2 confirmations, a clean and a nearly spent record | `ScoreIsCurrent`, `CountedOnlyTogether`, `ReliabilityTypeOK` |
| `accounts` | 3 concurrent requests, the real threshold of 5, fairness | `OneAccountPerEmail`, `LockHolds`, `LockEnds`, `AccountsTypeOK` |

Why the bounds suffice. Every race found here is between two requests, or a
request and the sweep, on one row; a slot that has finished is used again, so
two are enough where three requests take part (`claimed_reopens`: one recompute
stays in its slot while another join and then a claim pass through the other).
Two amounts with a threshold between
them give carts below, at and above the minimum. Two users give a coordinator
and another member. Two pairs of tokens and two lanes give concurrent refreshes
of one token, a refresh against a logout, and a burn that hits a token just
issued. One fault on the screen is enough to lose any single thing at any
moment, and the properties of that run are about what one loss may cost; two
completions of two orders give both the double count and the older score on top
of the newer one. Every safety property of the passing runs is also proved
without bounds (`AuditTrail` and `CrossingIsNoticed` for requests that do not
die, which is also how their runs check them).
Users and slots are interchangeable, so runs without liveness use symmetry.

Fairness. `GroupOrder!Fairness`: Node's event loop serves a request once
accepted (`WF` of each slot's next statement), deadlines pass, and BullMQ
repeats the sweep every 15 s; nobody is assumed ever to send a request.
`Sessions!Fairness`: a call under way goes on and a started app runs `init`;
nobody taps anything, the network owes nothing beyond an answer or an error.
`AppSettles` exempts a device that is killed over and over.
`Notices!NoticesFairness` is that of `GroupOrder` with the push worker added;
`Accounts!FairSpec` says that requests under way are served and that time
passes. `GroupScreen!Fairness`: requests are answered, timers fire, connections
come about; nobody is obliged to press anything, and the faults are bounded.
`ShareIsOffered` excepts only a contribution query that is in its error state
with nothing to show: its one fetch failed, and while the screen is open nothing
repeats it (`retry: false`, no interval).
`ReceiveGroup` has strong fairness because an invalidation drops the answer under
way: weak fairness would let a student who presses for ever be quicker than the
network every single time. The runs say
`CHECK_DEADLOCK FALSE` because the system may really stop: users may do
nothing more, and at a bound nothing more may start.

Each property is paired in `PROJECT.json` with a faulty variant of one mapped
definition (a dropped guard, a forgotten write, a wrong order; marked "Faulty"
in the modules and used by nothing) that violates it.

## 9. Findings

Four runs check one sentence that the repository says of itself, and TLC refutes
it with a short trace.

| Run | The repository says | What happens |
|---|---|---|
| `claimed_reopens` | `groupStatus.ts:7-9`: once claimed, totals no longer drive status | a join's recompute read OPEN, another join met the threshold, a claim committed; the first recompute writes THRESHOLD_MET over AWAITING_PAYMENTS. The claimed group accepts joins again and cannot be completed |
| `late_items` | `schema.prisma:90`: "split is locked" | a join that passed its check before the claim inserts after it: ordered, billed to nobody |
| `false_alarm` | `auth.ts:89-90`: reuse means the token was stolen | two calls that get 401 together refresh with the same token; the second burns every session of the user |
| `stale_card` | `realtime.ts:17-20`: the cache is invalidated the instant a change is broadcast | all three events invalidate the group's query only; the payer's own contribution has no interval either, so the card waits for a confirmation that was made, or offers a payment that was settled |

Met while modelling, and not given a run of their own: the sweep updates by id
alone, so a group claimed after its `findMany` expires with contributions owed,
against `GroupDetailScreen.tsx:179` ("expired before reaching the threshold");
with Option B the confirm route still marks contributions PAID, against
`webhooks.ts:30-31`; a second pay takes PAID back to CLAIMED_PAID, against
`schema.prisma:131`, and complete then records PAYMENT_MISSED (`stale_card`
shows how the app comes to offer that second pay); a dispute raised while joins
have still to recompute makes them return early, and nobody announces the
threshold; two completions of an order that overlap count it twice, and
recalculations that overlap can leave the older score; a member who leaves a
group's screen finds no way back but another order, and none after the claim;
`GET /groups/matches` returns groups without the `totalPaise` that `MatchCard`
shows; a phone keeps the notices of a user who logged out; the sweep also expires
THRESHOLD_MET groups, against `schema.prisma:92` ("never crossed threshold in
time"); a failure between join's insert and its recompute leaves a full cart
OPEN, against `schema.prisma:88`, which is why `CrossingIsNoticed` is stated
without crashes; the webhook and a lost audit insert leave a payment without
its audit row, against `audit.ts:3`; nothing leads out of DISPUTED once a
dispute is decided, against what `GroupDetailScreen.tsx:184` tells members; a
rotation under way survives a burn or logout-everywhere; the heatmap counts the
fee of a claimed group that became active again as pending (`groups.ts:120`), the
match list totals the same group without it (`groups.ts:101`); a refresh under way
can save its tokens after a logout cleared them; starting the app offline logs
the user out.

## 10. Proofs

`GroupOrderProofs` holds for any users, any number of requests, any amounts,
fees, threshold and bounds, crashes on or off, gateway on or off. Assumed, as
named `ASSUME`s that TLC evaluates in the runs: `NoUser` is no user; amounts
are positive, fees natural, the threshold positive; the switches are Booleans.

- `Invariance`: `Spec => []IInv`. `MinimumReached` and `SplitWithinCart` are
  not inductive on their own, because what a request writes was decided by an
  earlier read. `IInv` says what every pending write is worth:
  `RecomputeGrounded` (a recompute about to write writes THRESHOLD_MET, and
  the total it saw can only have grown), `ClaimGrounded` (the items a claim
  read are still there), `ClaimsOverlap` (any two claims bill a common member,
  namely the creator, so the unique index on contributions serialises claims:
  the real reason why two racing claims cannot both commit), `SharesGrounded`,
  `OpenIsFresh`, `RowExists`, `CallersKnown`, `BodiesValid`.
  Frame lemmas say which actions write what; each part of `IInv` is argued only
  for the actions that touch it.
- `TypeCorrect`, `MinimumHolds`, `SplitHolds`: conjuncts of `IInv`.
- `ClaimHolds` (`ClaimIsFinal`) and `OpenOnce` (`NeverBackToOpen`): action
  properties, from `ClaimsOverlap` and `RecomputeGrounded`.
- `CrossingNoticed`: without crashes, with `OpenIsFresh`.

`SessionsProofs` holds for any number of devices, lanes and tokens, with losses
and kills. `SessionsTyped` and `KeptCurrent` rest on `SInv`: no token is in the
hands of two devices (`TokensArePrivate`), a token about to be saved is known to
no other call and was never presented (`SavedIsFresh`), whoever stopped waiting
belongs to a device in `cut` (`GoneIsCut`). All but four kinds of steps are
`Quiet` (nobody gets a token); the four that move one each have a lemma:
`TakeToken` (a logout and a refresh, which read the store alike), `IssueToken`
(rotation and login), `StoreToken`.

`SettlementProofs` extends `GroupOrderProofs` by `SettlementInv`, what the
pending steps of confirm, complete and dispute have established: an event about
to be inserted is one whose payment is dated (`CreditsGrounded`, `PaidIsDated`),
a pending status of a dispute has its row (`DisputesGrounded`), with the gateway
nobody is between the read and the write of pay (`NoSelfReports`), and whoever
completes was the coordinator (`CompletersKnown`), and the events a completion
keeps are a verdict about everybody on the bill (`BatchesJudge`). From it:
`CreditsAreEarned`, `DisputesAreFound`, `VerifiedIsFinal`. `AuditIsComplete` assumes that requests do
not die and that there is no gateway: a request that dies between a change and
its row loses the row, and the webhook writes none. `Implementation` is
`Spec => ImplementsLedger`, step by step: `ClaimCommit` is `DrawUp`, `PayWrite` is
`Report`, the writes of confirm and webhook are `Settle`,
`CompleteReadContributions` is `Judge`, `CompleteEvents` is `Record`, a crashed
completion is `Forget`, everything else stutters. It rests on all three:
`NoSelfReports` for the gateway, `CompletersKnown` because a verdict names the
bill's coordinator, `BatchesJudge` because it must name every payer.

`NoticesProofs`: `NoticesImplementOrder` shows step by step that the module
implements `GroupOrder`, and with `Implementation` the ledger
(`NoticesKeepLedger`); `NoticesInvariance` carries the invariant over.
`PayersTold` needs that a claim's split is what its transaction wrote.
`CrossingTold` is the deepest argument here, because the request that writes the
new status and the one that announces it may be different: `MemoryFits` (what a
join remembers is a status the group had, and when that was THRESHOLD_MET the
cart is full already; a create that has not finished recomputing is the only one
there is), `LateSteps` (who is past the claim's read works on a group that has
left OPEN) and `CrossingKnown` (once the cart is full, somebody has announced it,
or a join that remembers OPEN is still to recompute, or the order is over).
Assumed in the property: no single order reaches the minimum alone, the order is
not overdue and not disputed.

`GroupScreenProofs`: `ScreenInv` says what is worth an answer of the contribution
that is under way (`AnswerIsBacked`), what a pay falls back to and what its
answer means (`PayUnderWay`), and that shares are drawn up once
(`NothingOwedYet`): without it a second claim would take a reported payment
back. Assumed: `NoCall` is no call and `NoData` no status.

`ReliabilityProofs`: `CountedTogether` rests on an order that was counted being
done, since a completion writes the status before it inserts: so none that
begins later passes the status check (`NobodyLate`), and those that passed it
before are at most the slots; `ScoresCurrent`
follows from what a recalculation has read and who is still to be recalculated.
`AccountsProofs`: `LockBounds` counts guesses under way and failures together;
finishing one guess moves it from one to the other.

`AlgorithmsProofs` is about carts and lists of groups of any length. Assumed:
prices and quantities are positive, fees natural (`SplitAssumption`); ages, carts
and fees natural, scores between 0 and 100, the threshold positive
(`MatchingAssumption`); `ScaleAssumption`. The invariants themselves are simple
(`SplitInv`, `MatchInv`: what is returned was computed from what is there); the
work is in what the functions compute.

- *Induction.* The library's induction theorems take the induction hypothesis as
  an operator, which the provers cannot instantiate. `SetInduction` takes a set
  of numbers instead; it follows from the well-foundedness of `<`, which gives
  every set of naturals a least member (`LeastNatural`).
- *Folds.* `FoldLeft` is, by definition, a value of a recursive function that
  `CHOOSE` picks. `SumExists` and `EntriesExist` prove by induction over the
  list's length that there is one; then it obeys its equation. `HasRunningSums`
  turns a sum into the sums of its prefixes, from which the lemmas about sums
  follow; `SumSwap` exchanges the order of a double sum.
- *Splitting.* `EntriesAreBuyers`: one entry per buyer. `SubtotalsAddUp`: the
  subtotals come to the cart, by summing a table of lines and buyers both ways.
  `RoundingLosesAPaisa`: a share is the exact one or less by at most a paisa,
  for either outcome of the floating-point division. `RestIsWhatIsLost`: the
  remainder is the sum of these losses, hence not negative; and as the one who
  gets it (`RemainderToLargest`) also lost something, the excess is at most the
  losses of the others. `EveryCartSplits` shows that the theorems are not empty:
  every cart with items in it has a split.
- *Matching.* Each term is on the scale and monotone (`ScoreOnScale`,
  `BetterScoresHigher`). `Before` is a strict total order, so places are a
  bijection between candidates and ranks (`PlacesAreTakenOnce`); from it follow
  that no candidate is lost or shown twice and that list and map total the same
  groups (`RankingKeepsSum`, by `SumSwap` again; `SumPlus` then tells carts from
  fees).

What remains out of reach there: that the floating-point division has no other
outcomes than the two modelled, which `Splitting`'s comment argues.

Only model-checked: the five liveness properties (`DueGroupCloses`,
`AppSettles`, `ViewCatchesUp`, `ShareIsOffered`, `LockEnds`), because fairness
and `ENABLED` are beyond the prover, and the four refutations of section 9.

## 11. Not modelled

Response bodies, schemas, formatting, rate limits and `ip`/`metadata` of audit
rows, and the audit rows of sign-up and login: no state depends on them. The
width of `Contribution.amountPaise` (32 bits, and `schemas/groups.ts` puts no
limit on prices): a claim that fails on it leaves no trace. `GroupOrder` leaves
out the UPI address a claim requires, which a user sets once. `GroupScreen`
leaves out a second user of the same phone, React Query's garbage collection, the
operating system killing the app, and disputes by others; its routes are
atomic, so it does not show what `serializeGroup`'s separate reads can mix.
In `Matching` ages are naturals: a `createdAt` ahead of the server's clock, for
which `matching.ts:45` has no upper limit, is left out. `Sessions` takes the
device's secure store as one that answers: calls to it that fail themselves
(`authStore.ts:21,26`) are left out.
`Notices` leaves out the notices of confirm and complete, to which no decision
leads, and the registration of phones, one upsert.
UPI strings, user and hostel routes, health, start-up wiring and rendering are
single statements or pure formatting that unit tests reach.
Several groups are not modelled together, except in `Reliability`, where they
share members: no statement of the other modelled code writes rows of two
groups, but for the sweep's loop, whose iterations are independent.
