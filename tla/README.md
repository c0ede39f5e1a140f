# Verification of the voting backend

TLA+ models, TLC runs and machine-checked proofs for the NestJS backend in
`src/`: a multi-tenant voting service. Tenants subscribe through Stripe, upload a
padrón (the list of enrolled voters), set up candidates and run an election on a
zkSync contract. Paths below are relative to the repository's own `src/` directory.

## 1. The system

| Component | State | Operations that change it |
|---|---|---|
| Election contract (`blockchain/abis/contracts/Election.json`) | candidates with counter and active flag, checkpoints, audit trails, `hasVoted`, `totalVotes`, `electionEnded` | `vote`, `addCandidate`, `updateCandidate`, `deleteCandidate`, `endElection`, `setElectionDetails` |
| Election service and controller (`blockchain/services/election-contract`, `blockchain/controllers`) | the server's wallet (its nonce), the requests in flight | `POST vote`, `POST end`, deployment and details |
| Candidate service (`candidate`), Pinata (`pinata`) | pinned photos | `POST create`, `PATCH patch/:id`, `DELETE delete/:id`, upload |
| Subscription and webhook (`tenant/services/suscription.service.ts`) | checkouts at Stripe | `POST create`, `POST webhook` |
| Tenant service, tenant contract service | `Tenant`, `Configuration`, `MemberTenant` documents (with both contract addresses), the Tenant contract's registry | `createTenant`, `createMemberTenant`, `deployTenantContract`, `createElection` |
| Enrollment upload (`enrollment/services`, `enrollment/workers`) | `Enrollment` documents, temporary files, worker threads | `POST upload/csv`, `POST upload/excel` |
| Enrollment configuration | one document per tenant and user | create, start |
| Identity verification (`aws`, `cohere`) | none of its own; issues enrollment tokens | process document, compare faces |
| Party (`party`), Cloudinary | `Party` documents, logos | create, patch, remove |
| Users and authentication (`user`, `auth`) | `User` documents, auth tokens | register, sign in |
| Tenant guards (`auth/guard`, `tenant/guard`, `enrollment/guards`) | none; read the tokens | every request passes one to three of them |
| Ballot, Statistics | none | reads of several awaited calls |
| Backup, logs, configuration | none the system reads | scheduled dump |

How they interact. The webhook calls the tenant, election and tenant contract
services, which write MongoDB, call a Hardhat microservice that deploys, and send
transactions. Election and candidate endpoints look up the owner's `MemberTenant`
for the contract's address and send transactions from the **one wallet** the server
has. The upload hands rows to worker threads with connections of their own. Identity
verification turns a document into an enrollment id; the hash of that id is the
voter on the chain. Ballot and statistics read candidates and counters from the contract, and
the ballot joins them with the parties in MongoDB.

What makes it hard:

- *Interleaving.* Node runs a handler without interruption only between two awaits.
  Every check that is separated from its write by an await (nonce and broadcast,
  existence check and `create`, file name and file) can be overtaken, and an answer put
  together from several reads may show a state there never was.
- *Lost and repeated calls.* Voters retry, Stripe redelivers, the answer to an
  accepted transaction may be lost.
- *Restarts.* A handler vanishes; its documents, pins and transactions remain.
- *Partial failure.* The webhook is a chain of twelve awaited calls over three
  systems. The Mongo session it opens is passed to no operation.
- *Approximate matching.* A document is matched with the register by a language model, regular
  expressions and a comparison of one value, which need not speak of the same column.
- *Unchecked input.* A vote's token is decoded, its signature not verified and its enrollment not looked up; the
  webhook takes any POST; the language model's reply is any JSON. The models take all of these as they come.
- *Limits.* The contract counts a candidate's votes in a `uint8`; batches have 1000
  rows.

What makes each component correct: the contract's counters agree with its audit
trail and no hash votes twice; an answer of the service says what the chain holds;
a confirmed end is final; a confirmed subscription is complete and is never replaced;
a confirmed upload has saved each row once; party names are unique, and parties are
changed by their own tenant; a token is signed for the own register, and for the person on the document where
one compared value can tell; the number of votes a reader was told is never taken back.

## 2. Modules

| Module | Models |
|---|---|
| `BallotBox` | the promise of an election: at most one ballot of each voter, none after closing, none lost |
| `ElectionContract` | the contract: its storage, one action per method |
| `ElectionReads` | EXTENDS `ElectionContract`: statistics, total, audit, has-voted and ballot call by call, with parties coming and going |
| `ElectionService` | EXTENDS `ElectionContract`: the five endpoints await by await, the wallet's nonce, the chain's queue, failures and restarts |
| `Subscription` | checkout, webhook, documents and contracts of the tenants |
| `EnrollmentUpload` | both readers, batches, worker threads, temporary files, the end of the process |
| `Records` | users and sign-in, parties, enrollment configurations: handlers that find first and write later |
| `Identity` | from a photographed document to an enrollment token and a ballot |
| `TenantGuards` | auth and tenant tokens, from sign-in to the two guards that read them |
| `MCElectionReads`, `MCElectionService`, `MCRecords`, `MCIdentity`, `MCTenantGuards` | constants and symmetry for TLC |
| `ElectionContractProofs`, `ElectionServiceProofs`, `ElectionReadsProofs`, `SubscriptionProofs`, `EnrollmentUploadProofs`, `RecordsProofs`, `IdentityProofs` | the inductive invariants and the theorems, one module for each model (`ElectionReadsProofs` EXTENDS `ElectionContractProofs`) |

Definitions are named after the code's functions where one action is one function
(`vote`, `deleteCandidate`), and after what an await does where a function is cut
into several (`GetNonce`, `EstimateGas`, `Broadcast`, `Confirm` are the awaits inside
`electionContract.vote(...)` and `tx.wait()`). `PROJECT.json` maps every one of them
to its lines. A definition called a *mutant* in its comment is a plausible bug of the
definition below it; it is used by no specification, only to see that a property notices.

**ElectionContract.** The repository has no Solidity source. Storage layout, guards
and revert strings were read off the compiled bytecode in `Election.json`, types off
its ABI. Points that matter and are easy to get wrong: ids count from 0; `vote` checks the end,
the id and `hasVoted`, but not `isActive`; `deleteCandidate` only clears `isActive`;
`endElection` can be called again; the `uint8` counter is checked, so a vote at the
limit reverts. All transactions come from the admin's wallet, so `onlyAdmin` always passes.

**ElectionService.** A request is an element of `Requests` with an `args` record; a
retry is another element with the same record. `step` is the await its handler is at.
`txs` is the wallet's accepted transactions by nonce, `mined` how many are executed,
`receipt` their outcome. ethers reads the pending nonce, estimates gas (which executes the call on the
node and throws if it reverts), signs and broadcasts; the node takes the transaction only if
the nonce is still free. `CallFails` lets any awaited call throw, `BroadcastUnanswered`
loses the answer of an accepted transaction, `Restart` drops all handlers. `result`
separates the error answers by their cause, which the error message carries.

**Subscription.** A delivery is an element of `Deliveries`; documents and
contracts are known by the delivery that made them, which is enough to tell whether
two of them belong together. Every write may take effect and still fail the handler
(`Proceed`), every call may fail before it (`Fail`). The endpoint verifies no signature of Stripe's: besides the event of a
paid checkout (`DeliverPaid`) a delivery may bring any `Metadata` (`Deliver`), an id among them that no user has
(`RefuseStranger`), or be an event of another type or without metadata (`DeliverOther`). A missing name or domain counts
as one more value: the model then lets a delivery go further than ethers does, which refuses it as details.

**EnrollmentUpload.** A file is its kind, its number of rows and whether the expected
columns are there. `read` and `sent` count rows; `workers` holds the threads with their range of
rows; `stored` the saved rows, with the upload they were saved for and the upload whose
file they came from. The two differ when temporary files collide: files are named after the clock
(`enrollment/services/enrollment.service.ts:130`), so two Excel uploads in one millisecond
share one, and rows of one tenant's file may be saved for the other. Under Node 22 (the
version of the Dockerfile) a rejection without a handler ends the process; `main.ts` installs
no handler. `SaveFails` is a `writeFile` that fails outside the `try` and leaves no file, an old one or its own; of a file
that was written in part the model assumes that it opens as a whole one or not at all.

A worker thread of the upload or of the verification that ends with code 0 and without a message would leave its request
unanswered, since `exit` rejects for other codes only (`enrollment/services/enrollment.service.ts:228-231`,
`aws/services/aws.service.ts:291-295`). No execution of the workers does this: both `main` functions post a message on every
path of their `try` and `catch`, both keep a MongoDB connection open, and a failure outside the `try` is an uncaught
one, which Node reports as `error` and exit code 1. The models therefore let a worker end with a failure only.

**ElectionReads.** One client asks, one request after the other, while any transactions are executed. `query`
holds what the handler has read so far and, as history, what it found when it was asked (`since`);
`told` and `known` are what the client has learned. `getRealTimeStatistics` is a list followed by one call for
each candidate, in any order (`Promise.all`); `generateBallot` is a list followed by a query for parties.
An audit trail is only ever answered while it is empty: the REST endpoint calls `toNumber` on timestamps that are bigints
(`election-contract.service.ts:284`), and the gateway hands bigints to a JSON encoder that throws on them
(`statistic/services/statistic.service.ts:97`); so does its total (line 73), and the one modelled as answering is REST's.
The reads are modelled behind their guards: the gateway's is `TokenTenantGuard`, which lets nothing pass (finding 6).

**Records.** A request is an element of `Requests`; `step` is the query or upload it waits for. Documents are
named by the request that creates them. MongoDB's operations on one document are atomic, its answers may be lost
(`Acknowledge`), and a write that the driver gave up may take effect after the request was answered (`CallFails`): such a
request keeps its step `"write"` with the result `"failed"` until it does or is lost. `findOne` returns any matching document. The unique index on a party's name
(`party/entity/party.entity.ts:17`) spans the collection, not the tenant. `earlier` records which requests were
answered before another arrived: it is what "did not overlap" means in the properties.

**Identity.** Persons, the texts on their documents, and the rows of the registers are constants; registers
grow at any time (`Enroll`). Text recognition and the language model are one step, `MatchFields`, whose reply is left open: any
keys, columns or not, in any order, each with any text, of the document or of nobody, or with none. A regular expression
matches as `Occurs` says, which need not be reflexive. `Compare` looks at the first field of the reply, not at the one the
worker found, as the code does. `exited` is a worker that ended without a message. `Vote` takes any `Claims`: the guard
decodes the token it is shown, verifies no signature and looks nothing up, although its comment says that it throws *"si el
token ha expirado o el enrollmentId no existe"* (`enrollment/guards/token-enrollment.guard.ts:22`), and a token without `exp`
never expires. A ballot remembers as history for whom the server had signed what the voter presented (`holders`), and a token
whether the value that was compared stands on the document it was signed for (`ofPaper`).

**TenantGuards.** `CheckTenant` has the guard as it is: it reads `headers` and `handshake` of one object that
has only one of them, so it rejects every request (finding 6). All other modules model their endpoints
*from the point behind the guards*: they show what the handlers do once the guard lets requests pass.

## 3. Properties

Each is stated in words above its definition. The ones that carry most:

- `BoxSpec`: contract and service refine `BallotBox` (`cast` is the audit trail, `closed` is `electionEnded`).
- `TallyMatchesBallots`: four independently stored numbers agree.
- `ConfirmedVoteIsCounted`, `OneConfirmationPerVoter`, `RefusalIsDefinite`: what a voter may
  conclude from a success and from a definite error. Of an `"rpc"` error or no answer nothing
  follows, and the model shows both outcomes.
- `ResultIsFinal`: after a confirmed end no step changes the result.
- `ConfirmedIsProvisioned`, `ElectionIsNeverReplaced`, `RegistryAgrees`,
  `LateDeliveryCreatesNothing`: the webhook under redelivery, overlap and failure.
- `LateDeliveryCreatesNothing` covers both checks of the webhook, the one that `createTenant` repeats among them.
- `NothingToldIsTakenBack`, `FinalAnswersAgree`, `CountsAreOfTheRequest`: statistics are no snapshot, but no
  reader can notice by a number that falls, and after the end all of them agree.
- `BallotLeadsToCandidates`: the position of a candidate on the ballot is its id in the contract, deletions or not.
- `PartyNamesAreUnique` holds because of the index; `SharedAccountsOverlapped`, `RegisteredCanSignIn` and `StartIsSeen`
  say what is left where there is none: two accounts of one email, or two configurations of one tenant, come from
  overlapping requests only, and without them a later request sees what was confirmed.
- `TokensAreOfTheRegister`: whatever the reply and wherever its columns come from, a token is signed for the register
  that was asked for only.
- `PersonsAreVerifiedAsThemselves`: one value decides who somebody is. If the first value of the reply is a text of the
  document, or empty, and no other row of the register has such a cell, the token is for the person's own row. The
  conditions are necessary: a reply that begins with somebody else's text, a homonym in a register of names, or two empty
  values, which the comparison takes for equal, verify one person as another.
- `PersonsVoteOncePerRow`: with all that was signed so for them, over any time and any number of requests, such persons cast no
  more ballots than they have rows. It counts rows, because an upload that is repeated enrolls everybody twice and nothing
  rules that out. It says nothing of claims that nobody signed, which are taken too; that no enrollment id votes twice,
  whoever presents it, is the contract's `OneBallotPerHash`.
- `ConfirmedExcelIsStored`, `EveryRowHandedOverOnce`: the batches. `ConfirmedCSVHasItsEnd` is all that
  a CSV success guarantees (see finding 5). `WrongColumnsSaveNothing` is about Excel files only: a CSV file
  with wrong columns is refused and its rows are saved nevertheless.

## 4. Runs and bounds

| Run | Instance | Distinct states |
|---|---|---|
| `contract` | 3 hashes, 2 candidates, counters up to 2, 1 party, one client | 280 thousand |
| `service` | 2 requests, all 5 endpoints, contract not yet deployed, 2 voters, 2 candidates, 2 photos | 142 thousand |
| `subscription` | 1 checkout, 2 deliveries of any metadata, 1 user and an unknown one, 2 names, 2 domains | 369 thousand |
| `enrollment_upload` | 2 uploads, batches of 2, up to 3 rows, 2 clock values | 599 thousand |
| `records` | 3 requests on each collection, 2 members and an outsider, 2 names, 2 emails, 1 logo | 713 thousand |
| `identity` | 2 persons, 2 tenants, 4 rows, 2 columns, any reply of 4 texts, any claims, tokens that expire | 342 thousand |

The other six runs each refute one statement of the repository (section 6).

Bounds, by name. `MaxCandidates` bounds the candidates ever added (conjunct of
`CanAdd`); one candidate id beyond it is requested, so that unknown ids occur. `MaxUint8` is
255 in `service`, where no more than two votes are cast, and 2 in `contract`
and `full_counter`, where three voters reach the limit. `BatchSize` is 2 instead of 1000
and `MaxRows` is 3: files without rows, with less than a batch, with exactly one, and with
one and a rest. `Stamps` are the clock values two uploads may share or not.
Two deliveries suffice for overlap and redelivery, since tenants interact in pairs
only, and one checkout, since a delivery may bring any metadata without one; two uploads suffice for a collision of names, and a full and a last batch of one file already race.
Two requests let every pair of endpoints race, one nonce being taken under the other's; the safety
properties of `service` are proved for any number of requests (section 5). In `records`, `Mixes` is the set of
combinations of endpoints that are used together: handlers of different collections share no document, so the run
gives each collection all three requests; three are two that overlap and one that comes later. Of the parties' endpoints
one member sends all and the other creates: with three requests only one of two members' patches or deletions can find
a party of its own, so the other's, which changes no party, is left out. In `identity` there is
one slot `r1`, reused without limit: requests share nothing but the registers, which `Enroll` changes between
any two steps, and the tokens, which outlive the request. The rows are those where matching goes wrong: a name that is part
of another, a missing number, a person enrolled twice, a row of the same person in another tenant. `MaxTime` and `TokenLife`
let a token expire, `MaxTokens` and `MaxBallots` are two each: two tokens of one person and two ballots of one election are
what it takes to vote twice.

Symmetry is used in `contract` and `records`, which have no liveness property, over sets whose elements no definition tells apart.
Deadlock checking is on for the contract, where `endElection` is always possible, and for the guards, which
always take another request; it is off elsewhere because every request, delivery or upload may have been answered.

Fairness. `service`, `identity` and `enrollment_upload` have a liveness property. Their `FairSpec` (in `EnrollmentUpload` part of
`Spec`) is weak fairness of each handler's steps (`Handle`), because Node's event loop runs every callback that is ready; of
`MineNext`, because the sequencer executes what it accepted; and of the workers, whose write ends one way or the other. In
`identity` a worker that does not answer exits, and Node reports the exit. The other specifications have no fairness: their
handlers may stop anywhere. Nobody has to send a request, no call has to fail, and a
restart never has to happen.

## 5. Proofs

TLAPS proves the following for every value of the constants: any number of voters, requests,
deliveries, uploads, persons and rows, any batch size, any width of the counters, in any
interleaving with failures and restarts. All assumptions are named, stand in the module that declares the
constants and are evaluated by TLC on the instances:

| Assumption | Says |
|---|---|
| `ContractAssumption` | the bounds are numbers; the first candidates' photo and party are known ones |
| `ServiceAssumption` | `voterHash` is injective: `keccak256` does not collide on two enrollment ids of a tenant |
| `ReadsAssumption`, `NoneAssumption`, part of `IdentityAssumption` | `None` stands for what is absent and is no value |
| `UploadAssumption` | batches have at least one row; the bound on the rows of a file is a number |
| `IdentityAssumption` | calls are of known persons and owners, rows and documents hold known values, an empty cell's among them, and a register has finitely many columns |
| `RecordsAssumption` | members are owners, and `Mixes` are sets of endpoints of owners |

No property of section 3 is inductive as it stands. Each invariant adds what the handlers
know at their awaits, and is the conjunction of named parts.

*The contract.* The invariant is `ContractInv`: the type invariant, `TallyMatchesBallots`,
`OneBallotPerHash`, and blank slots for ids not yet added. `VoteBallots` shows that a
vote adds exactly one new pair to `Ballots`, `OtherBallots` that no other method
changes it, `VoteTally` carries the cardinalities over. From it follow `ContractTypeCorrect`,
`ContractTally`, `ContractOneBallot` and the refinement `ContractImplementsBox`.

*The service.* That a success means an executed vote
depends on receipts belonging to the executed prefix of the queue, which depends on
each request having one transaction, which depends on what step its handler is at.
`ServiceInv` says just this: `CallsAreReady` (a prepared call is complete and its photo pinned),
`QueueIsSound` (a request occurs once in the queue; receipts are those of the prefix),
`AnswersAreSound` (what an answer says of the queue and the receipt) and
`ReceiptsAreSound` (what a receipt says of the contract). From it follow `ServiceTypeCorrect`,
`ConfirmedVotesCount`, `ConfirmedOnce`, `NoInventedBallot`, `RefusalsAreDefinite`,
`CandidatePhotosPinned` and `ConfirmedEndFixesResult`. `ServiceImplementsContract` shows that the server
drives the contract through its methods only, so what is proved of the contract holds of
the system; `ServiceImplementsBox` is the combination.

*The reads.* `ReadsImplementContract` shows the contract beside its readers to be the contract, so `ContractInv`
is there to build on. `ReadsInv` relates three moments: the request (`SinceIsPast`), the calls so far
(`ReadingIsSound`: each count received lies between the one at the request and the one now) and the answer
(`AnswerIsSound`), plus `TotalIsCounted`: the counters' sum, the total and the size of `hasVoted` are one number.
A sum is a number of votes, the cardinality of a set of pairs, so that smaller counts are a
subset and need no induction. From it follow `StatisticsOfTheRequest`, `AnswersOnlyGrow`,
`FinalResultIsTold` and `BallotNumbersAreIds`.

*The subscription.* `SubscriptionInv`: a tenant's delivery got beyond the await that saves it (`TenantsAreOfDeliveries`), what
lies behind an await was found or written (`WritesAreInOrder`), addresses are a delivery's own and the registration comes last (`AddressesAreOwn`).
It gives `SuccessIsProvisioned`, `RegistryIsOfOwner` and, since a delivery only writes its own address
and finds none before, `ElectionsStay`. `LateDeliveries` is a temporal argument: what is taken
stays taken (`TakenStays`), a late delivery is refused at its check, and an answered one does nothing more (`EndedStays`).

*The upload.* `BatchInv` says that the batches of an upload are disjoint intervals that start at multiples of the batch
size and together are the rows handed over; that a saved row was handed over; and that a batch reported
as written is saved. `ReaderInv` says what the reader has opened and how far it is.
`ExcelAwaitsBatches` is what separates the two readers: no Excel reader goes on while a batch
is unconfirmed. From them follow `RowsAreHandedOverOnce`, `ExcelIsStored`, `NothingOfWrongColumns`
and `EndOfCSVIsStored`, the last with `LastMultiple` and `NextMultiple` about division by the batch size.

*The records.* `RecordsInv`: what a handler found missing can have been created since by requests it overlaps only
(`AccountsAreOfRequests`, `ConfigsAreOfRequests`), because those that came `earlier` had all ended, and a write that was given
up has not (`WriteGivenUp`). From it follow
`NamesOfParties`, `LogosOfParties`, `AccountsShareByOverlap`, `RegistrationsLast`, `StartsLast` and the action property `OwnersOfParties`.

*The identity.* `IdentityInv` follows a document: the enrollment that is signed is stored for the owner and has the compared
value in its cell (`RequestsAreSound`), so a token is for the person whom that cell distinguishes (`Holds`), and what a
ballot's holders presented was signed for them (`BallotsAreSound`). The reply and the claims of a vote are arbitrary. From it
follow `TokensOfTheRegister` and `VerifiedAsThemselves`. For `OneVotePerRow` the ballots a person holds are mapped to the rows
they are of: the map is into the person's rows, and one to one since a contract takes one ballot of an id.

Each module also proves its type invariant (`ServiceTypeCorrect`, `ReadsTypeCorrect`,
`SubscriptionTypeCorrect`, `UploadTypeCorrect`, `RecordsTypeCorrect`, `IdentityTypeCorrect`). All theorems are of
specifications without fairness, or with fairness that the proof does not use, so they hold of the fair ones too.

Only model-checked: the liveness properties (`EveryRequestAnswered`, `EveryUploadEnds`,
`EveryVerificationAnswered`), which need fairness and are out of the
prover's reach, and the six refuted statements of section 6.

## 6. Findings

Each is the counterexample of one run.

1. `deleted_candidate`: a vote for a candidate whose deletion was confirmed is executed;
   `vote` does not read `isActive` (`candidate/services/candidate.service.ts:152,165`).
2. `full_counter`: from the 256th vote for a candidate on, every vote for it
   reverts, while the Gold plan is for more than 500 voters (`tenant/services/suscription.service.ts:59`).
3. `subscription_overlap`: two overlapping deliveries create two tenants of the same name
   and domain (`tenant/services/tenant.service.ts:26,41`).
4. `subscription_abort`: the aborted transaction takes nothing back. The tenant
   that is left makes every redelivery fail: the customer has paid and has no election
   (`tenant/services/suscription.service.ts:188-195`).
5. `upload_csv`: a CSV upload is confirmed before its full batches are saved
   (`enrollment/services/enrollment.service.ts:105`).
6. `tenant_guard`: no request passes `TokenTenantGuard`. `isWs` is a method, not its result, and is always truthy; an HTTP
   request then has no `handshake`, a socket no `headers`, and reading the missing one throws
   (`tenant/guard/token-tenant.guard.ts:84-90`).

Seen while modelling, without a run of its own:

- A forged enrollment token votes: `Vote` takes any claims (`enrollment/guards/token-enrollment.guard.ts:22,34`). What is
  left is that an id votes once.
- The unique index on a party's name spans all tenants (`party/entity/party.entity.ts:17`), although the query, its message
  and the second index (line 35) speak of one tenant: a name that another tenant uses is refused with MongoDB's own
  duplicate error instead of that message. `PartyNamesAreUnique` states the collection-wide uniqueness that results.
- An audit trail with a vote in it is never answered, neither by REST nor by the gateway (section 2, `ElectionReads`).

## 7. Abstractions and what is left out

- Names, descriptions, emails, timestamps and events of the contract; the text of
  errors. One contract and one tenant at a time in `ElectionService`; the wallet is shared with
  other tenants, whose transactions only make nonces stale, which `BroadcastStale` covers.
- The chain neither reorganises nor drops a transaction it accepted (the zkSync sequencer
  confirms in order of nonces).
- Except in `TenantGuards` and for the vote of `Identity`, a request is modelled from the point behind its guards. In
  `TenantGuards` a token is one the server signed.
- The Hardhat microservice, Stripe, Pinata, MongoDB and ethers are external, modelled by what
  the code relies on: a call takes effect at most once and is answered or fails.
- Parsing of CSV and Excel, several worksheets in one workbook. Cells and texts are compared up to `normalizeValue`.
- Reads that share a query with a modelled one and keep nothing: `getCandidate`, `getConfig`, the list and the view of
  parties, the tenant contract's endpoint. `compareFaces` compares two pictures and answers; no
  other endpoint asks whether it was called. Pinata's own upload endpoint.
- Backup, logging, configuration, and `BlockchainService`, which nothing calls.
- `PROJECT.json` lists each component, and each hazard with the properties that cover it
  or the reason why none does yet.

## 8. Plan

In this order; items 1 to 7 are done.

1. `BallotBox`, `ElectionContract`, `ElectionService` with proofs: the votes.
2. `Subscription`: the tenants the votes belong to.
3. `EnrollmentUpload`: the voters.
4. `Records`: check-then-save over MongoDB.
5. `Identity`, `TenantGuards`: who votes, and the tokens on the way.
6. `ElectionReads`: what is shown of an election.
7. Proofs of every safety property the runs check, with one inductive invariant for each module.
8. Left: abstract specifications of the other components (a subscription that provisions a
   tenant once or not at all, an upload that saves a file), with the refinements proved from the invariants of
   section 5; that a vote token of `Identity` leads to a vote of `ElectionService`, as one composed specification; and
   the life of tokens in `TenantGuards` for any clock.
