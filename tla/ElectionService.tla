--------------------------- MODULE ElectionService ---------------------------
(***************************************************************************)
(* The HTTP handlers of one tenant's election (vote, end, and the create,  *)
(* patch and delete of candidates) over the Election contract.  A handler  *)
(* runs between two awaits without interruption, so each action below is   *)
(* the code from one await to the next; handlers of concurrent requests    *)
(* interleave at every await, share one wallet, and all vanish when the    *)
(* process restarts while the transactions they sent live on.              *)
(* A repeated request (a retry, a second click) is another element of      *)
(* Requests with the same arguments.                                       *)
(***************************************************************************)
EXTENDS ElectionContract

CONSTANTS
    Requests,    \* the requests the server receives, each handled once
    Voters,      \* enrollment ids
    voterHash,   \* enrollment id -> keccak256(id, tenant, server key)
    Operations   \* the endpoints in use: a subset of AllOperations

AllOperations == {"vote", "end", "add", "update", "delete"}

\* generateVoterHash is deterministic for a tenant, and keccak256 collides on
\* no two enrollment ids.
ASSUME ServiceAssumption ==
    /\ Operations \subseteq AllOperations
    /\ voterHash \in [Voters -> Hashes]
    /\ \A v, w \in Voters : voterHash[v] = voterHash[w] => v = w

VARIABLES
    electionAddress,  \* the owner's MemberTenant holds the contract's address
    pinned,           \* the photos uploaded to Pinata
    args,             \* what each request asks for
    step,             \* the await each request's handler is at
    nonce,            \* the transaction count its wallet read
    result,           \* how it was answered
    txs,              \* the accepted transactions, by nonce, as their requests
    mined,            \* how many of them are executed
    receipt           \* the outcome of each executed transaction

serverVars == <<electionAddress, pinned, args, step, nonce, result>>
chainVars == <<txs, mined, receipt>>
vars == <<contractVars, serverVars, chainVars>>

\* The candidate id comes from the URL or the body: it may not exist.
Call == [op : Operations, voter : Voters \cup {None}, candidateId : 0..MaxCandidates,
         photo : Photos \cup {None}, partyId : Parties \cup {None}]

\* The endpoint decides which of the fields it reads; the others are fixed.
\* A PATCH may leave the photo or another field out, a POST only the photo.
WellFormed(c) ==
    /\ c.op = "vote" <=> c.voter # None
    /\ c.op \in {"end", "add"} => c.candidateId = 0
    /\ c.op \notin {"add", "update"} => c.photo = None /\ c.partyId = None
    /\ c.op = "add" => c.partyId # None

NoCall == [op |-> None, voter |-> None, candidateId |-> 0,
           photo |-> None, partyId |-> None]

InFlight == {"member", "upload", "nonce", "estimate", "send", "wait"}
Steps == InFlight \cup {"idle", "done", "lost"}

\* "refused": guard, validation or encoding error before anything is sent.
\* "reverted": the contract rejects the call.  "stale": another request used
\* the nonce.  "rpc": an awaited call failed or was not answered.
Results == {"none", "ok", "refused", "reverted", "stale", "rpc"}

TypeOK ==
    /\ ContractTypeOK
    /\ electionAddress \in BOOLEAN
    /\ pinned \subseteq Photos
    /\ args \in [Requests -> Call \cup {NoCall}]
    /\ step \in [Requests -> Steps]
    /\ nonce \in [Requests -> Nat]
    /\ result \in [Requests -> Results]
    /\ txs \in Seq(Requests)
    /\ mined \in 0..Len(txs)
    /\ receipt \in [Requests -> {"none", "ok", "reverted"}]

Init ==
    /\ ContractInit
    /\ electionAddress \in BOOLEAN
    /\ candidatesCount > 0 => electionAddress
    /\ pinned = {FirstPhoto}
    /\ args = [r \in Requests |-> NoCall]
    /\ step = [r \in Requests |-> "idle"]
    /\ nonce = [r \in Requests |-> 0]
    /\ result = [r \in Requests |-> "none"]
    /\ txs = << >>
    /\ mined = 0
    /\ receipt = [r \in Requests |-> "none"]
-----------------------------------------------------------------------------
(* The server.                                                             *)

GoTo(r, s) == step' = [step EXCEPT ![r] = s] /\ UNCHANGED result

Answer(r, res) ==
    /\ step' = [step EXCEPT ![r] = "done"]
    /\ result' = [result EXCEPT ![r] = res]

\* The webhook's saga stores the address of the deployed contract.
DeployElectionContract ==
    /\ ~electionAddress
    /\ electionAddress' = TRUE
    /\ UNCHANGED <<contractVars, chainVars, pinned, args, step, nonce, result>>

\* A request passes its controller and its handler awaits findById.
Arrive(r) ==
    /\ step[r] = "idle"
    /\ \E c \in Call : WellFormed(c) /\ args' = [args EXCEPT ![r] = c]
    /\ GoTo(r, "member")
    /\ UNCHANGED <<contractVars, chainVars, electionAddress, pinned, nonce>>

\* "Dirección del contrato de Election no configurada."
RefuseUnconfigured(r) ==
    /\ step[r] = "member"
    /\ ~electionAddress
    /\ Answer(r, "refused")
    /\ UNCHANGED <<contractVars, chainVars, electionAddress, pinned, args, nonce>>

\* Mutant of UploadsFirst: a new photo is uploaded on creation only.
UploadsOnCreate(c) == c.op = "add"

UploadsFirst(c) == c.op \in {"add", "update"}

FindMember(r) ==
    /\ step[r] = "member"
    /\ electionAddress
    /\ GoTo(r, IF UploadsFirst(args[r]) THEN "upload" ELSE "nonce")
    /\ UNCHANGED <<contractVars, chainVars, electionAddress, pinned, args, nonce>>

\* pinataService.uploadFile, awaited before the transaction is built.
UploadPhoto(r) ==
    /\ step[r] = "upload"
    /\ args[r].photo # None
    /\ pinned' = pinned \cup {args[r].photo}
    \* ethers cannot encode an omitted field: the call throws, the pin stays
    /\ IF args[r].partyId = None THEN Answer(r, "refused") ELSE GoTo(r, "nonce")
    /\ UNCHANGED <<contractVars, chainVars, electionAddress, args, nonce>>

\* validateFile throws without a file, for a PATCH too.
RefuseWithoutPhoto(r) ==
    /\ step[r] = "upload"
    /\ args[r].photo = None
    /\ Answer(r, "refused")
    /\ UNCHANGED <<contractVars, chainVars, electionAddress, pinned, args, nonce>>

\* Mutant of GetNonce: the nonce of the last transaction, not of the next.
GetLastNonce(r) ==
    /\ step[r] = "nonce"
    /\ nonce' = [nonce EXCEPT ![r] = Len(txs) - 1]
    /\ GoTo(r, "estimate")
    /\ UNCHANGED <<contractVars, chainVars, electionAddress, pinned, args>>

\* ethers, first await of a transaction: the wallet's pending transaction count.
GetNonce(r) ==
    /\ step[r] = "nonce"
    /\ nonce' = [nonce EXCEPT ![r] = Len(txs)]
    /\ GoTo(r, "estimate")
    /\ UNCHANGED <<contractVars, chainVars, electionAddress, pinned, args>>

\* What the contract requires of the call, and what it does then.
Executable(c) ==
    CASE c.op = "vote"   -> CanVote(c.candidateId, voterHash[c.voter])
      [] c.op = "add"    -> CanAdd
      [] c.op \in {"update", "delete"} -> CanEdit(c.candidateId)
      [] c.op = "end"    -> TRUE

\* Mutant of Execute: the hash leaves out the enrollment.
ExecuteAsAnyone(c) ==
    \/ c.op = "vote" /\ vote(c.candidateId, CHOOSE h \in Hashes : TRUE)
    \/ c.op = "end" /\ endElection

Execute(c) ==
    \/ c.op = "vote" /\ vote(c.candidateId, voterHash[c.voter])
    \/ c.op = "add" /\ addCandidate(c.photo, c.partyId)
    \/ c.op = "update" /\ updateCandidate(c.candidateId, c.photo, c.partyId)
    \/ c.op = "delete" /\ deleteCandidate(c.candidateId)
    \/ c.op = "end" /\ endElection

\* Second await: the node executes the call on its current state; a call that
\* reverts there throws and nothing is sent.
EstimateGas(r) ==
    /\ step[r] = "estimate"
    /\ IF Executable(args[r]) THEN GoTo(r, "send") ELSE Answer(r, "reverted")
    /\ UNCHANGED <<contractVars, chainVars, electionAddress, pinned, args, nonce>>

\* Third await: the node accepts the signed transaction if its nonce is next.
Broadcast(r) ==
    /\ step[r] = "send"
    /\ nonce[r] = Len(txs)
    /\ txs' = Append(txs, r)
    /\ GoTo(r, "wait")
    /\ UNCHANGED <<contractVars, mined, receipt, electionAddress, pinned, args, nonce>>

\* Another request's transaction took the nonce since GetNonce.
BroadcastStale(r) ==
    /\ step[r] = "send"
    /\ nonce[r] # Len(txs)
    /\ Answer(r, "stale")
    /\ UNCHANGED <<contractVars, chainVars, electionAddress, pinned, args, nonce>>

\* The node accepted the transaction, its answer is lost: the handler throws.
BroadcastUnanswered(r) ==
    /\ step[r] = "send"
    /\ nonce[r] = Len(txs)
    /\ txs' = Append(txs, r)
    /\ Answer(r, "rpc")
    /\ UNCHANGED <<contractVars, mined, receipt, electionAddress, pinned, args, nonce>>

\* Mutants of Confirm: the receipt's status is not read, the answer does not
\* wait for it, or waits for a success.
ConfirmAny(r) ==
    /\ step[r] = "wait"
    /\ receipt[r] # "none"
    /\ Answer(r, "ok")
    /\ UNCHANGED <<contractVars, chainVars, electionAddress, pinned, args, nonce>>

ConfirmAtOnce(r) ==
    /\ step[r] = "wait"
    /\ Answer(r, "ok")
    /\ UNCHANGED <<contractVars, chainVars, electionAddress, pinned, args, nonce>>

ConfirmSuccess(r) ==
    /\ step[r] = "wait"
    /\ receipt[r] = "ok"
    /\ Answer(r, "ok")
    /\ UNCHANGED <<contractVars, chainVars, electionAddress, pinned, args, nonce>>

\* tx.wait() returns once the transaction is executed; it throws on a revert.
Confirm(r) ==
    /\ step[r] = "wait"
    /\ receipt[r] # "none"
    /\ Answer(r, receipt[r])
    /\ UNCHANGED <<contractVars, chainVars, electionAddress, pinned, args, nonce>>

\* Mutant of CallFails: every error is reported as a revert.
CallFailsAsRevert(r) ==
    /\ step[r] \in InFlight
    /\ Answer(r, "reverted")
    /\ UNCHANGED <<contractVars, chainVars, electionAddress, pinned, args, nonce>>

\* MongoDB, Pinata or the RPC endpoint fails an awaited call, tx.wait() among
\* them: the handler throws although its transaction may be executed later.
CallFails(r) ==
    /\ step[r] \in InFlight
    /\ Answer(r, "rpc")
    /\ UNCHANGED <<contractVars, chainVars, electionAddress, pinned, args, nonce>>

\* The process restarts: no handler in flight will ever answer.
Restart ==
    /\ \E r \in Requests : step[r] \in InFlight
    /\ step' = [r \in Requests |-> IF step[r] \in InFlight THEN "lost" ELSE step[r]]
    /\ UNCHANGED <<contractVars, chainVars, electionAddress, pinned, args, nonce, result>>
-----------------------------------------------------------------------------
(* The chain executes the wallet's transactions in the order of nonces.    *)

MineNext ==
    /\ mined < Len(txs)
    /\ mined' = mined + 1
    /\ LET r == txs[mined + 1]
       IN  IF Executable(args[r])
           THEN Execute(args[r]) /\ receipt' = [receipt EXCEPT ![r] = "ok"]
           ELSE UNCHANGED contractVars /\ receipt' = [receipt EXCEPT ![r] = "reverted"]
    /\ UNCHANGED <<serverVars, txs>>
-----------------------------------------------------------------------------
Handle(r) ==
    \/ RefuseUnconfigured(r) \/ FindMember(r)
    \/ UploadPhoto(r) \/ RefuseWithoutPhoto(r)
    \/ GetNonce(r) \/ EstimateGas(r)
    \/ Broadcast(r) \/ BroadcastStale(r)
    \/ Confirm(r)

Next ==
    \/ DeployElectionContract
    \/ \E r \in Requests : Arrive(r) \/ Handle(r) \/ BroadcastUnanswered(r) \/ CallFails(r)
    \/ Restart
    \/ MineNext

Spec == Init /\ [][Next]_vars

\* Node's event loop runs every handler whose await is settled, and the
\* sequencer executes what it accepted.  Nobody has to send a request, and no
\* call has to fail.
FairSpec ==
    /\ Spec
    /\ \A r \in Requests : WF_vars(Handle(r))
    /\ WF_vars(MineNext)
-----------------------------------------------------------------------------
Confirmed(r, op) == args[r].op = op /\ result[r] = "ok"

\* vote: "Confirmacion del voto registrado".  A vote answered with success is
\* in the audit trail of the candidate that request named, through restarts,
\* reordered transactions and candidates deleted meanwhile.
ConfirmedVoteIsCounted ==
    \A r \in Requests : Confirmed(r, "vote") =>
        <<voterHash[args[r].voter], args[r].candidateId>> \in Ballots

\* vote: however often a voter's request is repeated, at most one of the
\* repetitions is answered with success.
OneConfirmationPerVoter ==
    \A q, r \in Requests :
        /\ Confirmed(q, "vote")
        /\ Confirmed(r, "vote")
        /\ args[q].voter = args[r].voter
        => q = r

\* vote: a ballot comes from a request of that very voter for that very
\* candidate, whose transaction was executed; an endpoint never invents one.
BallotsWereRequested ==
    \A b \in Ballots : \E r \in Requests :
        /\ args[r].op = "vote"
        /\ voterHash[args[r].voter] = b[1]
        /\ args[r].candidateId = b[2]
        /\ receipt[r] = "ok"

\* All handlers: an answer that blames the request, the contract or the nonce
\* is definite.  No transaction of that request is executed or will be; only
\* an "rpc" answer or a restart leaves the caller in doubt.
RefusalIsDefinite ==
    \A r \in Requests : result[r] \in {"refused", "reverted", "stale"} =>
        /\ receipt[r] # "ok"
        /\ \A i \in (mined + 1)..Len(txs) : txs[i] # r

\* createCandidate, patchCandidate: a photo the contract points to was uploaded
\* before, whatever failed between the upload and the transaction.
PhotosArePinned ==
    \A id \in Ids : Exists(id) => candidates[id].imgHash \in pinned

\* endElection: once it was answered with success the result stands.  No vote
\* sent earlier and executed later, and no candidate change, alters it.
ResultIsFinal ==
    [][(\E r \in Requests : Confirmed(r, "end")) =>
         UNCHANGED <<candidates, candidatesCount, voteAudits, totalVotes, hasVoted>>]_vars

\* All handlers: a request that arrived is answered, unless the process
\* restarts under it.
EveryRequestAnswered ==
    \A r \in Requests : step[r] \in InFlight ~> step[r] \in {"done", "lost"}
-----------------------------------------------------------------------------
(* Refuted: see the findings of the README.                                *)

\* "Elimina un candidato de la elección": after a confirmed deletion the
\* candidate takes no further vote.
DeletedCandidateTakesNoVote ==
    [][\A r \in Requests : Confirmed(r, "delete") =>
         voteAudits'[args[r].candidateId] = voteAudits[args[r].candidateId]]_vars

\* A Gold plan is for more than 500 voters, all of whom may choose the same
\* candidate: a first vote for an existing candidate of an open election is
\* not one the contract rejects.
EligibleVoteIsExecutable ==
    \A v \in Voters, id \in Ids :
        ~electionEnded /\ Exists(id) /\ voterHash[v] \notin hasVoted
            => CanVote(id, voterHash[v])
=============================================================================
