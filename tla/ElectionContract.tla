--------------------------- MODULE ElectionContract ---------------------------
(***************************************************************************)
(* The Election contract that the backend drives through ethers.  The      *)
(* repository holds it compiled (src/blockchain/abis/contracts/            *)
(* Election.json): its storage, guards and revert messages are read off    *)
(* the bytecode, its types off the ABI.  A transaction executes whole or   *)
(* reverts, so each method is one action whose guard is what it requires.  *)
(* Every transaction is signed by the one wallet of the server, which is   *)
(* the contract's admin: the onlyAdmin guard always passes.  Names,        *)
(* descriptions, emails, timestamps and events are left out.               *)
(***************************************************************************)
EXTENDS Integers, Sequences, FiniteSets

CONSTANTS
    Hashes,         \* voter hashes (bytes32)
    Photos,         \* content identifiers of candidate photos
    Parties,        \* party ids a candidate may name
    None,           \* the empty string
    MaxCandidates,  \* bound of the model: candidates ever added
    MaxUint8,       \* largest value of the uint8 counters, 255 in the contract
    Registered,     \* at most so many candidates are there at the start
    FirstPhoto,     \* their photo
    FirstParty      \* their party

ASSUME ContractAssumption ==
    /\ MaxCandidates \in Nat
    /\ MaxUint8 \in Nat
    /\ Registered \in 0..MaxCandidates
    /\ FirstPhoto \in Photos
    /\ FirstParty \in Parties

VARIABLES
    candidates,       \* id -> [imgHash, partyId, voteCount, isActive]
    candidatesCount,  \* ids below it exist
    voteCheckpoints,  \* id -> the count after its last vote
    voteAudits,       \* id -> the sequence of voter hashes
    hasVoted,         \* the hashes mapped to true
    totalVotes,
    electionEnded

contractVars == <<candidates, candidatesCount, voteCheckpoints, voteAudits,
                  hasVoted, totalVotes, electionEnded>>

Ids == 0..(MaxCandidates - 1)

Candidate == [imgHash : Photos \cup {None}, partyId : Parties \cup {None},
              voteCount : 0..MaxUint8, isActive : BOOLEAN]

\* The zero value of a mapping entry that was never written.
BlankCandidate ==
    [imgHash |-> None, partyId |-> None, voteCount |-> 0, isActive |-> FALSE]

NewCandidate(photo, party) ==
    [imgHash |-> photo, partyId |-> party, voteCount |-> 0, isActive |-> TRUE]

ContractTypeOK ==
    /\ candidates \in [Ids -> Candidate]
    /\ candidatesCount \in 0..MaxCandidates
    /\ voteCheckpoints \in [Ids -> 0..MaxUint8]
    /\ voteAudits \in [Ids -> Seq(Hashes)]
    /\ hasVoted \subseteq Hashes
    /\ totalVotes \in Nat
    /\ electionEnded \in BOOLEAN

ContractInit ==
    /\ candidatesCount \in 0..Registered
    /\ candidates = [id \in Ids |-> IF id < candidatesCount
                                    THEN NewCandidate(FirstPhoto, FirstParty)
                                    ELSE BlankCandidate]
    /\ voteCheckpoints = [id \in Ids |-> 0]
    /\ voteAudits = [id \in Ids |-> << >>]
    /\ hasVoted = {}
    /\ totalVotes = 0
    /\ electionEnded = FALSE
-----------------------------------------------------------------------------
(* What each method requires; a call that does not meet it reverts.        *)

Exists(id) == id < candidatesCount

\* Mutants of CanVote, one guard dropped in each.
CanVoteUncapped(id, h) == ~electionEnded /\ Exists(id) /\ h \notin hasVoted
CanVoteAgain(id, h) == ~electionEnded /\ Exists(id) /\ candidates[id].voteCount < MaxUint8
CanVoteLate(id, h) ==
    Exists(id) /\ h \notin hasVoted /\ candidates[id].voteCount < MaxUint8

\* "Las elecciones han terminado", "ID de candidato no valido", "El votante
\* ya ha votado", and the checked increment of a uint8.  isActive is not read.
CanVote(id, h) ==
    /\ ~electionEnded
    /\ Exists(id)
    /\ h \notin hasVoted
    /\ candidates[id].voteCount < MaxUint8

\* The second conjunct is the bound of the model, not a guard of the contract.
CanAdd == ~electionEnded /\ candidatesCount < MaxCandidates

\* Mutant of CanEdit: candidates may still change after the end.
CanEditLate(id) == Exists(id) /\ candidates[id].isActive

\* "El candidato ha sido eliminado" or "ya ha sido eliminado" when inactive.
CanEdit(id) == ~electionEnded /\ Exists(id) /\ candidates[id].isActive
-----------------------------------------------------------------------------
vote(id, h) ==
    /\ CanVote(id, h)
    /\ candidates' = [candidates EXCEPT ![id].voteCount = @ + 1]
    /\ totalVotes' = totalVotes + 1
    /\ hasVoted' = hasVoted \cup {h}
    /\ voteCheckpoints' = [voteCheckpoints EXCEPT ![id] = candidates[id].voteCount + 1]
    /\ voteAudits' = [voteAudits EXCEPT ![id] = Append(@, h)]
    /\ UNCHANGED <<candidatesCount, electionEnded>>

addCandidate(photo, party) ==
    /\ CanAdd
    /\ candidates' = [candidates EXCEPT ![candidatesCount] = NewCandidate(photo, party)]
    /\ candidatesCount' = candidatesCount + 1
    /\ UNCHANGED <<voteCheckpoints, voteAudits, hasVoted, totalVotes, electionEnded>>

updateCandidate(id, photo, party) ==
    /\ CanEdit(id)
    /\ candidates' = [candidates EXCEPT ![id].imgHash = photo, ![id].partyId = party]
    /\ UNCHANGED <<candidatesCount, voteCheckpoints, voteAudits, hasVoted,
                   totalVotes, electionEnded>>

\* Mutant of deleteCandidate: the whole mapping entry is deleted.
deleteCandidateEntry(id) ==
    /\ CanEdit(id)
    /\ candidates' = [candidates EXCEPT ![id] = BlankCandidate]
    /\ UNCHANGED <<candidatesCount, voteCheckpoints, voteAudits, hasVoted,
                   totalVotes, electionEnded>>

\* Only the flag is cleared: the id, the count and the audit trail stay.
deleteCandidate(id) ==
    /\ CanEdit(id)
    /\ candidates' = [candidates EXCEPT ![id].isActive = FALSE]
    /\ UNCHANGED <<candidatesCount, voteCheckpoints, voteAudits, hasVoted,
                   totalVotes, electionEnded>>

\* A second call is accepted too and changes nothing.
endElection ==
    /\ electionEnded' = TRUE
    /\ UNCHANGED <<candidates, candidatesCount, voteCheckpoints, voteAudits,
                   hasVoted, totalVotes>>

ContractNext ==
    \/ \E id \in Ids, h \in Hashes : vote(id, h)
    \/ \E photo \in Photos, party \in Parties : addCandidate(photo, party)
    \/ \E id \in Ids, photo \in Photos, party \in Parties : updateCandidate(id, photo, party)
    \/ \E id \in Ids : deleteCandidate(id)
    \/ endElection

ContractSpec == ContractInit /\ [][ContractNext]_contractVars
-----------------------------------------------------------------------------
(* The views the backend reads.                                            *)

verifyCheckpoint(id) == candidates[id].voteCount = voteCheckpoints[id]

AuditedHashes(id) == {voteAudits[id][i] : i \in DOMAIN voteAudits[id]}

\* The ballots the contract took, as the audit trail shows them.
Ballots == {b \in Hashes \X Ids : b[1] \in AuditedHashes(b[2])}
BallotsFor(id) == {b \in Ballots : b[2] = id}

Box == INSTANCE BallotBox WITH cast <- Ballots, closed <- electionEnded
-----------------------------------------------------------------------------
\* The counters the statistics show are those of the audit trail: the total is
\* the number of ballots, each candidate's count is its number of ballots and
\* the length of its audit trail, and the checkpoint kept beside it agrees.
TallyMatchesBallots ==
    /\ totalVotes = Cardinality(Ballots)
    /\ \A id \in Ids : /\ candidates[id].voteCount = Cardinality(BallotsFor(id))
                       /\ candidates[id].voteCount = Len(voteAudits[id])
                       /\ verifyCheckpoint(id)

\* A voter hash occurs at most once in the audit trails of all candidates
\* together, and hasUserVoted says true of exactly those that occur.
OneBallotPerHash ==
    /\ \A b, c \in Ballots : b[1] = c[1] => b = c
    /\ hasVoted = {b[1] : b \in Ballots}

\* The contract keeps the promise of the ballot box: no ballot is taken twice
\* for a hash, changed, dropped, or added once endElection was executed.
BoxSpec == Box!Spec
=============================================================================
