------------------------ MODULE ElectionServiceProofs ------------------------
(***************************************************************************)
(* What a caller may conclude from an answer of the election endpoints,    *)
(* for any number of requests, voters, candidates and transactions.        *)
(***************************************************************************)
EXTENDS ElectionService, ElectionContractProofs

\* The inductive invariant, in parts.

\* The node has accepted a transaction of the request.
Accepted(r) == \E i \in DOMAIN txs : txs[i] = r

\* A request whose transaction is being prepared, sent or executed.
Committed(r) == step[r] \in {"nonce", "estimate", "send", "wait"} \/ Accepted(r)

\* What such a request asks for is complete, and its photo is uploaded.
CallsAreReady ==
    \A r \in Requests : step[r] # "idle" =>
        /\ args[r] \in Call
        /\ WellFormed(args[r])
        /\ Committed(r) /\ UploadsFirst(args[r]) =>
              args[r].photo \in pinned /\ args[r].partyId \in Parties

\* A request has at most one transaction, sent by a handler that went on to
\* wait; the receipts are those of the executed prefix of the queue.
QueueIsSound ==
    /\ \A r \in Requests : Accepted(r) => step[r] \in {"wait", "done", "lost"}
    /\ \A r \in Requests : step[r] = "wait" => Accepted(r)
    /\ \A i, j \in DOMAIN txs : txs[i] = txs[j] => i = j
    /\ \A i \in DOMAIN txs : i <= mined <=> receipt[txs[i]] # "none"
    /\ \A r \in Requests : receipt[r] # "none" => Accepted(r)

\* What each answer says of the request's transaction.
AnswersAreSound ==
    \A r \in Requests :
        /\ step[r] # "done" => result[r] = "none"
        /\ result[r] = "ok" => receipt[r] = "ok"
        /\ result[r] \in {"refused", "stale"} => ~Accepted(r)
        /\ result[r] = "reverted" => receipt[r] = "reverted" \/ ~Accepted(r)

\* What a receipt says of the contract.
Executed(r, op) == args[r].op = op /\ receipt[r] = "ok"

ReceiptsAreSound ==
    /\ \A r \in Requests : Executed(r, "vote") =>
           <<voterHash[args[r].voter], args[r].candidateId>> \in Ballots
    /\ \A q, r \in Requests :
           Executed(q, "vote") /\ Executed(r, "vote") /\ args[q].voter = args[r].voter => q = r
    /\ \A r \in Requests : Executed(r, "end") => electionEnded

ServiceInv ==
    /\ TypeOK
    /\ ContractInv
    /\ CallsAreReady
    /\ QueueIsSound
    /\ AnswersAreSound
    /\ ReceiptsAreSound
    /\ BallotsWereRequested
    /\ PhotosArePinned
-----------------------------------------------------------------------------
\* The steps of the server alone, without the request they serve: they change
\* neither the contract nor the queue, except that Broadcast extends the queue.
ServerStep(r) ==
    \/ Arrive(r) \/ RefuseUnconfigured(r) \/ FindMember(r) \/ UploadPhoto(r)
    \/ RefuseWithoutPhoto(r) \/ GetNonce(r) \/ EstimateGas(r) \/ BroadcastStale(r)
    \/ Confirm(r) \/ CallFails(r)

\* The entries of a queue that was extended by one.
LEMMA AppendEntries ==
  ASSUME NEW S, NEW queue \in Seq(S), NEW x \in S
  PROVE  /\ Append(queue, x) \in Seq(S)
         /\ Len(Append(queue, x)) = Len(queue) + 1
         /\ DOMAIN Append(queue, x) = DOMAIN queue \cup {Len(queue) + 1}
         /\ Append(queue, x)[Len(queue) + 1] = x
         /\ \A i \in DOMAIN queue : Append(queue, x)[i] = queue[i]
  OBVIOUS

\* Every step is one of six kinds.
LEMMA StepKinds ==
  ASSUME [Next]_vars
  PROVE  \/ DeployElectionContract
         \/ \E r \in Requests : ServerStep(r)
         \/ \E r \in Requests : Broadcast(r) \/ BroadcastUnanswered(r)
         \/ Restart
         \/ MineNext
         \/ UNCHANGED vars
  BY DEF Next, Handle, ServerStep

\* A transaction of the queue is executed as one of the contract's methods.
LEMMA ExecuteIsContractStep ==
  ASSUME ContractTypeOK, NEW c \in Call, WellFormed(c), Execute(c),
         UploadsFirst(c) => c.photo \in Photos /\ c.partyId \in Parties
  PROVE  ContractNext
<1> USE DEF Execute
<1>1. c.candidateId \in 0..MaxCandidates /\ candidatesCount \in 0..MaxCandidates
  BY DEF Call, ContractTypeOK
<1>2. Exists(c.candidateId) => c.candidateId \in Ids
  BY <1>1, ContractAssumption DEF Exists, Ids
<1>3. CASE c.op = "vote" /\ vote(c.candidateId, voterHash[c.voter])
  <2>1. c.candidateId \in Ids
    BY <1>2, <1>3 DEF vote, CanVote
  <2>2. voterHash[c.voter] \in Hashes
    BY <1>3, ServiceAssumption DEF WellFormed, Call
  <2>3. QED
    BY <1>3, <2>1, <2>2 DEF ContractNext
<1>4. CASE c.op = "add" /\ addCandidate(c.photo, c.partyId)
  BY <1>4 DEF UploadsFirst, ContractNext
<1>5. CASE c.op = "update" /\ updateCandidate(c.candidateId, c.photo, c.partyId)
  BY <1>2, <1>5 DEF updateCandidate, CanEdit, UploadsFirst, ContractNext
<1>6. CASE c.op = "delete" /\ deleteCandidate(c.candidateId)
  BY <1>2, <1>6 DEF deleteCandidate, CanEdit, ContractNext
<1>7. CASE c.op = "end" /\ endElection
  BY <1>7 DEF ContractNext
<1>8. QED
  BY <1>3, <1>4, <1>5, <1>6, <1>7

\* The transaction MineNext executes: its request, and what is known of it.
LEMMA NextTransaction ==
  ASSUME TypeOK, CallsAreReady, QueueIsSound, mined < Len(txs)
  PROVE  LET r == txs[mined + 1]
         IN  /\ r \in Requests
             /\ Accepted(r)
             /\ step[r] # "idle"
             /\ receipt[r] = "none"
             /\ args[r] \in Call
             /\ WellFormed(args[r])
             /\ UploadsFirst(args[r]) => args[r].photo \in pinned /\ args[r].partyId \in Parties
<1> DEFINE r == txs[mined + 1]
<1>1. mined + 1 \in DOMAIN txs /\ r \in Requests
  BY DEF TypeOK
<1>2. Accepted(r)
  BY <1>1 DEF Accepted
<1>3. step[r] # "idle" /\ receipt[r] = "none"
  <2>1. ~(mined + 1 <= mined)
    BY DEF TypeOK
  <2>2. QED
    BY <1>1, <1>2, <2>1 DEF QueueIsSound
<1>4. QED
  BY <1>1, <1>2, <1>3 DEF CallsAreReady, Committed

\* The server drives the contract through its methods only.
LEMMA ServiceContractStep ==
  ASSUME TypeOK, CallsAreReady, QueueIsSound, [Next]_vars
  PROVE  [ContractNext]_contractVars
<1>1. CASE MineNext
  <2> DEFINE r == txs[mined + 1]
  <2>1. CASE Executable(args[r])
    <3>1. Execute(args[r]) /\ mined < Len(txs)
      BY <1>1, <2>1 DEF MineNext
    <3>2. QED
      BY <3>1, NextTransaction, ExecuteIsContractStep DEF TypeOK
  <2>2. CASE ~Executable(args[r])
    BY <1>1, <2>2 DEF MineNext
  <2>3. QED
    BY <2>1, <2>2
<1>2. CASE ~MineNext
  <2>1. UNCHANGED contractVars
    BY <1>2, StepKinds DEF DeployElectionContract, ServerStep, Arrive, RefuseUnconfigured,
       FindMember, UploadPhoto, RefuseWithoutPhoto, GetNonce, EstimateGas, BroadcastStale,
       Confirm, CallFails, Broadcast, BroadcastUnanswered, Restart, vars
  <2>2. QED
    BY <2>1
<1>3. QED
  BY <1>1, <1>2

-----------------------------------------------------------------------------
\* Every step keeps the types.
LEMMA StepServiceTypeOK ==
  ASSUME TypeOK, CallsAreReady, QueueIsSound, [Next]_vars
  PROVE  TypeOK'
<1> USE DEF TypeOK
<1>1. ContractTypeOK'
  BY ServiceContractStep, StepTypeOK
<1>2. CASE DeployElectionContract
  BY <1>1, <1>2 DEF DeployElectionContract, chainVars
<1>3. ASSUME NEW r \in Requests, ServerStep(r)
      PROVE  TypeOK'
  <2> USE DEF chainVars, GoTo, Answer, Steps, InFlight, Results
  <2>1. CASE Arrive(r)
    <3>1. args' \in [Requests -> Call \cup {NoCall}]
      <4>1. PICK c \in Call : args' = [args EXCEPT ![r] = c]
        BY <2>1 DEF Arrive
      <4>2. QED
        BY <4>1
    <3>2. QED
      BY <1>1, <2>1, <3>1 DEF Arrive
  <2>2. CASE RefuseUnconfigured(r)
    BY <1>1, <2>2 DEF RefuseUnconfigured
  <2>3. CASE FindMember(r)
    BY <1>1, <2>3 DEF FindMember
  <2>4. CASE UploadPhoto(r)
    <3>1. args[r].photo \in Photos
      <4>1. args[r] \in Call
        BY <2>4 DEF UploadPhoto, CallsAreReady
      <4>2. QED
        BY <2>4, <4>1 DEF UploadPhoto, Call
    <3>2. QED
      BY <1>1, <2>4, <3>1 DEF UploadPhoto
  <2>5. CASE RefuseWithoutPhoto(r)
    BY <1>1, <2>5 DEF RefuseWithoutPhoto
  <2>6. CASE GetNonce(r)
    BY <1>1, <2>6 DEF GetNonce
  <2>7. CASE EstimateGas(r)
    BY <1>1, <2>7 DEF EstimateGas
  <2>8. CASE BroadcastStale(r)
    BY <1>1, <2>8 DEF BroadcastStale
  <2>9. CASE Confirm(r)
    BY <1>1, <2>9 DEF Confirm
  <2>10. CASE CallFails(r)
    BY <1>1, <2>10 DEF CallFails
  <2>11. QED
    BY <1>3, <2>1, <2>2, <2>3, <2>4, <2>5, <2>6, <2>7, <2>8, <2>9, <2>10 DEF ServerStep
<1>4. ASSUME NEW r \in Requests, Broadcast(r) \/ BroadcastUnanswered(r)
      PROVE  TypeOK'
  <2>1. txs' \in Seq(Requests) /\ Len(txs') = Len(txs) + 1
    <3>1. txs' = Append(txs, r) /\ txs \in Seq(Requests)
      BY <1>4 DEF Broadcast, BroadcastUnanswered
    <3>2. QED
      BY <3>1
  <2>2. mined' \in 0..Len(txs')
    BY <1>4, <2>1 DEF Broadcast, BroadcastUnanswered
  <2>3. QED
    BY <1>1, <1>4, <2>1, <2>2
       DEF Broadcast, BroadcastUnanswered, GoTo, Answer, Steps, InFlight, Results
<1>5. CASE Restart
  BY <1>1, <1>5 DEF Restart, chainVars, Steps
<1>6. CASE MineNext
  <2>1. txs[mined + 1] \in Requests /\ mined + 1 \in 0..Len(txs)
    BY <1>6 DEF MineNext
  <2>2. QED
    BY <1>1, <1>6, <2>1 DEF MineNext, serverVars
<1>7. CASE UNCHANGED vars
  BY <1>1, <1>7 DEF vars, serverVars, chainVars
<1>8. QED
  BY <1>2, <1>3, <1>4, <1>5, <1>6, <1>7, StepKinds

\* Only its own broadcast gives a request a transaction.
LEMMA StepAccepted ==
  ASSUME TypeOK, [Next]_vars, NEW r \in Requests,
         ~(Broadcast(r) \/ BroadcastUnanswered(r))
  PROVE  Accepted(r)' <=> Accepted(r)
<1> USE DEF Accepted, TypeOK
<1>1. ASSUME NEW q \in Requests, Broadcast(q) \/ BroadcastUnanswered(q)
      PROVE  Accepted(r)' <=> Accepted(r)
  <2>1. q # r /\ txs' = Append(txs, q)
    BY <1>1 DEF Broadcast, BroadcastUnanswered
  <2>2. DOMAIN txs' = DOMAIN txs \cup {Len(txs) + 1} /\ txs'[Len(txs) + 1] = q
    BY <2>1, AppendEntries
  <2>3. \A i \in DOMAIN txs : txs'[i] = txs[i]
    BY <2>1, AppendEntries
  <2>4. QED
    BY <2>1, <2>2, <2>3
<1>2. CASE ~\E q \in Requests : Broadcast(q) \/ BroadcastUnanswered(q)
  <2>1. UNCHANGED txs
    BY <1>2, StepKinds DEF DeployElectionContract, ServerStep, Arrive, RefuseUnconfigured,
       FindMember, UploadPhoto, RefuseWithoutPhoto, GetNonce, EstimateGas, BroadcastStale,
       Confirm, CallFails, Restart, MineNext, vars, chainVars
  <2>2. QED
    BY <2>1
<1>3. QED
  BY <1>1, <1>2

\* A request is complete and its photo is uploaded before a transaction of it
\* is prepared.
LEMMA StepCallsAreReady ==
  ASSUME TypeOK, CallsAreReady, QueueIsSound, [Next]_vars
  PROVE  CallsAreReady'
<1> DEFINE Ready(q) == /\ args[q] \in Call
                       /\ WellFormed(args[q])
                       /\ Committed(q) /\ UploadsFirst(args[q]) =>
                             args[q].photo \in pinned /\ args[q].partyId \in Parties
<1> SUFFICES ASSUME NEW q \in Requests, step'[q] # "idle"
             PROVE  Ready(q)'
  BY DEF CallsAreReady
<1>1. step[q] # "idle" => Ready(q)
  BY DEF CallsAreReady
<1>2. Accepted(q) => step[q] \in {"wait", "done", "lost"}
  BY DEF QueueIsSound
<1>3. /\ args \in [Requests -> Call \cup {NoCall}]
      /\ step \in [Requests -> Steps]
  BY DEF TypeOK
<1>4. ASSUME NEW r \in Requests, ServerStep(r)
      PROVE  Ready(q)'
  <2>1. Accepted(q)' <=> Accepted(q)
    <3>1. ~(Broadcast(q) \/ BroadcastUnanswered(q))
      BY <1>4, <1>3 DEF ServerStep, Arrive, RefuseUnconfigured, FindMember, UploadPhoto,
         RefuseWithoutPhoto, GetNonce, EstimateGas, BroadcastStale, Confirm, CallFails,
         Broadcast, BroadcastUnanswered, GoTo, Answer, chainVars, TypeOK
    <3>2. QED
      BY <3>1, StepAccepted
  <2> USE <1>1, <1>2, <1>3, <2>1 DEF Committed, GoTo, Answer
  <2>2. CASE Arrive(r)
    <3>1. PICK c \in Call : WellFormed(c) /\ args' = [args EXCEPT ![r] = c]
      BY <2>2 DEF Arrive
    <3>2. CASE q = r
      BY <2>2, <3>1, <3>2 DEF Arrive
    <3>3. CASE q # r
      BY <2>2, <3>1, <3>3 DEF Arrive
    <3>4. QED
      BY <3>2, <3>3
  <2>3. CASE RefuseUnconfigured(r)
    BY <2>3 DEF RefuseUnconfigured
  <2>4. CASE FindMember(r)
    BY <2>4 DEF FindMember
  <2>5. CASE UploadPhoto(r)
    <3>1. CASE q = r
      <4>1. args[r].partyId \in Parties \cup {None}
        BY <2>5, <3>1 DEF UploadPhoto, Call
      <4>2. QED
        BY <2>5, <3>1, <4>1 DEF UploadPhoto
    <3>2. CASE q # r
      BY <2>5, <3>2 DEF UploadPhoto
    <3>3. QED
      BY <3>1, <3>2
  <2>6. CASE RefuseWithoutPhoto(r)
    BY <2>6 DEF RefuseWithoutPhoto
  <2>7. CASE GetNonce(r)
    BY <2>7 DEF GetNonce
  <2>8. CASE EstimateGas(r)
    BY <2>8 DEF EstimateGas
  <2>9. CASE BroadcastStale(r)
    BY <2>9 DEF BroadcastStale
  <2>10. CASE Confirm(r)
    BY <2>10 DEF Confirm
  <2>11. CASE CallFails(r)
    BY <2>11 DEF CallFails, InFlight
  <2>12. QED
    BY <1>4, <2>2, <2>3, <2>4, <2>5, <2>6, <2>7, <2>8, <2>9, <2>10, <2>11 DEF ServerStep
<1>5. ASSUME NEW r \in Requests, Broadcast(r) \/ BroadcastUnanswered(r)
      PROVE  Ready(q)'
  <2>1. CASE q = r
    BY <1>1, <1>3, <1>5, <2>1 DEF Broadcast, BroadcastUnanswered, Committed
  <2>2. CASE q # r
    <3>1. ~(Broadcast(q) \/ BroadcastUnanswered(q))
      BY <1>3, <1>5, <2>2 DEF Broadcast, BroadcastUnanswered, GoTo, Answer
    <3>2. Accepted(q)' <=> Accepted(q)
      BY <3>1, StepAccepted
    <3>3. QED
      BY <1>1, <1>3, <1>5, <2>2, <3>2
         DEF Broadcast, BroadcastUnanswered, GoTo, Answer, Committed
  <2>3. QED
    BY <2>1, <2>2
<1>6. CASE DeployElectionContract \/ Restart \/ MineNext \/ UNCHANGED vars
  <2>1. UNCHANGED <<args, pinned, txs>>
    BY <1>6 DEF DeployElectionContract, Restart, MineNext, vars, serverVars, chainVars
  <2>2. step'[q] = step[q] \/ (step'[q] = "lost" /\ step[q] # "idle")
    BY <1>3, <1>6 DEF DeployElectionContract, Restart, MineNext, vars, serverVars, InFlight
  <2>3. QED
    BY <1>1, <2>1, <2>2 DEF Committed, Accepted
<1>7. QED
  BY <1>4, <1>5, <1>6, StepKinds

\* A handler broadcasts once, and the chain executes the queue in order.
LEMMA StepQueueIsSound ==
  ASSUME TypeOK, CallsAreReady, QueueIsSound, [Next]_vars
  PROVE  QueueIsSound'
<1>1. /\ step \in [Requests -> Steps]
      /\ receipt \in [Requests -> {"none", "ok", "reverted"}]
      /\ txs \in Seq(Requests)
      /\ mined \in 0..Len(txs)
      /\ DOMAIN txs = 1..Len(txs)
  BY DEF TypeOK
<1>2. ASSUME NEW r \in Requests, ServerStep(r)
      PROVE  QueueIsSound'
  <2>1. UNCHANGED <<txs, mined, receipt>>
    BY <1>2 DEF ServerStep, Arrive, RefuseUnconfigured, FindMember, UploadPhoto,
       RefuseWithoutPhoto, GetNonce, EstimateGas, BroadcastStale, Confirm, CallFails, chainVars
  <2>2. \A q \in Requests : q # r => step'[q] = step[q]
    BY <1>1, <1>2 DEF ServerStep, Arrive, RefuseUnconfigured, FindMember, UploadPhoto,
       RefuseWithoutPhoto, GetNonce, EstimateGas, BroadcastStale, Confirm, CallFails,
       GoTo, Answer
  <2>3. step'[r] # "wait" /\ (step[r] \in {"wait", "done", "lost"} => step'[r] = "done")
    BY <1>1, <1>2 DEF ServerStep, Arrive, RefuseUnconfigured, FindMember, UploadPhoto,
       RefuseWithoutPhoto, GetNonce, EstimateGas, BroadcastStale, Confirm, CallFails,
       GoTo, Answer
  <2>4. \A q \in Requests : Accepted(q)' <=> Accepted(q)
    BY <2>1 DEF Accepted
  <2>5. QED
    BY <2>1, <2>2, <2>3, <2>4 DEF QueueIsSound
<1>3. ASSUME NEW r \in Requests, Broadcast(r) \/ BroadcastUnanswered(r)
      PROVE  QueueIsSound'
  <2>1. /\ txs' = Append(txs, r)
        /\ UNCHANGED <<mined, receipt>>
        /\ step[r] = "send"
        /\ step'[r] \in {"wait", "done"}
        /\ \A q \in Requests : q # r => step'[q] = step[q]
    BY <1>1, <1>3 DEF Broadcast, BroadcastUnanswered, GoTo, Answer
  <2>2. /\ DOMAIN txs' = DOMAIN txs \cup {Len(txs) + 1}
        /\ txs'[Len(txs) + 1] = r
        /\ \A i \in DOMAIN txs : txs'[i] = txs[i]
    BY <1>1, <2>1, AppendEntries
  <2>3. ~Accepted(r) /\ receipt[r] = "none"
    BY <1>1, <2>1 DEF QueueIsSound
  <2>4. \A q \in Requests : Accepted(q)' <=> Accepted(q) \/ q = r
    BY <2>2 DEF Accepted
  <2>5. \A i, j \in DOMAIN txs' : txs'[i] = txs'[j] => i = j
    BY <2>2, <2>3 DEF QueueIsSound, Accepted
  <2>6. \A i \in DOMAIN txs' : i <= mined' <=> receipt'[txs'[i]] # "none"
    <3> TAKE i \in DOMAIN txs'
    <3>1. CASE i \in DOMAIN txs
      BY <2>1, <2>2, <3>1 DEF QueueIsSound
    <3>2. CASE i = Len(txs) + 1
      BY <1>1, <2>1, <2>2, <2>3, <3>2
    <3>3. QED
      BY <2>2, <3>1, <3>2
  <2>7. QED
    BY <2>1, <2>4, <2>5, <2>6 DEF QueueIsSound
<1>4. CASE MineNext
  <2> DEFINE r == txs[mined + 1]
  <2>1. /\ mined + 1 \in DOMAIN txs
        /\ mined' = mined + 1
        /\ UNCHANGED <<txs, step>>
        /\ r \in Requests
    BY <1>1, <1>4 DEF MineNext, serverVars
  <2>2. receipt'[r] # "none" /\ \A q \in Requests : q # r => receipt'[q] = receipt[q]
    BY <1>1, <1>4, <2>1 DEF MineNext
  <2>3. \A q \in Requests : Accepted(q)' <=> Accepted(q)
    BY <2>1 DEF Accepted
  <2>4. \A i \in DOMAIN txs' : i <= mined' <=> receipt'[txs'[i]] # "none"
    <3> TAKE i \in DOMAIN txs'
    <3>1. CASE i = mined + 1
      BY <1>1, <2>1, <2>2, <3>1
    <3>2. CASE i # mined + 1
      <4>1. txs[i] # r /\ txs[i] \in Requests
        BY <1>1, <2>1, <3>2 DEF QueueIsSound
      <4>2. i <= mined' <=> i <= mined
        BY <1>1, <2>1, <3>2
      <4>3. QED
        BY <2>1, <2>2, <4>1, <4>2 DEF QueueIsSound
    <3>3. QED
      BY <3>1, <3>2
  <2>5. Accepted(r)
    BY <2>1 DEF Accepted
  <2>6. QED
    BY <2>1, <2>2, <2>3, <2>4, <2>5 DEF QueueIsSound
<1>5. CASE DeployElectionContract \/ UNCHANGED vars
  BY <1>5 DEF DeployElectionContract, vars, serverVars, chainVars, QueueIsSound, Accepted
<1>6. CASE Restart
  BY <1>1, <1>6 DEF Restart, chainVars, QueueIsSound, Accepted, InFlight
<1>7. QED
  BY <1>2, <1>3, <1>4, <1>5, <1>6, StepKinds

\* An answer is given once, and says of the transaction what it should.
LEMMA StepAnswersAreSound ==
  ASSUME TypeOK, CallsAreReady, QueueIsSound, AnswersAreSound, [Next]_vars
  PROVE  AnswersAreSound'
<1> SUFFICES ASSUME NEW q \in Requests
             PROVE  /\ step'[q] # "done" => result'[q] = "none"
                    /\ result'[q] = "ok" => receipt'[q] = "ok"
                    /\ result'[q] \in {"refused", "stale"} => ~Accepted(q)'
                    /\ result'[q] = "reverted" => receipt'[q] = "reverted" \/ ~Accepted(q)'
  BY DEF AnswersAreSound
<1>1. /\ step[q] # "done" => result[q] = "none"
      /\ result[q] = "ok" => receipt[q] = "ok"
      /\ result[q] \in {"refused", "stale"} => ~Accepted(q)
      /\ result[q] = "reverted" => receipt[q] = "reverted" \/ ~Accepted(q)
  BY DEF AnswersAreSound
<1>2. /\ step \in [Requests -> Steps]
      /\ result \in [Requests -> Results]
      /\ receipt \in [Requests -> {"none", "ok", "reverted"}]
  BY DEF TypeOK
<1>3. Accepted(q) => step[q] \in {"wait", "done", "lost"}
  BY DEF QueueIsSound
<1> DEFINE Claim == /\ step'[q] # "done" => result'[q] = "none"
                    /\ result'[q] = "ok" => receipt'[q] = "ok"
                    /\ result'[q] \in {"refused", "stale"} => ~Accepted(q)'
                    /\ result'[q] = "reverted" => receipt'[q] = "reverted" \/ ~Accepted(q)'
<1>4. ASSUME NEW r \in Requests, ServerStep(r)
      PROVE  Claim
  <2>1. UNCHANGED <<txs, receipt>>
    BY <1>4 DEF ServerStep, Arrive, RefuseUnconfigured, FindMember, UploadPhoto,
       RefuseWithoutPhoto, GetNonce, EstimateGas, BroadcastStale, Confirm, CallFails, chainVars
  <2>2. Accepted(q)' <=> Accepted(q)
    BY <2>1 DEF Accepted
  <2>3. CASE Confirm(r)
    BY <1>1, <1>2, <1>3, <2>1, <2>2, <2>3 DEF Confirm, Answer
  <2>4. CASE ~Confirm(r)
    BY <1>1, <1>2, <1>3, <1>4, <2>1, <2>2, <2>4
       DEF ServerStep, Arrive, RefuseUnconfigured, FindMember, UploadPhoto,
       RefuseWithoutPhoto, GetNonce, EstimateGas, BroadcastStale, CallFails, GoTo, Answer
  <2>5. QED
    BY <2>3, <2>4
<1>5. ASSUME NEW r \in Requests, Broadcast(r) \/ BroadcastUnanswered(r)
      PROVE  Claim
  <2>1. CASE q = r
    BY <1>1, <1>2, <1>5, <2>1 DEF Broadcast, BroadcastUnanswered, GoTo, Answer
  <2>2. CASE q # r
    <3>1. ~(Broadcast(q) \/ BroadcastUnanswered(q))
      BY <1>2, <1>5, <2>2 DEF Broadcast, BroadcastUnanswered, GoTo, Answer
    <3>2. Accepted(q)' <=> Accepted(q)
      BY <3>1, StepAccepted
    <3>3. QED
      BY <1>1, <1>2, <1>5, <2>2, <3>2 DEF Broadcast, BroadcastUnanswered, GoTo, Answer
  <2>3. QED
    BY <2>1, <2>2
<1>6. CASE MineNext
  <2> DEFINE r == txs[mined + 1]
  <2>1. UNCHANGED <<step, result, txs>> /\ (Accepted(q)' <=> Accepted(q))
    BY <1>6 DEF MineNext, serverVars, Accepted
  <2>2. r \in Requests /\ receipt[r] = "none" /\ Accepted(r)
    BY <1>6, NextTransaction DEF MineNext
  <2>3. q # r => receipt'[q] = receipt[q]
    BY <1>2, <1>6, <2>2 DEF MineNext
  <2>4. QED
    BY <1>1, <2>1, <2>2, <2>3
<1>7. CASE DeployElectionContract \/ UNCHANGED vars
  BY <1>1, <1>7 DEF DeployElectionContract, vars, serverVars, chainVars, Accepted
<1>8. CASE Restart
  BY <1>1, <1>2, <1>8 DEF Restart, chainVars, Accepted, InFlight
<1>9. QED
  BY <1>4, <1>5, <1>6, <1>7, <1>8, StepKinds
-----------------------------------------------------------------------------
\* Only MineNext touches the contract, and gives a receipt.
LEMMA ServerStepFrame ==
  ASSUME TypeOK, [Next]_vars, ~MineNext
  PROVE  /\ UNCHANGED <<contractVars, receipt>>
         /\ \A r \in Requests : step[r] # "idle" => args'[r] = args[r]
         /\ pinned \subseteq pinned'
<1>1. args \in [Requests -> Call \cup {NoCall}]
  BY DEF TypeOK
<1>2. UNCHANGED <<contractVars, receipt>>
  BY StepKinds DEF DeployElectionContract, ServerStep, Arrive, RefuseUnconfigured,
     FindMember, UploadPhoto, RefuseWithoutPhoto, GetNonce, EstimateGas, BroadcastStale,
     Confirm, CallFails, Broadcast, BroadcastUnanswered, Restart, vars, chainVars
<1>3. \A r \in Requests : step[r] # "idle" => args'[r] = args[r]
  <2>1. ASSUME NEW q \in Requests, Arrive(q)
        PROVE  \A r \in Requests : step[r] # "idle" => args'[r] = args[r]
    BY <1>1, <2>1 DEF Arrive
  <2>2. ASSUME ~\E q \in Requests : Arrive(q)
        PROVE  UNCHANGED args
    BY <2>2, StepKinds DEF DeployElectionContract, ServerStep, RefuseUnconfigured,
       FindMember, UploadPhoto, RefuseWithoutPhoto, GetNonce, EstimateGas, BroadcastStale,
       Confirm, CallFails, Broadcast, BroadcastUnanswered, Restart, vars, serverVars
  <2>3. QED
    BY <2>1, <2>2
<1>4. pinned \subseteq pinned'
  BY StepKinds DEF DeployElectionContract, ServerStep, Arrive, RefuseUnconfigured,
     FindMember, UploadPhoto, RefuseWithoutPhoto, GetNonce, EstimateGas, BroadcastStale,
     Confirm, CallFails, Broadcast, BroadcastUnanswered, Restart, vars, serverVars
<1>5. QED
  BY <1>2, <1>3, <1>4

\* Whatever is executed: no ballot is lost, and an election stays ended.
LEMMA ContractIsMonotonic ==
  ASSUME ContractInv, [ContractNext]_contractVars
  PROVE  Ballots \subseteq Ballots' /\ (electionEnded => electionEnded')
<1>1. Ballots \subseteq Ballots'
  <2>1. CASE \E id \in Ids, h \in Hashes : vote(id, h)
    BY <2>1, VoteBallots DEF ContractInv
  <2>2. CASE ~\E id \in Ids, h \in Hashes : vote(id, h)
    <3>1. UNCHANGED voteAudits
      BY <2>2, OtherBallots DEF ContractInv
    <3>2. QED
      BY <3>1 DEF Ballots, AuditedHashes
  <2>3. QED
    BY <2>1, <2>2
<1>2. electionEnded => electionEnded'
  BY DEF ContractNext, contractVars, vote, addCandidate, updateCandidate,
     deleteCandidate, endElection
<1>3. QED
  BY <1>1, <1>2

\* The execution of a vote adds the ballot its request asked for, of a hash
\* without one; the execution of anything else adds none.
LEMMA ExecutedBallot ==
  ASSUME ContractInv, NEW c \in Call, WellFormed(c), Execute(c)
  PROVE  IF c.op = "vote"
         THEN /\ <<voterHash[c.voter], c.candidateId>> \in Ballots'
              /\ Ballots' = Ballots \cup {<<voterHash[c.voter], c.candidateId>>}
              /\ \A b \in Ballots : b[1] # voterHash[c.voter]
         ELSE Ballots' = Ballots
<1>1. CASE c.op = "vote"
  <2>1. vote(c.candidateId, voterHash[c.voter])
    BY <1>1 DEF Execute
  <2>2. c.candidateId \in Ids /\ voterHash[c.voter] \in Hashes
    BY <1>1, <2>1, ServiceAssumption, ContractAssumption
       DEF vote, CanVote, Exists, Ids, WellFormed, Call, ContractInv, ContractTypeOK
  <2>3. QED
    BY <1>1, <2>1, <2>2, VoteBallots DEF ContractInv
<1>2. CASE c.op # "vote"
  <2>1. UNCHANGED voteAudits
    BY <1>2 DEF Execute, addCandidate, updateCandidate, deleteCandidate, endElection
  <2>2. QED
    BY <1>2, <2>1 DEF Ballots, AuditedHashes
<1>3. QED
  BY <1>1, <1>2

\* The receipts, and the ballots, tell which requests were executed.
LEMMA StepReceiptsAreSound ==
  ASSUME ServiceInv, [Next]_vars
  PROVE  ReceiptsAreSound' /\ BallotsWereRequested'
<1> USE DEF ServiceInv
<1>1. [ContractNext]_contractVars
  BY ServiceContractStep
<1>2. Ballots \subseteq Ballots' /\ (electionEnded => electionEnded')
  BY <1>1, ContractIsMonotonic
<1>3. receipt \in [Requests -> {"none", "ok", "reverted"}]
  BY DEF TypeOK
<1>4. CASE ~MineNext
  <2>1. UNCHANGED <<contractVars, receipt>>
    BY <1>4, ServerStepFrame
  <2>2. \A r \in Requests : receipt[r] # "none" => args'[r] = args[r]
    BY <1>4, ServerStepFrame DEF QueueIsSound
  <2>3. Ballots' = Ballots
    BY <2>1 DEF contractVars, Ballots, AuditedHashes
  <2>4. \A r \in Requests, op \in AllOperations : Executed(r, op)' => Executed(r, op)
    BY <2>1, <2>2 DEF Executed
  <2>5. ReceiptsAreSound'
    BY <1>2, <2>1, <2>2, <2>3, <2>4 DEF ReceiptsAreSound, Executed, AllOperations
  <2>6. BallotsWereRequested'
    BY <2>1, <2>2, <2>3 DEF BallotsWereRequested
  <2>7. QED
    BY <2>5, <2>6
<1>5. CASE MineNext
  <2> DEFINE r == txs[mined + 1]
             c == args[r]
  <2>1. UNCHANGED args
    BY <1>5 DEF MineNext, serverVars
  <2>2. r \in Requests /\ c \in Call /\ WellFormed(c) /\ receipt[r] = "none"
    BY <1>5, NextTransaction DEF MineNext
  <2>3. \A q \in Requests : q # r => receipt'[q] = receipt[q]
    BY <1>3, <1>5, <2>2 DEF MineNext
  <2>4. CASE Executable(c)
    <3>1. Execute(c) /\ receipt'[r] = "ok"
      BY <1>3, <1>5, <2>2, <2>4 DEF MineNext
    <3>2. IF c.op = "vote"
          THEN /\ <<voterHash[c.voter], c.candidateId>> \in Ballots'
               /\ Ballots' = Ballots \cup {<<voterHash[c.voter], c.candidateId>>}
               /\ \A b \in Ballots : b[1] # voterHash[c.voter]
          ELSE Ballots' = Ballots
      BY <2>2, <3>1, ExecutedBallot
    <3>3. c.op = "end" => electionEnded'
      BY <3>1 DEF Execute, endElection
    <3>4. \A q \in Requests : Executed(q, "vote")' =>
             <<voterHash[args[q].voter], args[q].candidateId>> \in Ballots'
      BY <1>2, <2>1, <2>3, <3>2 DEF ReceiptsAreSound, Executed
    <3>5. \A p, q \in Requests :
             Executed(p, "vote")' /\ Executed(q, "vote")' /\ args[p].voter = args[q].voter
                => p = q
      <4>1. \A q \in Requests : q # r /\ Executed(q, "vote")' =>
               Executed(q, "vote") /\ <<voterHash[args[q].voter], args[q].candidateId>> \in Ballots
        BY <2>1, <2>3 DEF ReceiptsAreSound, Executed
      <4>2. \A q \in Requests : q # r /\ Executed(q, "vote")' /\ c.op = "vote"
               => args[q].voter # c.voter
        BY <3>2, <4>1
      <4>3. \A p, q \in Requests :
               Executed(p, "vote") /\ Executed(q, "vote") /\ args[p].voter = args[q].voter
                  => p = q
        BY DEF ReceiptsAreSound
      <4>4. QED
        BY <2>1, <4>1, <4>2, <4>3 DEF Executed
    <3>6. \A q \in Requests : Executed(q, "end")' => electionEnded'
      BY <1>2, <2>1, <2>3, <3>3 DEF ReceiptsAreSound, Executed
    <3>7. BallotsWereRequested'
      <4>1. ASSUME NEW b \in Ballots
            PROVE  \E q \in Requests : /\ args'[q].op = "vote"
                                       /\ voterHash[args'[q].voter] = b[1]
                                       /\ args'[q].candidateId = b[2]
                                       /\ receipt'[q] = "ok"
        BY <2>1, <2>2, <2>3 DEF BallotsWereRequested
      <4>2. ASSUME NEW b \in Ballots', b \notin Ballots
            PROVE  \E q \in Requests : /\ args'[q].op = "vote"
                                       /\ voterHash[args'[q].voter] = b[1]
                                       /\ args'[q].candidateId = b[2]
                                       /\ receipt'[q] = "ok"
        <5>1. c.op = "vote" /\ b = <<voterHash[c.voter], c.candidateId>>
          BY <3>2, <4>2
        <5>2. QED
          BY <2>1, <2>2, <3>1, <5>1
      <4>3. QED
        BY <4>1, <4>2 DEF BallotsWereRequested
    <3>8. QED
      BY <2>1, <3>4, <3>5, <3>6, <3>7 DEF ReceiptsAreSound
  <2>5. CASE ~Executable(c)
    <3>1. UNCHANGED contractVars /\ receipt'[r] = "reverted"
      BY <1>3, <1>5, <2>2, <2>5 DEF MineNext
    <3>2. Ballots' = Ballots
      BY <3>1 DEF contractVars, Ballots, AuditedHashes
    <3>3. \A q \in Requests : receipt'[q] = "ok" <=> receipt[q] = "ok"
      BY <2>2, <2>3, <3>1
    <3>4. ReceiptsAreSound'
      BY <1>2, <2>1, <3>2, <3>3 DEF ReceiptsAreSound, Executed
    <3>5. BallotsWereRequested'
      BY <2>1, <3>2, <3>3 DEF BallotsWereRequested
    <3>6. QED
      BY <3>4, <3>5
  <2>6. QED
    BY <2>4, <2>5
<1>6. QED
  BY <1>4, <1>5

\* A transaction that stores a photo was sent after the photo's upload.
LEMMA StepPhotosArePinned ==
  ASSUME ServiceInv, [Next]_vars
  PROVE  PhotosArePinned'
<1> USE DEF ServiceInv
<1>1. CASE ~MineNext
  BY <1>1, ServerStepFrame DEF contractVars, PhotosArePinned, Exists
<1>2. CASE MineNext
  <2> DEFINE c == args[txs[mined + 1]]
  <2>1. UNCHANGED pinned
    BY <1>2 DEF MineNext, serverVars
  <2>2. c \in Call /\ (UploadsFirst(c) => c.photo \in pinned)
    BY <1>2, NextTransaction DEF MineNext
  <2>3. /\ candidates \in [Ids -> Candidate]
        /\ candidatesCount \in 0..MaxCandidates
    BY DEF TypeOK, ContractTypeOK
  <2>4. Execute(c) \/ UNCHANGED contractVars
    BY <1>2 DEF MineNext
  <2> SUFFICES ASSUME NEW id \in Ids, id < candidatesCount'
               PROVE  candidates'[id].imgHash \in pinned
    BY <2>1 DEF PhotosArePinned, Exists
  <2>5. id < candidatesCount => candidates[id].imgHash \in pinned
    BY DEF PhotosArePinned, Exists
  <2>6. CASE c.op = "vote" /\ vote(c.candidateId, voterHash[c.voter])
    BY <2>3, <2>5, <2>6 DEF vote, Candidate
  <2>7. CASE c.op = "add" /\ addCandidate(c.photo, c.partyId)
    <3>1. CASE id = candidatesCount
      BY <2>2, <2>3, <2>7, <3>1 DEF addCandidate, NewCandidate, UploadsFirst
    <3>2. CASE id # candidatesCount
      <4>1. id < candidatesCount
        BY <2>3, <2>7, <3>2 DEF addCandidate, Ids
      <4>2. QED
        BY <2>3, <2>5, <2>7, <3>2, <4>1 DEF addCandidate
    <3>3. QED
      BY <3>1, <3>2
  <2>8. CASE c.op = "update" /\ updateCandidate(c.candidateId, c.photo, c.partyId)
    BY <2>2, <2>3, <2>5, <2>8 DEF updateCandidate, UploadsFirst, Candidate
  <2>9. CASE c.op = "delete" /\ deleteCandidate(c.candidateId)
    BY <2>3, <2>5, <2>9 DEF deleteCandidate, Candidate
  <2>10. CASE c.op = "end" /\ endElection
    BY <2>5, <2>10 DEF endElection
  <2>11. CASE UNCHANGED contractVars
    BY <2>5, <2>11 DEF contractVars
  <2>12. QED
    BY <2>4, <2>6, <2>7, <2>8, <2>9, <2>10, <2>11 DEF Execute
<1>3. QED
  BY <1>1, <1>2

\* The invariant holds when the server starts.
LEMMA ServiceInitInv == Init => ServiceInv
<1> SUFFICES ASSUME Init PROVE ServiceInv
  OBVIOUS
<1>1. ContractInv /\ Ballots = {}
  BY ContractInitInv, InitBallots DEF Init
<1>2. TypeOK
  BY <1>1, ContractAssumption DEF Init, TypeOK, ContractInv, Steps, Results
<1>3. \A r \in Requests : ~Accepted(r)
  BY DEF Init, Accepted
<1>4. CallsAreReady /\ QueueIsSound /\ AnswersAreSound
  BY <1>3 DEF Init, CallsAreReady, QueueIsSound, AnswersAreSound
<1>5. ReceiptsAreSound /\ BallotsWereRequested
  BY <1>1 DEF Init, ReceiptsAreSound, Executed, BallotsWereRequested
<1>6. PhotosArePinned
  BY DEF Init, ContractInit, PhotosArePinned, Exists, NewCandidate
<1>7. QED
  BY <1>1, <1>2, <1>4, <1>5, <1>6 DEF ServiceInv

\* Every step of the server or of the chain keeps it.
LEMMA ServiceStepInv == ServiceInv /\ [Next]_vars => ServiceInv'
<1> SUFFICES ASSUME ServiceInv, [Next]_vars PROVE ServiceInv'
  OBVIOUS
<1>1. TypeOK' /\ CallsAreReady' /\ QueueIsSound' /\ AnswersAreSound'
  BY StepServiceTypeOK, StepCallsAreReady, StepQueueIsSound, StepAnswersAreSound
     DEF ServiceInv
<1>2. ContractInv'
  BY ServiceContractStep, ContractStepInv DEF ServiceInv
<1>3. ReceiptsAreSound' /\ BallotsWereRequested' /\ PhotosArePinned'
  BY StepReceiptsAreSound, StepPhotosArePinned
<1>4. QED
  BY <1>1, <1>2, <1>3 DEF ServiceInv
-----------------------------------------------------------------------------
\* The invariant holds in every reachable state of the service.
THEOREM ServiceInvariant == Spec => []ServiceInv
  BY ServiceInitInv, ServiceStepInv, PTL DEF Spec

\* Type correctness of the server's and the contract's state.
THEOREM ServiceTypeCorrect == Spec => []TypeOK
<1>1. ServiceInv => TypeOK
  BY DEF ServiceInv
<1>2. QED
  BY <1>1, ServiceInvariant, PTL

\* vote: a vote that was answered with success is in the audit trail for ever.
THEOREM ConfirmedVotesCount == Spec => []ConfirmedVoteIsCounted
<1>1. ServiceInv => ConfirmedVoteIsCounted
  BY DEF ServiceInv, AnswersAreSound, ReceiptsAreSound, Executed,
     ConfirmedVoteIsCounted, Confirmed
<1>2. QED
  BY <1>1, ServiceInvariant, PTL

\* vote: of all repetitions of a voter's request, one is confirmed at most.
THEOREM ConfirmedOnce == Spec => []OneConfirmationPerVoter
<1>1. ServiceInv => OneConfirmationPerVoter
  BY DEF ServiceInv, AnswersAreSound, ReceiptsAreSound, Executed,
     OneConfirmationPerVoter, Confirmed
<1>2. QED
  BY <1>1, ServiceInvariant, PTL

\* vote: no ballot without a request of its voter for its candidate.
THEOREM NoInventedBallot == Spec => []BallotsWereRequested
<1>1. ServiceInv => BallotsWereRequested
  BY DEF ServiceInv
<1>2. QED
  BY <1>1, ServiceInvariant, PTL

\* All handlers: a refused, reverted or stale request leaves nothing behind.
THEOREM RefusalsAreDefinite == Spec => []RefusalIsDefinite
<1>1. ServiceInv => RefusalIsDefinite
  <2> SUFFICES ASSUME ServiceInv, NEW r \in Requests,
                      result[r] \in {"refused", "reverted", "stale"}
               PROVE  /\ receipt[r] # "ok"
                      /\ \A i \in (mined + 1)..Len(txs) : txs[i] # r
    BY DEF RefusalIsDefinite
  <2>1. ~Accepted(r) \/ receipt[r] = "reverted"
    BY DEF ServiceInv, AnswersAreSound
  <2>2. receipt[r] # "ok"
    BY <2>1 DEF ServiceInv, QueueIsSound
  <2>3. ASSUME NEW i \in (mined + 1)..Len(txs), txs[i] = r PROVE FALSE
    <3>1. i \in DOMAIN txs /\ ~(i <= mined)
      BY DEF ServiceInv, TypeOK
    <3>2. Accepted(r) /\ receipt[r] = "none"
      BY <2>3, <3>1 DEF ServiceInv, QueueIsSound, Accepted
    <3>3. QED
      BY <2>1, <3>2
  <2>4. QED
    BY <2>2, <2>3
<1>2. QED
  BY <1>1, ServiceInvariant, PTL

\* createCandidate, patchCandidate: no candidate points to a missing photo.
THEOREM CandidatePhotosPinned == Spec => []PhotosArePinned
<1>1. ServiceInv => PhotosArePinned
  BY DEF ServiceInv
<1>2. QED
  BY <1>1, ServiceInvariant, PTL

\* endElection: a confirmed end fixes the result, whatever is still queued.
THEOREM ConfirmedEndFixesResult == Spec => ResultIsFinal
<1> DEFINE Final == (\E r \in Requests : Confirmed(r, "end")) =>
                       UNCHANGED <<candidates, candidatesCount, voteAudits, totalVotes, hasVoted>>
<1>1. ServiceInv /\ [Next]_vars => [Final]_vars
  <2> SUFFICES ASSUME ServiceInv, [Next]_vars, NEW r \in Requests, Confirmed(r, "end")
               PROVE  UNCHANGED <<candidates, candidatesCount, voteAudits, totalVotes, hasVoted>>
    OBVIOUS
  <2>1. electionEnded
    BY DEF ServiceInv, AnswersAreSound, ReceiptsAreSound, Executed, Confirmed
  <2>2. [ContractNext]_contractVars
    BY ServiceContractStep DEF ServiceInv
  <2>3. QED
    BY <2>1, <2>2 DEF ContractNext, contractVars, vote, CanVote, addCandidate, CanAdd,
       updateCandidate, deleteCandidate, CanEdit, endElection
<1>2. QED
  BY <1>1, ServiceInvariant, PTL DEF Spec, ResultIsFinal

\* The server drives the contract as the contract's specification says, ...
THEOREM ServiceImplementsContract == Spec => ContractSpec
<1>1. Init => ContractInit
  BY DEF Init
<1>2. ServiceInv /\ [Next]_vars => [ContractNext]_contractVars
  BY ServiceContractStep DEF ServiceInv
<1>3. QED
  BY <1>1, <1>2, ServiceInvariant, PTL DEF Spec, ContractSpec

\* ... hence the whole service is a ballot box: with concurrent requests,
\* retries, lost answers and restarts it takes one ballot of a voter at most,
\* keeps each, and takes none after the end.
THEOREM ServiceImplementsBox == Spec => BoxSpec
  BY ServiceImplementsContract, ContractImplementsBox
=============================================================================
