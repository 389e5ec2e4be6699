----------------------------- MODULE RewardEpoch -----------------------------
(***************************************************************************)
(* What a reward epoch knows of its voters (RewardEpoch.ts): the maps      *)
(* between the addresses of a voter, made from the signing policy and the  *)
(* registrations, and what the reward calculation makes of them again from *)
(* its files (reward-epoch-info.ts, reward-calculation-data.ts).           *)
(*                                                                         *)
(* Events come with their addresses in lower case, so that comparing is    *)
(* equality.  A VoterRegistered event is [voter, epoch, signing, submit,   *)
(* submitSignatures], a VoterRegistrationInfo event [voter, epoch,         *)
(* delegation, weight].  A policy is [epoch, voters, weights] and lists    *)
(* signing addresses.                                                      *)
(***************************************************************************)
EXTENDS Integers, Sequences, SequencesExt, FiniteSetsExt, Functions

CONSTANT NoAddress   \* undefined

\* A Map set in the order of the keys.
MapOf(keys, Value(_)) ==
    [k \in ToSet(keys) |-> Value(Max({i \in DOMAIN keys : keys[i] = k}))]

Lookup(map, key) == IF key \in DOMAIN map THEN map[key] ELSE NoAddress

-----------------------------------------------------------------------------
\* getFullVoterRegistrationInfoEvents: both lists are sorted by voter, with
\* events of a voter left in their order, and put together by position.
ByVoter(events) ==
    LET order == SetToSortSeq(DOMAIN events,
            LAMBDA i, j : \/ events[i].voter < events[j].voter
                          \/ events[i].voter = events[j].voter /\ i < j)
    IN  [k \in DOMAIN order |-> events[order[k]]]

PairingThrows(registered, infos) ==
    \/ Len(registered) # Len(infos)
    \/ \E i \in DOMAIN registered : ByVoter(registered)[i].voter # ByVoter(infos)[i].voter

\* Mutant: the lists are put together as they come.
PairRegistrationsUnsorted(registered, infos) ==
    [i \in DOMAIN registered |-> [registered |-> registered[i], info |-> infos[i]]]

PairRegistrations(registered, infos) ==
    [i \in DOMAIN registered |->
        [registered |-> ByVoter(registered)[i], info |-> ByVoter(infos)[i]]]

-----------------------------------------------------------------------------
\* The errors of the constructor: an event of another reward epoch, or a voter
\* of the policy that nobody registered.
EpochThrows(policy, previousEpoch, otherEpochs, registrations) ==
    \/ policy.epoch # previousEpoch + 1
    \/ \E e \in otherEpochs : e # policy.epoch
    \/ \E r \in ToSet(registrations) :
          r.registered.epoch # policy.epoch \/ r.info.epoch # policy.epoch
    \/ \E v \in ToSet(policy.voters) :
          ~\E r \in ToSet(registrations) : r.registered.signing = v

\* The maps of the constructor.  All registrations are known by their voter;
\* the other maps are of the voters of the policy only.
MakeEpoch(policy, registrations) ==
    LET voterOfSigner ==
            MapOf([i \in DOMAIN registrations |-> registrations[i].registered.signing],
                  LAMBDA i : registrations[i].registered.voter)
        registrationOf ==
            MapOf([i \in DOMAIN registrations |-> registrations[i].registered.voter],
                  LAMBDA i : registrations[i])
        at(i) == registrationOf[voterOfSigner[policy.voters[i]]]
        submits == [i \in DOMAIN policy.voters |-> at(i).registered.submit]
        submitSignatures == [i \in DOMAIN policy.voters |-> at(i).registered.submitSignatures]
    IN  [policy |-> policy,
         voterToRegistrationInfo |-> registrationOf,
         orderedVotersSubmitAddresses |-> submits,
         orderedVotersSubmitSignatureAddresses |-> submitSignatures,
         totalSigningWeight |-> SumFunction(policy.weights),
         signingAddressToVotingPolicyIndex |-> MapOf(policy.voters, LAMBDA i : i - 1),
         signingAddressToVoter |-> MapOf(policy.voters, LAMBDA i : voterOfSigner[policy.voters[i]]),
         signingAddressToSubmitAddress |-> MapOf(policy.voters, LAMBDA i : submits[i]),
         signingAddressToDelegationAddress |-> MapOf(policy.voters, LAMBDA i : at(i).info.delegation),
         signingAddressToSigningWeight |-> MapOf(policy.voters, LAMBDA i : policy.weights[i]),
         submitAddressToVoter |-> MapOf(submits, LAMBDA i : at(i).registered.voter),
         submitAddressToCappedWeight |-> MapOf(submits, LAMBDA i : at(i).info.weight),
         submitAddressToVoterRegistrationInfo |-> MapOf(submits, at),
         submitSignatureAddressToSigningAddress |->
             MapOf(submitSignatures, LAMBDA i : at(i).registered.signing),
         submitSignatureAddressToVoter |->
             MapOf(submitSignatures, LAMBDA i : at(i).registered.voter),
         delegationAddressToCappedWeight |->
             MapOf([i \in DOMAIN policy.voters |-> at(i).info.delegation],
                   LAMBDA i : at(i).info.weight)]

-----------------------------------------------------------------------------
\* The lookups.
SubmitSignatureOfSubmit(epoch, submit) ==
    LET r == Lookup(epoch.submitAddressToVoterRegistrationInfo, submit)
    IN  IF r = NoAddress THEN NoAddress ELSE r.registered.submitSignatures

SubmitOfSubmitSignature(epoch, submitSignature) ==
    LET v == Lookup(epoch.submitSignatureAddressToVoter, submitSignature)
    IN  IF v = NoAddress THEN NoAddress ELSE epoch.voterToRegistrationInfo[v].registered.submit

SigningOfSubmitSignature(epoch, submitSignature) ==
    Lookup(epoch.submitSignatureAddressToSigningAddress, submitSignature)

WeightOfSubmitSignature(epoch, submitSignature) ==
    LET v == Lookup(epoch.submitSignatureAddressToVoter, submitSignature)
    IN  IF v = NoAddress THEN NoAddress
        ELSE Lookup(epoch.signingAddressToSigningWeight,
                    epoch.voterToRegistrationInfo[v].registered.signing)

RegistrationOfSigner(epoch, signer) ==
    LET v == Lookup(epoch.signingAddressToVoter, signer)
    IN  IF v = NoAddress THEN NoAddress ELSE epoch.voterToRegistrationInfo[v]

VoterWeights(registration, signingWeight) ==
    [identity |-> registration.registered.voter, submit |-> registration.registered.submit,
     signing |-> registration.registered.signing, delegation |-> registration.info.delegation,
     weight |-> registration.info.weight, signingWeight |-> signingWeight]

\* getVotersWeights.
VotersWeights(epoch) ==
    MapOf(epoch.orderedVotersSubmitAddresses,
          LAMBDA i : VoterWeights(
              epoch.submitAddressToVoterRegistrationInfo[epoch.orderedVotersSubmitAddresses[i]],
              epoch.policy.weights[i]))

-----------------------------------------------------------------------------
\* Mutant: registrations are stored in the order of their voters.
StoredRegistrationsByVoter(epoch) ==
    LET order == SetToSortSeq(ToSet([i \in DOMAIN epoch.policy.voters |->
                                 epoch.signingAddressToVoter[epoch.policy.voters[i]]]), <)
    IN  [k \in DOMAIN order |-> epoch.voterToRegistrationInfo[order[k]]]

\* getRewardEpochInfo: the registrations of the epoch's file.
StoredRegistrations(epoch) ==
    [i \in DOMAIN epoch.policy.voters |->
        epoch.voterToRegistrationInfo[epoch.signingAddressToVoter[epoch.policy.voters[i]]]]

\* augmentDataForCalculation: the maps made again from the epoch's file and the
\* list of submit addresses in the file of the round.
Augmented(policy, registrations, submits) ==
    [totalSigningWeight |-> SumFunction(policy.weights),
     signingAddressToSubmitAddress |-> MapOf(policy.voters, LAMBDA i : submits[i]),
     signerToSigningWeight |-> MapOf(policy.voters, LAMBDA i : policy.weights[i]),
     votersWeightsMap |->
        MapOf([i \in DOMAIN registrations |-> registrations[i].registered.submit],
              LAMBDA i : VoterWeights(registrations[i], policy.weights[i]))]
=============================================================================
