--------------------------- MODULE CommunityVotes ---------------------------
(***************************************************************************)
(* The application's community proposals: a list in the browser's storage. *)
(* Every operation loads the list, checks and changes it, and saves it as  *)
(* a whole; a tab that saves between the two loses its change.             *)
(***************************************************************************)
EXTENDS Naturals
LOCAL INSTANCE Functions

CONSTANTS
  Browser,     \* the tabs
  Proposal, Voter,
  Weight,      \* the weight of a voter's vote
  Quorum, PassNum, PassDen   \* passingThreshold is PassNum / PassDen

ASSUME VotesAssumption ==
  /\ Weight \in [Voter -> Nat]
  /\ {Quorum, PassNum} \subseteq Nat /\ PassDen \in Nat \ {0}

VARIABLES
  proposals,   \* the stored list
  saving,      \* the lists each tab is about to save (none or one)
  ended        \* the proposals whose voting period is over

voteVars == <<proposals, saving, ended>>

VoteStatus == {"active", "passed", "rejected", "vetoed"}
VoteChoice == {"for", "against", "abstain"}

(* A voter has one vote at most: castVote replaces an earlier one.         *)
Votes == UNION {[W -> VoteChoice] : W \in SUBSET Voter}
List  == UNION {[S -> [status : VoteStatus, votes : Votes]] : S \in SUBSET Proposal}

VotesInit ==
  /\ proposals = <<>>
  /\ saving = [b \in Browser |-> {}]
  /\ ended = {}

-----------------------------------------------------------------------------
Tally(votes, c) == SumFunctionOnSet(Weight, {v \in DOMAIN votes : votes[v] = c})

(* tallyVotes: quorumMet counts abstentions, the threshold does not.       *)
Passes(votes) ==
  LET for      == Tally(votes, "for")
      decisive == for + Tally(votes, "against")
  IN /\ decisive + Tally(votes, "abstain") >= Quorum
     /\ decisive > 0
     /\ for * PassDen >= decisive * PassNum

(* Each operation leaves a changed list with its tab; save stores it.      *)
Prepare(b, list) ==
  /\ saving[b] = {}
  /\ saving' = [saving EXCEPT ![b] = {list}]
  /\ UNCHANGED <<proposals, ended>>

Put(p, record) ==
  [q \in DOMAIN proposals \cup {p} |-> IF q = p THEN record ELSE proposals[q]]

CreateProposal(b, p) ==
  /\ p \notin DOMAIN proposals /\ \A c \in Browser : \A l \in saving[c] : p \notin DOMAIN l
  /\ Prepare(b, Put(p, [status |-> "active", votes |-> <<>>]))

(* Mutant of CastVote: the status is not looked at.                        *)
CastVoteAnytime(b, p, v, c) ==
  /\ p \in DOMAIN proposals /\ p \notin ended
  /\ LET votes == proposals[p].votes
     IN Prepare(b, Put(p, [proposals[p] EXCEPT !.votes =
          [w \in DOMAIN votes \cup {v} |-> IF w = v THEN c ELSE votes[w]]]))

CastVote(b, p, v, c) ==
  /\ p \in DOMAIN proposals /\ p \notin ended
  /\ proposals[p].status = "active"
  /\ LET votes == proposals[p].votes
     IN Prepare(b, Put(p, [proposals[p] EXCEPT !.votes =
          [w \in DOMAIN votes \cup {v} |-> IF w = v THEN c ELSE votes[w]]]))

(* vetoProposal: a proposal that passed or was rejected as well            *)
VetoProposal(b, p) ==
  /\ p \in DOMAIN proposals /\ proposals[p].status # "vetoed"
  /\ Prepare(b, Put(p, [proposals[p] EXCEPT !.status = "vetoed"]))

(* finalizeProposal: at any time, whatever votingEndsAt says               *)
FinalizeProposal(b, p) ==
  /\ p \in DOMAIN proposals /\ proposals[p].status = "active"
  /\ Prepare(b, Put(p, [proposals[p] EXCEPT !.status =
       IF Passes(proposals[p].votes) THEN "passed" ELSE "rejected"]))

SaveProposals(b) ==
  /\ \E l \in saving[b] : proposals' = l
  /\ saving' = [saving EXCEPT ![b] = {}]
  /\ UNCHANGED ended

VotingEnds(p) ==
  /\ p \in DOMAIN proposals \ ended
  /\ ended' = ended \cup {p}
  /\ UNCHANGED <<proposals, saving>>

VotesNext ==
  \/ \E b \in Browser, p \in Proposal :
       \/ CreateProposal(b, p) \/ VetoProposal(b, p) \/ FinalizeProposal(b, p)
       \/ \E v \in Voter, c \in VoteChoice : CastVote(b, p, v, c)
  \/ \E b \in Browser : SaveProposals(b)
  \/ \E p \in Proposal : VotingEnds(p)

VotesSpec == VotesInit /\ [][VotesNext]_voteVars

-----------------------------------------------------------------------------
VotesTypeOK ==
  /\ proposals \in List
  /\ saving \in [Browser -> SUBSET List]
  /\ ended \subseteq Proposal

(* Although tabs overwrite each other's changes, a stored proposal never   *)
(* says passed or rejected of other votes than those it holds.             *)
PassedByVotes ==
  \A p \in DOMAIN proposals :
    /\ proposals[p].status = "passed" => Passes(proposals[p].votes)
    /\ proposals[p].status = "rejected" => ~Passes(proposals[p].votes)

=============================================================================
