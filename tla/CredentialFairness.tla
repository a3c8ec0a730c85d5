-------------------------- MODULE CredentialFairness --------------------------
(***************************************************************************)
(* The fair ledger of one channel (availability/credential_fair.go): which *)
(* of the channel's credentials the next attempt uses.                     *)
(*                                                                         *)
(* A caller brings the credentials it may use, as its snapshot of the      *)
(* channel shows them: a subset of the key IDs, each with a revision that  *)
(* may already be superseded, and the sticky key it prefers, if any.  The  *)
(* ledger's mutex makes one selection one step.  A selector that fetched a *)
(* ledger just before ResetChannel dropped it charges a ledger nobody     *)
(* else will read, which is the same as selecting before the reset.        *)
(***************************************************************************)
EXTENDS Naturals, FiniteSets

CONSTANTS
  KeyIDs,            \* key IDs
  Revisions,       \* the revisions callers see; 0 is a key from before revisions
  Preferences,     \* the sticky keys callers bring; 0 is none
  MaxConsecutive,  \* credentialMaxConsecutive
  MaxSelections    \* bound: selections before the ledger is reset

ASSUME FairnessAssumption ==
  /\ KeyIDs \subseteq Nat \ {0} /\ IsFiniteSet(KeyIDs)
  /\ Revisions \subseteq Nat
  /\ Preferences \subseteq KeyIDs \cup {0}
  /\ MaxConsecutive \in Nat \ {0} /\ MaxSelections \in Nat

VARIABLES
  members,      \* [KeyIDs -> [revision, progress, lastSelected, eligible]]
  watermark, sequence, lastMember, consecutive,
  streak,       \* history: the last identities selected in a row
  sticky        \* history: whether a preference decided since the ledger began

ledgerVars == <<members, watermark, sequence, lastMember, consecutive>>
fairVars == <<ledgerVars, streak, sticky>>

\* No member has revision 0: normalizeCredentialRevision.
Absent == [revision |-> 0, progress |-> 0, lastSelected |-> 0, eligible |-> FALSE]

\* A ledger that was dropped and one just created look the same.
FairInit ==
  /\ members = [k \in KeyIDs |-> Absent]
  /\ watermark = 0 /\ sequence = 0 /\ lastMember = 0 /\ consecutive = 0
  /\ streak = [key |-> 0, revision |-> 0, length |-> 0, free |-> FALSE]
  /\ sticky = FALSE

CandidateSets == UNION {[S -> Revisions] : S \in (SUBSET KeyIDs) \ {{}}}

\* Faulty variant: keys from before revisions keep revision 0.
keepCredentialRevision(r) == r

normalizeCredentialRevision(r) == IF r = 0 THEN 1 ELSE r

Known(k, r) == members[k].revision = normalizeCredentialRevision(r)

-----------------------------------------------------------------------------
(* The order of selection *)

\* credentialFairLess, credentialFairPreviewLess
Less(rank, i, j) ==
  \/ rank[i].progress < rank[j].progress
  \/ /\ rank[i].progress = rank[j].progress
     /\ \/ rank[i].lastSelected < rank[j].lastSelected
        \/ rank[i].lastSelected = rank[j].lastSelected /\ i < j

Fairest(rank, S) == CHOOSE i \in S : \A j \in S \ {i} : Less(rank, i, j)

\* Faulty variant: the guard lets one allocation too many through.
TurnOneTooMany(rank, S, last, run) ==
  LET first == Fairest(rank, S)
  IN  IF S # {first} /\ last = first /\ run > MaxConsecutive
      THEN Fairest(rank, S \ {first}) ELSE first

\* Whose turn it is, unless that one has just had MaxConsecutive turns in a row.
Turn(rank, S, last, run) ==
  LET first == Fairest(rank, S)
  IN  IF S # {first} /\ last = first /\ run >= MaxConsecutive
      THEN Fairest(rank, S \ {first}) ELSE first

\* The last member loses its run when a candidate replaces its identity.
Replaced(cands) == lastMember \in DOMAIN cands /\ ~Known(lastMember, cands[lastMember])
LastMember(cands) == IF Replaced(cands) THEN 0 ELSE lastMember
Consecutive(cands) == IF Replaced(cands) THEN 0 ELSE consecutive

-----------------------------------------------------------------------------
(* SelectCredentialFair *)

Newcomer(r) ==
  [revision |-> normalizeCredentialRevision(r), progress |-> watermark,
   lastSelected |-> 0, eligible |-> TRUE]

\* Faulty variant: a key seen for the first time has everything to catch up.
JoinedFromZero(k, r) ==
  IF ~Known(k, r) THEN [Newcomer(r) EXCEPT !.progress = 0]
  ELSE [members[k] EXCEPT
          !.progress = IF ~members[k].eligible /\ @ < watermark THEN watermark ELSE @,
          !.eligible = TRUE]

\* A candidate's member: a new identity, or one that comes back, starts at the
\* watermark and has nothing to catch up.
Joined(k, r) ==
  IF ~Known(k, r) THEN Newcomer(r)
  ELSE [members[k] EXCEPT
          !.progress = IF ~members[k].eligible /\ @ < watermark THEN watermark ELSE @,
          !.eligible = TRUE]

Membership(cands) ==
  [k \in KeyIDs |-> IF k \in DOMAIN cands THEN Joined(k, cands[k])
                  ELSE [members[k] EXCEPT !.eligible = FALSE]]

SelectRank(cands) ==
  [k \in DOMAIN cands |->
     [progress |-> Joined(k, cands[k]).progress,
      lastSelected |-> Joined(k, cands[k]).lastSelected]]

Selected(cands, preferred) ==
  IF preferred \in DOMAIN cands THEN preferred
  ELSE Turn(SelectRank(cands), DOMAIN cands, LastMember(cands), Consecutive(cands))

\* Faulty variant: the watermark stays where the last newcomer found it.
RaisedTo(progress) == watermark

Raised(progress) == IF progress > watermark THEN progress ELSE watermark

Charged(k, r) ==
  [revision |-> normalizeCredentialRevision(r), progress |-> Joined(k, r).progress + 1,
   lastSelected |-> sequence + 1, eligible |-> TRUE]

SelectCredentialFair(cands, preferred) ==
  LET k == Selected(cands, preferred)
      revision == normalizeCredentialRevision(cands[k])
  IN  /\ sequence < MaxSelections
      /\ sequence' = sequence + 1
      /\ members' = [Membership(cands) EXCEPT ![k] = Charged(k, cands[k])]
      /\ watermark' = Raised(Charged(k, cands[k]).progress)
      /\ lastMember' = k
      /\ consecutive' = IF LastMember(cands) = k THEN Consecutive(cands) + 1 ELSE 1
      /\ streak' = [key |-> k, revision |-> revision,
                    length |-> IF streak.key = k /\ streak.revision = revision
                               THEN streak.length + 1 ELSE 1,
                    free |-> preferred \notin DOMAIN cands /\ DOMAIN cands # {k}]
      /\ sticky' = (sticky \/ preferred \in DOMAIN cands)

\* ResetChannel drops the ledger.
ResetLedger ==
  /\ sequence > 0
  /\ members' = [k \in KeyIDs |-> Absent]
  /\ watermark' = 0 /\ sequence' = 0 /\ lastMember' = 0 /\ consecutive' = 0
  /\ streak' = [key |-> 0, revision |-> 0, length |-> 0, free |-> FALSE]
  /\ sticky' = FALSE

FairNext ==
  \/ \E cands \in CandidateSets, preferred \in Preferences :
       SelectCredentialFair(cands, preferred)
  \/ ResetLedger

LedgerSpec == FairInit /\ [][FairNext]_fairVars

-----------------------------------------------------------------------------
(* PeekCredentialFair, what the warmup of WebSocket connections expects *)

\* Faulty variant: a key that is away keeps the debt it left with.
previewKeepingDebt(k, r) ==
  IF ~Known(k, r) THEN [progress |-> watermark, lastSelected |-> 0]
  ELSE [progress |-> members[k].progress, lastSelected |-> members[k].lastSelected]

previewCredentialMember(k, r) ==
  IF ~Known(k, r) THEN [progress |-> watermark, lastSelected |-> 0]
  ELSE [progress |-> IF ~members[k].eligible /\ members[k].progress < watermark
                     THEN watermark ELSE members[k].progress,
        lastSelected |-> members[k].lastSelected]

PreviewRank(cands) ==
  [k \in DOMAIN cands |-> previewCredentialMember(k, cands[k])]

\* Without a ledger the smallest ID is expected.
PeekCredentialFair(cands, preferred) ==
  IF preferred \in DOMAIN cands THEN preferred
  ELSE IF sequence = 0 THEN CHOOSE i \in DOMAIN cands : \A j \in DOMAIN cands : i <= j
  ELSE Turn(PreviewRank(cands), DOMAIN cands, LastMember(cands), Consecutive(cands))

-----------------------------------------------------------------------------

Member ==
  [revision : Nat \ {0}, progress : Nat, lastSelected : Nat, eligible : BOOLEAN]

\* The shape of the ledger; a credential that has a member has a revision.
FairTypeOK ==
  /\ members \in [KeyIDs -> Member \cup {Absent}]
  /\ watermark \in Nat /\ sequence \in Nat /\ consecutive \in Nat
  /\ lastMember \in KeyIDs \cup {0}
  /\ streak \in [key : KeyIDs \cup {0}, revision : Nat, length : Nat, free : BOOLEAN]
  /\ sticky \in BOOLEAN

\* The watermark is the most any credential was given, whatever revisions replaced
\* each other, and the last member is the most recent one.
LedgerConsistent ==
  /\ \A k \in KeyIDs : members[k].progress <= watermark
  /\ sequence > 0 => \E k \in KeyIDs : members[k].progress = watermark
  /\ lastMember # 0 => members[lastMember].lastSelected = sequence
  /\ sequence > 0 => \A k \in KeyIDs \ {lastMember} : members[k].lastSelected < sequence

\* As long as no sticky key decided, no eligible credential is ever more than one
\* allocation behind another: none is starved, and none bursts when it joins or
\* comes back.
EqualShare ==
  ~sticky =>
    \A i, j \in KeyIDs :
      members[i].eligible /\ members[j].eligible
        => members[i].progress <= members[j].progress + 1

\* No credential is chosen more than MaxConsecutive times in a row while another
\* could be and the caller prefers none, however large the debt sticky requests
\* have left.
BurstBounded == streak.free => streak.length <= MaxConsecutive

\* What the warmup expects is what the next request with the same snapshot gets,
\* in every state, though the two are computed by different code.
PeekMatchesSelect ==
  \A cands \in CandidateSets, preferred \in Preferences :
    PeekCredentialFair(cands, preferred) = Selected(cands, preferred)

=============================================================================
