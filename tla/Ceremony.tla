------------------------------ MODULE Ceremony ------------------------------
(***************************************************************************)
(* The q-SDH ceremony (src/nativeproof/ceremony.go): participants extend   *)
(* an ordered transcript of contributions on machines of their own, a      *)
(* coordinator collects them, and FinalizeQSDHCeremony derives the         *)
(* accumulator's parameters from the whole chain and a beacon.             *)
(*                                                                         *)
(* The tau of a contribution is the product of the factors that went into  *)
(* it, written as the sequence of their authors.  A contribution carries   *)
(* the challenge of its predecessor, so two of them chain only if one was  *)
(* made from the other.                                                    *)
(***************************************************************************)
EXTENDS Profile

CONSTANTS
  Participants,
  WrongCapacity,             \* a capacity some participant takes by mistake
  maxQSDHContributions,      \* 64
  maxQSDHTranscriptBytes,    \* 64 MiB
  Beacon, NoBeacon           \* the beacon, and 32 zero bytes in its place

VARIABLES
  transcript,   \* the contributions the coordinator has collected
  draft,        \* a participant's contribution on its way to the coordinator
  params        \* {} or the set of the finalised parameters

ceremonyVars == <<transcript, draft, params>>

CeremonyInit ==
  /\ transcript = <<>>
  /\ draft = [q \in Participants |-> {}]
  /\ params = {}

\* Doubled from 2 on until its 2n - 1 powers of tau suffice.
ceremonyDomain(capacity) ==
  LET n[i \in 0 .. capacity] ==
        IF i = 0 THEN 2
        ELSE IF 2 * n[i - 1] - 1 < capacity + 1 THEN 2 * n[i - 1] ELSE n[i - 1]
  IN n[capacity]

Front(s) == SubSeq(s, 1, Len(s) - 1)
Last(s) == s[Len(s)]

\* A contribution decodes when it has the length, the points and the domain of n.
Size(n) == 192 * n + 265
decodeQSDHContribution(c, n) == c.n = n

\* Mutant of checkedQSDHChain: contributions are decoded, their predecessors ignored.
UncheckedChain(capacity, chain) ==
  /\ Len(chain) <= maxQSDHContributions
  /\ \A i \in DOMAIN chain : decodeQSDHContribution(chain[i], ceremonyDomain(capacity))

\* Every contribution has the domain of the capacity and extends the one before it;
\* the transcript is within its limits.
checkedQSDHChain(capacity, chain) ==
  /\ Len(chain) <= maxQSDHContributions
  /\ MapThenSumSet(LAMBDA i : Size(chain[i].n), DOMAIN chain) <= maxQSDHTranscriptBytes
  /\ \A i \in DOMAIN chain :
       /\ decodeQSDHContribution(chain[i], ceremonyDomain(capacity))
       /\ Front(chain[i].tau) = IF i = 1 THEN <<>> ELSE chain[i - 1].tau

Latest(chain) == IF chain = <<>> THEN <<>> ELSE Last(chain).tau

\* A participant checks the transcript it has received and adds its factor.
ContributeQSDH(q, capacity) ==
  LET n == ceremonyDomain(capacity)
  IN /\ params = {} /\ draft[q] = {}
     /\ Len(transcript) < maxQSDHContributions
     /\ (Len(transcript) + 1) * Size(n) <= maxQSDHTranscriptBytes
     /\ checkedQSDHChain(capacity, transcript)
     /\ draft' = [draft EXCEPT ![q] = {[n |-> n, tau |-> Append(Latest(transcript), q)]}]
     /\ UNCHANGED <<transcript, params>>

\* The coordinator appends what arrives, in whatever order, and may take back the
\* last contribution.
Collect(q) ==
  /\ params = {} /\ Len(transcript) < maxQSDHContributions
  /\ \E c \in draft[q] : transcript' = Append(transcript, c)
  /\ draft' = [draft EXCEPT ![q] = {}]
  /\ UNCHANGED params

Withdraw ==
  /\ params = {} /\ transcript # <<>>
  /\ transcript' = Front(transcript)
  /\ UNCHANGED <<draft, params>>

\* The sealed powers of tau, cut to the capacity.  A contribution still on its way
\* is of no use any more.
FinalizeQSDHCeremony(beacon) ==
  LET sealed == Append(Latest(transcript), beacon)
      powers == [i \in 1 .. 2 * ceremonyDomain(Capacity) - 1 |->
                   [d \in Degrees |-> IF d = i - 1 THEN 1 ELSE 0]]
      made == [tau |-> sealed, powers |-> SubSeq(powers, 1, Capacity + 1), hTau |-> Tau]
  IN /\ params = {}
     /\ Len(transcript) >= 2 /\ beacon # NoBeacon
     /\ checkedQSDHChain(Capacity, transcript)
     /\ ValidateParams(made)
     /\ params' = {made}
     /\ draft' = [q \in Participants |-> {}]
     /\ UNCHANGED transcript

CeremonyNext ==
  \/ \E q \in Participants :
       \/ \E capacity \in {Capacity, WrongCapacity} : ContributeQSDH(q, capacity)
       \/ Collect(q)
  \/ Withdraw
  \/ \E beacon \in {Beacon, NoBeacon} : FinalizeQSDHCeremony(beacon)

-----------------------------------------------------------------------------
(* Properties *)

\* FinalizeQSDHCeremony: the tau of the parameters holds the factor of every
\* contribution the receipt lists, each once and in that order, and the beacon last,
\* however the contributions were interleaved on their way; and the powers are as
\* many as the capacity needs.
EveryFactorCounts ==
  \A p \in params :
    /\ p.tau = Append([i \in DOMAIN transcript |-> Last(transcript[i].tau)], Beacon)
    /\ Len(p.powers) = Capacity + 1
=============================================================================
