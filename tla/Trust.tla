------------------------------- MODULE Trust --------------------------------
(***************************************************************************)
(* Trust policies, setup approvals, enrollments and registry               *)
(* authorizations (src/nativeproof/trust.go, NewRegistry and Resolve of    *)
(* protocol.go, the verify-authorized command).                            *)
(*                                                                         *)
(* Account holders prove possession of their secrets to an authority, the  *)
(* authority signs setup approvals and registries with validity windows,   *)
(* and long-lived verifiers, loaded at one time with one policy, judge     *)
(* signatures at later times.  Verifying and tracing change no state: they *)
(* are operators, and the properties speak of every call that could be     *)
(* made in a state.                                                        *)
(*                                                                         *)
(* A namespace and a setup manifest are always compared together: a        *)
(* domain.  So are an issue and a quota: terms.  Signatures of authorities *)
(* and proofs of possession are unforgeable: they are records that only    *)
(* their maker adds, and a proof is bound to everything its challenge      *)
(* hashes.                                                                 *)
(***************************************************************************)
EXTENDS Naturals, FiniteSets

CONSTANTS
  Users, Accounts, Secrets, Keys, Domains, Terms, Challenges, Messages, Slots,
  Apps,          \* applications, each with one AuthorizedVerifier
  SecretOf,      \* the secret x behind an account
  Windows,       \* the validity intervals authorities put in documents
  MaxTime, MaxEpoch,
  Capacity,      \* ring capacity of the setups
  MaxEnrollments, MaxApprovals, MaxRegistries,   \* bounds
  None           \* no verifier loaded

ASSUME TrustConstants ==
  /\ SecretOf \in [Accounts -> Secrets]
  /\ Windows \subseteq [from : Nat, to : Nat]
  /\ MaxTime \in Nat /\ MaxEpoch \in Nat /\ Capacity \in Nat
  /\ MaxEnrollments \in Nat /\ MaxApprovals \in Nat /\ MaxRegistries \in Nat

VARIABLES
  now,           \* the clock the verifiers read
  enrollments,   \* proofs of possession made so far
  approvals,     \* signed setup approvals
  registries,    \* signed registry authorizations
  verifier       \* per application: the policy and approval it was loaded with

trustVars == <<now, enrollments, approvals, registries, verifier>>

Epochs == 0 .. MaxEpoch

\* A proof of possession, with everything its challenge hashes: the labels, the
\* account, the authority, the domain, the authority's challenge.
Enrollments ==
  [user : Users, acct : Accounts, key : Keys, dom : Domains, ch : Challenges]

\* An entry of a registry: what it says, and the proof that comes with it.
Entries(proofs) ==
  [user : Users, acct : Accounts, ch : Challenges, proof : proofs]

Policies ==
  [dom : Domains, setupKey : Keys, regKey : Keys, epoch : Epochs, terms : Terms]

TrustInit ==
  /\ now = 0
  /\ enrollments = {}
  /\ approvals = {}
  /\ registries = {}
  /\ verifier = [a \in Apps |-> None]

-----------------------------------------------------------------------------
validTrustTime(w, t) == w.to > w.from /\ t >= w.from /\ t < w.to

Tick ==
  /\ now < MaxTime
  /\ now' = now + 1
  /\ UNCHANGED <<enrollments, approvals, registries, verifier>>

\* CreateEnrollment, by whoever knows the secret of the account.
CreateEnrollment ==
  /\ Cardinality(enrollments) < MaxEnrollments
  /\ \E e \in Enrollments : enrollments' = enrollments \cup {e}
  /\ UNCHANGED <<now, approvals, registries, verifier>>

\* Mutant of VerifyEnrollment: the proof is not bound to the user's label.
VerifyAnyLabel(e, key, dom, ch) ==
  /\ e.ch = ch
  /\ e.proof.acct = e.acct
  /\ e.proof.ch = e.ch /\ e.proof.key = key /\ e.proof.dom = dom

\* VerifyEnrollment: the expected challenge, and a proof for exactly this entry,
\* authority and domain.
VerifyEnrollment(e, key, dom, ch) ==
  /\ e.ch = ch
  /\ e.proof.user = e.user /\ e.proof.acct = e.acct
  /\ e.proof.ch = e.ch /\ e.proof.key = key /\ e.proof.dom = dom

\* Mutant of NewRegistry: two users may register the same trace key.
NewRegistrySharedKey(entries) ==
  /\ entries # {}
  /\ \A e, f \in entries :
       /\ e.acct = f.acct => e = f
       /\ e.user = f.user => SecretOf[e.acct] = SecretOf[f.acct]

\* NewRegistry: accounts are registered once, a trace key belongs to one user
\* and a user has one trace key.
NewRegistry(entries) ==
  /\ entries # {}
  /\ \A e, f \in entries :
       /\ e.acct = f.acct => e = f
       /\ e.user = f.user <=> SecretOf[e.acct] = SecretOf[f.acct]

\* registryRegistrations: the checks on a registry by itself.
registryRegistrations(r, key) ==
  /\ r.epoch # 0
  /\ validTrustTime(r.window, r.window.from)
  /\ \A e \in r.entries : VerifyEnrollment(e, key, r.dom, e.ch)
  /\ NewRegistry(r.entries)

SignSetupApproval ==
  /\ Cardinality(approvals) < MaxApprovals
  /\ \E key \in Keys, dom \in Domains, w \in Windows :
       /\ validTrustTime(w, w.from)
       /\ approvals' = approvals \cup {[key |-> key, dom |-> dom, window |-> w]}
  /\ UNCHANGED <<now, enrollments, registries, verifier>>

\* SignRegistryAuthorization, of any entries the authority puts together (those
\* with a proof that does not fit are refused).  Leaving a user out of the next
\* epoch is how it revokes.
SignRegistryAuthorization ==
  /\ Cardinality(registries) < MaxRegistries
  /\ \E key \in Keys, dom \in Domains, terms \in Terms, w \in Windows,
        n \in Epochs :
     \E entries \in SUBSET {e \in Entries(enrollments) :
                            VerifyEnrollment(e, key, dom, e.ch)} :
       LET r == [key |-> key, dom |-> dom, terms |-> terms, window |-> w,
                 epoch |-> n, entries |-> entries]
       IN /\ registryRegistrations(r, key)
          /\ registries' = registries \cup {r}
  /\ UNCHANGED <<now, enrollments, approvals, verifier>>

\* verifySetupApproval, at time t.
verifySetupApproval(p, a, t) ==
  /\ p.epoch # 0
  /\ a.key = p.setupKey
  /\ a.dom = p.dom
  /\ validTrustTime(a.window, t)

\* LoadAuthorizedVerifier; an application that gets a new policy loads again.
LoadAuthorizedVerifier ==
  /\ \E v \in Apps, p \in Policies, a \in approvals :
       /\ verifySetupApproval(p, a, now)
       /\ verifier' = [verifier EXCEPT ![v] = [policy |-> p, approval |-> a]]
  /\ UNCHANGED <<now, enrollments, approvals, registries>>

TrustNext ==
  \/ Tick
  \/ CreateEnrollment
  \/ SignSetupApproval
  \/ SignRegistryAuthorization
  \/ LoadAuthorizedVerifier

TrustSpec == TrustInit /\ [][TrustNext]_trustVars

-----------------------------------------------------------------------------
(* Verifying and tracing *)

Ring(r) == {e.acct : e \in r.entries}

\* authorizedContext: the registry is the policy's, valid now, within capacity.
authorizedContext(p, r, t) ==
  /\ p.epoch # 0
  /\ r.key = p.regKey
  /\ r.dom = p.dom /\ r.epoch = p.epoch /\ r.terms = p.terms
  /\ validTrustTime(r.window, t)
  /\ Cardinality(r.entries) <= Capacity
  /\ registryRegistrations(r, p.regKey)

\* What a sound proof says: some account of the ring signed, with its secret.
Signatures(r) ==
  [acct : Ring(r), ring : {Ring(r)}, dom : {r.dom}, terms : {r.terms},
   slot : Slots, msg : Messages]

\* Verifier.Verify in the context of a registry.
VerifyProof(r, sig) ==
  /\ sig.ring = Ring(r)
  /\ sig.acct \in sig.ring
  /\ sig.dom = r.dom /\ sig.terms = r.terms

\* Mutant of Verify: the approval checked when loading is taken to be still valid.
VerifyLoadedOnce(v, r, sig) ==
  /\ verifier[v] # None
  /\ authorizedContext(verifier[v].policy, r, now)
  /\ VerifyProof(r, sig)

\* AuthorizedVerifier.Verify, now.
Verify(v, r, sig) ==
  /\ verifier[v] # None
  /\ verifySetupApproval(verifier[v].policy, verifier[v].approval, now)
  /\ authorizedContext(verifier[v].policy, r, now)
  /\ VerifyProof(r, sig)

\* Registry.Resolve: the users the lookup of an extracted trace key can find.
Resolve(r, x) == {e.user : e \in {f \in r.entries : SecretOf[f.acct] = x}}

\* AuthorizedVerifier.Trace: two accepted signatures of one slot with different
\* challenges expose the secret's trace key, which the registry resolves.
Traced(v, r, a, b) ==
  /\ Verify(v, r, a) /\ Verify(v, r, b)
  /\ SecretOf[a.acct] = SecretOf[b.acct]
  /\ a.slot = b.slot
  /\ a # b

-----------------------------------------------------------------------------
(* Properties *)

\* Type correctness.
TypeOK ==
  /\ now \in Nat
  /\ enrollments \subseteq Enrollments
  /\ approvals \subseteq [key : Keys, dom : Domains, window : Windows]
  /\ registries \subseteq [key : Keys, dom : Domains, terms : Terms,
                           window : Windows, epoch : Epochs,
                           entries : SUBSET Entries(enrollments)]
  /\ verifier \in [Apps -> [policy : Policies, approval : approvals] \cup {None}]

\* What a verifier accepts was signed by an account whose holder proved possession
\* of its secret to the policy's registry authority, in the policy's domain and
\* under the label the registry gives it, whatever entries the authority was given
\* (trust.go, VerifyEnrollment inside SignRegistryAuthorization).
AcceptedAreEnrolled ==
  \A v \in Apps, r \in registries : \A sig \in Signatures(r) :
    Verify(v, r, sig) =>
      \E e \in r.entries :
        /\ e.acct = sig.acct
        /\ \E p \in enrollments :
             /\ p.user = e.user /\ p.acct = e.acct
             /\ p.key = verifier[v].policy.regKey
             /\ p.dom = verifier[v].policy.dom

\* A verifier that was loaded while its approval was valid accepts nothing once no
\* approval of its setup by its setup authority is valid, and nothing from an epoch
\* or outside a window other than its policy's (trust.go, Verify: the approval is
\* checked again with the current time).
NeverOutOfDate ==
  \A v \in Apps, r \in registries : \A sig \in Signatures(r) :
    Verify(v, r, sig) =>
      /\ \E a \in approvals :
           /\ a.key = verifier[v].policy.setupKey
           /\ a.dom = verifier[v].policy.dom
           /\ a.window.from <= now /\ now < a.window.to
      /\ r.window.from <= now /\ now < r.window.to
      /\ r.epoch = verifier[v].policy.epoch

\* The trace of a reused slot never fails its lookup and never names anyone else:
\* the registry resolves the exposed key to one user, the one both signing accounts
\* are enrolled under (trust.go, Trace; protocol.go, NewRegistry and Resolve).
TraceResolves ==
  \A v \in Apps, r \in registries : \A a, b \in Signatures(r) :
    Traced(v, r, a, b) =>
      \E u \in Users :
        /\ Resolve(r, SecretOf[a.acct]) = {u}
        /\ \A e \in r.entries : e.acct \in {a.acct, b.acct} => e.user = u
=============================================================================
