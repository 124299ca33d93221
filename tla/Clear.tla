-------------------------------- MODULE Clear -------------------------------
(***************************************************************************)
(* The clear reference protocol and its accumulator                        *)
(* (src/protocol/clear.cpp, src/protocol/accumulator.cpp): users, their    *)
(* accounts, the ring kept twice (active flags and accumulated members),   *)
(* signatures that carry their witness, and revocation.                    *)
(*                                                                         *)
(* The accumulator's value is written as the set of its members and a      *)
(* witness as the set without its owner: module Profile shows that neither *)
(* collides.  A user's secrets are the user, a counter's one-time pass is  *)
(* the counter.                                                            *)
(***************************************************************************)
EXTENDS Naturals, FiniteSets

CONSTANTS
  Users, Accounts, Messages,
  limit,          \* k
  max_members,    \* degree of the accumulator's parameters
  MaxVersion,     \* largest version, 2^64 - 1 in the code
  MaxSigned,      \* bound: signatures made
  Unset

ASSUME ClearConstants ==
  /\ limit \in Nat /\ max_members \in Nat /\ MaxVersion \in Nat /\ MaxSigned \in Nat
  /\ Unset \notin Users

VARIABLES
  users,      \* next_counter of a user, Unset before create_user
  owner,      \* the user of an account, Unset before create_account
  active,     \* accounts whose active flag is set
  revoked,    \* revoked_users_
  members,    \* the accumulator's members_
  version,    \* the accumulator's version_
  signed      \* signatures made

clearVars == <<users, owner, active, revoked, members, version, signed>>

ClearInit ==
  /\ users = [u \in Users |-> Unset]
  /\ owner = [a \in Accounts |-> Unset]
  /\ active = {} /\ revoked = {}
  /\ members = {} /\ version = 0
  /\ signed = {}

create_user(u) ==
  /\ users[u] = Unset /\ u \notin revoked
  /\ users' = [users EXCEPT ![u] = 0]
  /\ UNCHANGED <<owner, active, revoked, members, version, signed>>

\* A revoked user may still have accounts created.
create_account(u, a) ==
  /\ owner[a] = Unset /\ users[u] # Unset
  /\ owner' = [owner EXCEPT ![a] = u]
  /\ UNCHANGED <<users, active, revoked, members, version, signed>>

-----------------------------------------------------------------------------
(* The accumulator *)

\* update and commit: the set fits the parameters and there is a version left.
Commits(set) == Cardinality(set) <= max_members /\ version < MaxVersion
AccumulatorJoin(a) == a \notin members /\ Commits(members \cup {a})

\* Accumulator::verify of a witness value, by the pairing equation.
verify(a, w) == a \notin w /\ w \cup {a} = members

-----------------------------------------------------------------------------
(* The ring *)

\* Mutant of join: the flag is set although the accumulator refuses the member.
joinFlagFirst(a) ==
  /\ owner[a] # Unset /\ owner[a] \notin revoked /\ a \notin active
  /\ active' = active \cup {a}
  /\ IF AccumulatorJoin(a)
       THEN members' = members \cup {a} /\ version' = version + 1
       ELSE UNCHANGED <<members, version>>
  /\ UNCHANGED <<users, owner, revoked, signed>>

\* Mutant of join: a revoked user's account is let in.
joinRevoked(a) ==
  /\ owner[a] # Unset /\ a \notin active
  /\ AccumulatorJoin(a)
  /\ members' = members \cup {a} /\ version' = version + 1
  /\ active' = active \cup {a}
  /\ UNCHANGED <<users, owner, revoked, signed>>

join(a) ==
  /\ owner[a] # Unset /\ owner[a] \notin revoked /\ a \notin active
  /\ AccumulatorJoin(a)
  /\ members' = members \cup {a} /\ version' = version + 1
  /\ active' = active \cup {a}
  /\ UNCHANGED <<users, owner, revoked, signed>>

exit(a) ==
  /\ a \in active /\ a \in members
  /\ Commits(members \ {a})
  /\ members' = members \ {a} /\ version' = version + 1
  /\ active' = active \ {a}
  /\ UNCHANGED <<users, owner, revoked, signed>>

\* The accounts leave one by one, and those that are left when the versions run
\* out stay in the ring of a revoked user.
revoke_user(u) ==
  LET owned == {a \in active : owner[a] = u}
  IN /\ users[u] # Unset
     /\ revoked' = revoked \cup {u}
     /\ \E out \in SUBSET owned :
          /\ out = owned \/ Cardinality(out) = MaxVersion - version
          /\ version + Cardinality(out) <= MaxVersion
          /\ active' = active \ out
          /\ members' = members \ out
          /\ version' = version + Cardinality(out)
     /\ UNCHANGED <<users, owner, signed>>

-----------------------------------------------------------------------------
(* Signatures *)

sign_clear(u, a, m) ==
  /\ Cardinality(signed) < MaxSigned
  /\ users[u] # Unset /\ owner[a] = u /\ a \in active
  /\ users[u] < limit
  /\ a \in members
  /\ signed' = signed \cup {[user |-> u, account |-> a, counter |-> users[u], message |-> m,
                             label |-> active, value |-> members, witness |-> members \ {a}]}
  /\ users' = [users EXCEPT ![u] = @ + 1]
  /\ UNCHANGED <<owner, active, revoked, members, version>>

\* The checks that depend on the state; label is the ring the caller asks about,
\* and the challenge binds the signature to the one it was made for.
verify_clear(label, m, s) ==
  /\ label # {} /\ label = s.label /\ m = s.message
  /\ Cardinality(active) <= max_members /\ s.value = active
  /\ label = active
  /\ s.counter < limit
  /\ s.account \in label
  /\ verify(s.account, s.witness)

\* trace_clear of two signatures, by their counters.
trace_clear(label, s, t) ==
  IF \/ ~verify_clear(label, s.message, s) \/ ~verify_clear(label, t.message, t)
     \/ s.user # t.user
    THEN "invalid"
    ELSE IF s.counter # t.counter THEN "legal"
    ELSE IF s.message = t.message THEN "replay" ELSE "traced"

ClearNext ==
  \/ \E u \in Users : create_user(u) \/ revoke_user(u)
  \/ \E u \in Users, a \in Accounts : create_account(u, a)
  \/ \E a \in Accounts : join(a) \/ exit(a)
  \/ \E u \in Users, a \in Accounts, m \in Messages : sign_clear(u, a, m)

ClearSpec == ClearInit /\ [][ClearNext]_clearVars

-----------------------------------------------------------------------------
(* Properties *)

\* A signature verifies exactly while the ring holds the accounts it held when the
\* signature was made: the two copies of the ring never differ, and a witness taken
\* before joins and exits is good again when the same accounts are back, although
\* the accumulator's version is not.
VerifiesWithItsRing ==
  \A s \in signed : verify_clear(s.label, s.message, s) <=> active = s.label

\* Once a user is revoked no signature of theirs verifies again, and none is traced
\* as anything but invalid, whatever accounts are created or joined afterwards;
\* unless the revocation ran out of versions, which leaves accounts in the ring.
RevokedForGood ==
  \A s, t \in signed :
    s.user \in revoked /\ version < MaxVersion
      => trace_clear(s.label, s, t) = "invalid"
=============================================================================
