-------------------------- MODULE ClearPageProofs ---------------------------
(***************************************************************************)
(* Proofs about the C++ reference protocol and about the page of the demo, *)
(* two parts that share nothing but this module.                           *)
(*                                                                         *)
(* Clear, for any users, accounts, limit, capacity and version width.      *)
(* Neither property is inductive: both rest on the two copies of the ring  *)
(* being equal, on what sign_clear put into a signature, and on a revoked  *)
(* user keeping an account only once the versions have run out.            *)
(*                                                                         *)
(* DemoPage, for any number of steps and sessions.  The views of the       *)
(* server rise in Rank, through resets and restarts.  The inductive        *)
(* invariant says that every answer on its way and the view on the page    *)
(* are past views, that at most one read may still be applied, and that    *)
(* its answer is not older than what is shown.                             *)
(***************************************************************************)
EXTENDS Clear, DemoPage, FiniteSetTheorems, TLAPS

-----------------------------------------------------------------------------
(* The clear protocol *)

Signature ==
  [user : Users, account : Accounts, counter : Nat, message : Messages,
   label : SUBSET Accounts, value : SUBSET Accounts, witness : SUBSET Accounts]

ClearTypes ==
  /\ users \in [Users -> Nat \cup {Unset}]
  /\ owner \in [Accounts -> Users \cup {Unset}]
  /\ active \in SUBSET Accounts
  /\ revoked \in SUBSET Users
  /\ version \in 0 .. MaxVersion
  /\ signed \in SUBSET Signature

\* The two copies of the ring agree and fit the accumulator.
OneRing ==
  /\ members = active
  /\ IsFiniteSet(active) /\ Cardinality(active) <= max_members

\* The accounts in the ring have owners, and a revoked user has one there only when
\* no version is left.
RevokedLeft ==
  \A a \in active : owner[a] # Unset /\ (owner[a] \in revoked => version = MaxVersion)

\* What sign_clear puts into a signature.
MadeBySign ==
  \A s \in signed :
    /\ s.value = s.label
    /\ s.account \in s.label
    /\ s.witness = s.label \ {s.account}
    /\ s.counter < limit
    /\ owner[s.account] = s.user

ClearInv == ClearTypes /\ OneRing /\ RevokedLeft /\ MadeBySign

LEMMA InitClearInv == ClearInit => ClearInv
<1>. SUFFICES ASSUME ClearInit PROVE ClearInv
  OBVIOUS
<1>1. ClearTypes
  BY ClearConstants DEF ClearInit, ClearTypes
<1>2. OneRing
  BY FS_EmptySet, ClearConstants DEF ClearInit, OneRing
<1>3. RevokedLeft /\ MadeBySign
  BY DEF ClearInit, RevokedLeft, MadeBySign
<1>. QED
  BY <1>1, <1>2, <1>3 DEF ClearInv

LEMMA CreateUserIInv ==
  ASSUME ClearInv, NEW u \in Users, create_user(u)
  PROVE  ClearInv'
<1>1. ClearTypes'
  BY DEF ClearInv, ClearTypes, create_user
<1>. QED
  BY <1>1 DEF ClearInv, OneRing, RevokedLeft, MadeBySign, create_user

LEMMA CreateAccountIInv ==
  ASSUME ClearInv, NEW u \in Users, NEW a \in Accounts, create_account(u, a)
  PROVE  ClearInv'
<1>. USE DEF create_account
<1>1. ClearTypes'
  BY DEF ClearInv, ClearTypes
<1>2. OneRing'
  BY DEF ClearInv, OneRing
<1>3. owner[a] = Unset /\ owner' = [owner EXCEPT ![a] = u]
  OBVIOUS
<1>4. MadeBySign'
  <2>1. \A s \in signed : s.account # a
    BY <1>3, ClearConstants DEF ClearInv, ClearTypes, MadeBySign, Signature
  <2>. QED
    BY <1>3, <2>1 DEF ClearInv, ClearTypes, MadeBySign, Signature
<1>5. RevokedLeft'
  <2>1. \A b \in active : b # a
    BY <1>3 DEF ClearInv, RevokedLeft
  <2>. QED
    BY <1>3, <2>1 DEF ClearInv, ClearTypes, RevokedLeft
<1>. QED
  BY <1>1, <1>2, <1>4, <1>5 DEF ClearInv

LEMMA JoinIInv ==
  ASSUME ClearInv, NEW a \in Accounts, join(a)
  PROVE  ClearInv'
<1>. USE DEF join
<1>0. version < MaxVersion /\ Cardinality(members \cup {a}) <= max_members
  BY DEF AccumulatorJoin, Commits
<1>1. ClearTypes'
  BY <1>0, ClearConstants DEF ClearInv, ClearTypes
<1>2. OneRing'
  <2>1. IsFiniteSet(active \cup {a})
    BY FS_AddElement DEF ClearInv, OneRing
  <2>. QED
    BY <1>0, <2>1 DEF ClearInv, OneRing
<1>3. RevokedLeft'
  BY <1>0, ClearConstants DEF ClearInv, ClearTypes, RevokedLeft
<1>4. MadeBySign'
  BY DEF ClearInv, MadeBySign
<1>. QED
  BY <1>1, <1>2, <1>3, <1>4 DEF ClearInv

LEMMA ExitIInv ==
  ASSUME ClearInv, NEW a \in Accounts, exit(a)
  PROVE  ClearInv'
<1>. USE DEF exit
<1>0. version < MaxVersion /\ Cardinality(members \ {a}) <= max_members
  BY DEF Commits
<1>1. ClearTypes'
  BY <1>0, ClearConstants DEF ClearInv, ClearTypes
<1>2. OneRing'
  <2>1. IsFiniteSet(active \ {a})
    BY FS_RemoveElement DEF ClearInv, OneRing
  <2>. QED
    BY <1>0, <2>1 DEF ClearInv, OneRing
<1>3. RevokedLeft'
  BY <1>0, ClearConstants DEF ClearInv, ClearTypes, RevokedLeft
<1>4. MadeBySign'
  BY DEF ClearInv, MadeBySign
<1>. QED
  BY <1>1, <1>2, <1>3, <1>4 DEF ClearInv

\* Either every account of the user leaves, or the versions run out.
LEMMA RevokeIInv ==
  ASSUME ClearInv, NEW u \in Users, revoke_user(u)
  PROVE  ClearInv'
<1>. DEFINE owned == {a \in active : owner[a] = u}
<1>1. PICK out \in SUBSET owned :
        /\ out = owned \/ Cardinality(out) = MaxVersion - version
        /\ version + Cardinality(out) <= MaxVersion
        /\ active' = active \ out
        /\ members' = members \ out
        /\ version' = version + Cardinality(out)
  BY DEF revoke_user
<1>2. revoked' = revoked \cup {u} /\ UNCHANGED <<users, owner, signed>>
  BY DEF revoke_user
<1>3. IsFiniteSet(out) /\ Cardinality(out) \in Nat
  BY FS_Subset, FS_CardinalityType DEF ClearInv, OneRing
<1>4. /\ IsFiniteSet(active \ out) /\ Cardinality(active \ out) \in Nat
      /\ Cardinality(active) \in Nat /\ Cardinality(active \ out) <= Cardinality(active)
  BY FS_Subset, FS_CardinalityType DEF ClearInv, OneRing
<1>5. version' \in 0 .. MaxVersion
  BY <1>1, <1>3, ClearConstants DEF ClearInv, ClearTypes
<1>6. ClearTypes'
  BY <1>1, <1>2, <1>5 DEF ClearInv, ClearTypes
<1>7. OneRing'
  BY <1>1, <1>4, ClearConstants DEF ClearInv, OneRing
<1>8. RevokedLeft'
  <2>1. CASE out = owned
    <3>. SUFFICES ASSUME NEW a \in active'
                  PROVE  owner[a] # Unset /\ (owner[a] \in revoked' => version' = MaxVersion)
      BY <1>2 DEF RevokedLeft
    <3>1. a \in active /\ owner[a] # u /\ owner[a] # Unset
      BY <1>1, <2>1 DEF ClearInv, RevokedLeft
    <3>2. owner[a] \in revoked' => version = MaxVersion
      BY <1>2, <3>1 DEF ClearInv, RevokedLeft
    <3>3. version = MaxVersion => version' = MaxVersion
      BY <1>1, <1>3, ClearConstants DEF ClearInv, ClearTypes
    <3>. QED
      BY <3>1, <3>2, <3>3
  <2>2. CASE Cardinality(out) = MaxVersion - version
    <3>1. version' = MaxVersion
      BY <1>1, <2>2, ClearConstants DEF ClearInv, ClearTypes
    <3>. QED
      BY <1>1, <1>2, <3>1 DEF ClearInv, RevokedLeft
  <2>. QED
    BY <1>1, <2>1, <2>2
<1>9. MadeBySign'
  BY <1>2 DEF ClearInv, MadeBySign
<1>. QED
  BY <1>6, <1>7, <1>8, <1>9 DEF ClearInv

LEMMA SignIInv ==
  ASSUME ClearInv, NEW u \in Users, NEW a \in Accounts, NEW m \in Messages, sign_clear(u, a, m)
  PROVE  ClearInv'
<1>. DEFINE s == [user |-> u, account |-> a, counter |-> users[u], message |-> m,
                  label |-> active, value |-> members, witness |-> members \ {a}]
<1>1. /\ signed' = signed \cup {s}
      /\ users' = [users EXCEPT ![u] = @ + 1]
      /\ UNCHANGED <<owner, active, revoked, members, version>>
  BY DEF sign_clear
<1>2. users[u] \in Nat /\ users[u] < limit /\ owner[a] = u /\ a \in active
  BY DEF sign_clear, ClearInv, ClearTypes
<1>3. members = active /\ active \in SUBSET Accounts
  BY DEF ClearInv, OneRing, ClearTypes
<1>4. s \in Signature
  BY <1>2, <1>3 DEF Signature
<1>5. /\ s.value = s.label /\ s.account \in s.label /\ s.witness = s.label \ {s.account}
      /\ s.counter < limit /\ owner[s.account] = s.user
  BY <1>2, <1>3
<1>. HIDE DEF s
<1>6. ClearTypes'
  BY <1>1, <1>2, <1>4 DEF ClearInv, ClearTypes
<1>7. OneRing' /\ RevokedLeft'
  BY <1>1 DEF ClearInv, OneRing, RevokedLeft
<1>8. MadeBySign'
  BY <1>1, <1>5 DEF ClearInv, MadeBySign
<1>. QED
  BY <1>6, <1>7, <1>8 DEF ClearInv

\* The inductive invariant.
THEOREM ClearInvariance == ClearSpec => []ClearInv
<1>1. ClearInv /\ [ClearNext]_clearVars => ClearInv'
  <2>. SUFFICES ASSUME ClearInv, [ClearNext]_clearVars PROVE ClearInv'
    OBVIOUS
  <2>1. CASE \E u \in Users : create_user(u) \/ revoke_user(u)
    BY <2>1, CreateUserIInv, RevokeIInv
  <2>2. CASE \E u \in Users, a \in Accounts : create_account(u, a)
    BY <2>2, CreateAccountIInv
  <2>3. CASE \E a \in Accounts : join(a) \/ exit(a)
    BY <2>3, JoinIInv, ExitIInv
  <2>4. CASE \E u \in Users, a \in Accounts, m \in Messages : sign_clear(u, a, m)
    BY <2>4, SignIInv
  <2>5. CASE UNCHANGED clearVars
    BY <2>5 DEF clearVars, ClearInv, ClearTypes, OneRing, RevokedLeft, MadeBySign
  <2>. QED
    BY <2>1, <2>2, <2>3, <2>4, <2>5 DEF ClearNext
<1>. QED
  BY <1>1, InitClearInv, PTL DEF ClearSpec

\* A signature verifies exactly while the ring is the one it was made for
\* (verify_clear, Accumulator::verify).
THEOREM RingBinding == ClearSpec => []VerifiesWithItsRing
<1>1. ClearInv => VerifiesWithItsRing
  <2>. SUFFICES ASSUME ClearInv, NEW s \in signed
                PROVE  verify_clear(s.label, s.message, s) <=> active = s.label
    BY DEF VerifiesWithItsRing
  <2>1. /\ s.value = s.label /\ s.account \in s.label
        /\ s.witness = s.label \ {s.account} /\ s.counter < limit
    BY DEF ClearInv, MadeBySign
  <2>2. members = active /\ Cardinality(active) <= max_members
    BY DEF ClearInv, OneRing
  <2>3. active = s.label => verify(s.account, s.witness)
    BY <2>1, <2>2 DEF verify
  <2>. QED
    BY <2>1, <2>2, <2>3 DEF verify_clear
<1>. QED
  BY <1>1, ClearInvariance, PTL

\* No signature of a revoked user verifies again, short of the last version
\* (revoke_user, join).
THEOREM Revocation == ClearSpec => []RevokedForGood
<1>1. ClearInv => RevokedForGood
  <2>. SUFFICES ASSUME ClearInv, NEW s \in signed, NEW t \in signed,
                       s.user \in revoked, version < MaxVersion
                PROVE  trace_clear(s.label, s, t) = "invalid"
    BY DEF RevokedForGood
  <2>1. s.account \in s.label /\ owner[s.account] \in revoked
    BY DEF ClearInv, MadeBySign
  <2>2. s.account \notin active
    BY <2>1, ClearConstants DEF ClearInv, ClearTypes, RevokedLeft
  <2>3. ~verify_clear(s.label, s.message, s)
    BY <2>1, <2>2 DEF verify_clear
  <2>. QED
    BY <2>3 DEF trace_clear
<1>. QED
  BY <1>1, ClearInvariance, PTL

-----------------------------------------------------------------------------
(* The page *)

\* The values of the page's variables.
Views == [run : Nat, token : Nat, next : 0 .. Steps, busy : BOOLEAN, failed : BOOLEAN]
Places == {"idle", "asked", "got", "acting", "posted", "replied"}
Reads == [at : Places, fresh : BOOLEAN, got : Views \cup {None}]
Sent == {Advance(n, k) : n \in Nat, k \in Nat} \cup {Reset(k) : k \in Nat} \cup {None}
Actions == [at : Places, fresh : BOOLEAN, got : Views \cup {None}, req : Sent, ok : BOOLEAN]
Pages == [shown : Views \cup {None}, auto : BOOLEAN, lost : BOOLEAN]

\* The server shows its current session, and a running step is one of the scenario.
ServerOK ==
  /\ up \in BOOLEAN /\ runs \in Nat /\ view \in Views
  /\ up => view.run = runs
  /\ view.busy => view.next < Steps

\* A view the server has shown before or shows now.
Past(v) == v \in Views /\ v.run <= runs /\ (up => Rank(v) <= Rank(view))

\* A read that may still be applied has nothing older than what is shown.
InOrder(r) == r.fresh /\ r.got # None /\ page.shown # None => Rank(r.got) >= Rank(page.shown)

\* The inductive invariant.
PageInv ==
  /\ ServerOK
  /\ tick \in Reads /\ act \in Actions /\ page \in Pages
  /\ tick.got # None => Past(tick.got)
  /\ act.got # None => Past(act.got)
  /\ page.shown # None => Past(page.shown)
  /\ InOrder(tick) /\ InOrder(act)
  /\ ~(tick.fresh /\ act.fresh)
  /\ act.at # "got" => act.got = None

\* The place of a view in its session.
Low(v) == 3 * v.next + (IF v.busy THEN 1 ELSE IF v.failed THEN 2 ELSE 0)

\* The rank of a view is its session and its place in the session.
LEMMA RankIs ==
  ASSUME NEW v \in Views
  PROVE  /\ Rank(v) = (3 * Steps + 3) * v.run + Low(v) /\ Rank(v) \in Nat
         /\ Low(v) \in 0 .. 3 * Steps + 2
<1>1. v.run \in Nat /\ v.next \in 0 .. Steps /\ v.busy \in BOOLEAN /\ v.failed \in BOOLEAN
  BY DEF Views
<1>2. Steps \in Nat
  BY ServerBounds
<1>. DEFINE e == IF v.busy THEN 1 ELSE IF v.failed THEN 2 ELSE 0
            n == v.next
            r == v.run
<1>3. e \in 0 .. 2
  OBVIOUS
<1>4. n \in 0 .. Steps /\ r \in Nat
  BY <1>1
<1>5. Low(v) = 3 * n + e /\ Rank(v) = (3 * Steps + 3) * r + 3 * n + e
  BY DEF Low, Rank
<1>. HIDE DEF e, n, r
<1>6. 3 * n + e \in 0 .. 3 * Steps + 2
  BY ONLY <1>2, <1>3, <1>4
<1>7. (3 * Steps + 3) * r \in Nat
  BY ONLY <1>2, <1>4
<1>. DEFINE l == 3 * n + e
            k == (3 * Steps + 3) * r
<1>8. (3 * Steps + 3) * r + 3 * n + e = k + l
  BY ONLY <1>2, <1>3, <1>4, <1>7
<1>9. l \in Nat /\ k \in Nat
  BY ONLY <1>2, <1>6, <1>7
<1>. HIDE DEF l, k
<1>10. k + l \in Nat
  BY ONLY <1>9
<1>. QED BY ONLY <1>5, <1>6, <1>8, <1>10 DEF l, k, r

\* A view of a later session has a higher rank.
LEMMA LaterRun ==
  ASSUME NEW v \in Views, NEW w \in Views, v.run < w.run
  PROVE  Rank(v) <= Rank(w)
<1>. DEFINE k == 3 * Steps + 3
            a == v.run
            b == w.run
            x == Low(v)
            y == Low(w)
<1>1. Rank(v) = k * a + x /\ Rank(w) = k * b + y /\ x \in 0 .. k - 1 /\ y \in 0 .. k - 1
  <2>1. Steps \in Nat
    BY ServerBounds
  <2>2. k - 1 = 3 * Steps + 2
    BY ONLY <2>1
  <2>3. 0 .. k - 1 = 0 .. 3 * Steps + 2
    BY ONLY <2>2
  <2>. QED BY <2>3, RankIs
<1>2. k \in Nat /\ a \in Nat /\ b \in Nat /\ a < b
  BY ServerBounds DEF Views
<1>. HIDE DEF k, a, b, x, y
<1>3. PICK d \in Nat : b = a + 1 + d
  <2>1. b - a - 1 \in Nat /\ b = a + 1 + (b - a - 1)
    BY ONLY <1>2
  <2>. QED BY ONLY <2>1
<1>4. k * b = k * a + k + k * d /\ k * d \in Nat /\ k * a \in Nat
  BY ONLY <1>2, <1>3
<1>5. k * a + x <= k * b + y
  BY ONLY <1>1, <1>2, <1>4
<1>. QED BY ONLY <1>1, <1>5

\* A view of the same session is later when its place in the session is.
LEMMA SameRun ==
  ASSUME NEW v \in Views, NEW w \in Views, v.run = w.run, Low(v) <= Low(w)
  PROVE  Rank(v) <= Rank(w)
<1>. DEFINE k == (3 * Steps + 3) * v.run
            x == Low(v)
            y == Low(w)
<1>1. Rank(v) = k + x /\ Rank(w) = k + y /\ x \in Int /\ y \in Int /\ k \in Int /\ x <= y
  <2>1. Rank(v) = k + x /\ Rank(w) = k + y
    BY RankIs
  <2>2. x \in Int /\ y \in Int
    BY RankIs
  <2>3. k \in Int
    <3>1. v.run \in Nat /\ Steps \in Nat
      BY ServerBounds DEF Views
    <3>. QED BY ONLY <3>1
  <2>. QED BY <2>1, <2>2, <2>3
<1>. HIDE DEF k, x, y
<1>2. k + x <= k + y
  BY ONLY <1>1
<1>. QED BY ONLY <1>1, <1>2

\* What the server has shown stays past.
Later ==
  /\ ServerOK'
  /\ \A v : Past(v) => v \in Views /\ v.run <= runs' /\ (up' => Rank(v) <= Rank(view'))

\* Nothing moves.
LEMMA ServerRests == ASSUME ServerOK, UNCHANGED serverVars PROVE Later
BY DEF Later, ServerOK, Past, serverVars

\* The view moves on within its session.
LEMMA SessionGoesOn ==
  ASSUME ServerOK, view' \in Views, up' = up, runs' = runs, view'.run = view.run,
         view'.busy => view'.next < Steps, Low(view) <= Low(view')
  PROVE  Later
<1>1. ServerOK'
  BY DEF ServerOK
<1>2. ASSUME NEW v, Past(v) PROVE v \in Views /\ v.run <= runs' /\ (up' => Rank(v) <= Rank(view'))
  <2>1. v \in Views /\ v.run <= runs'
    BY <1>2 DEF Past
  <2>2. ASSUME up' PROVE Rank(v) <= Rank(view')
    <3>. DEFINE a == Rank(v)
                b == Rank(view)
                c == Rank(view')
    <3>1. a <= b
      BY <1>2, <2>2 DEF Past
    <3>2. b <= c
      BY SameRun DEF ServerOK
    <3>3. a \in Nat /\ b \in Nat /\ c \in Nat
      BY <2>1, RankIs DEF ServerOK
    <3>. HIDE DEF a, b, c
    <3>4. a <= c
      BY ONLY <3>1, <3>2, <3>3
    <3>. QED BY ONLY <3>4 DEF a, c
  <2>. QED BY <2>1, <2>2
<1>. QED BY <1>1, <1>2 DEF Later

\* A new session is later than anything shown before.
LEMMA SessionBegins ==
  ASSUME ServerOK, NEW token \in Nat, up' \in BOOLEAN, runs' = runs + 1,
         view' = NewView(runs + 1, token)
  PROVE  Later
<1>1. runs \in Nat
  BY DEF ServerOK
<1>2. view' \in Views /\ view'.run = runs' /\ ~view'.busy /\ runs' \in Nat
  BY <1>1, ServerBounds DEF NewView, Views
<1>3. ServerOK'
  BY <1>2 DEF ServerOK
<1>4. ASSUME NEW v, Past(v) PROVE v \in Views /\ v.run <= runs' /\ (up' => Rank(v) <= Rank(view'))
  <2>1. v \in Views /\ v.run <= runs
    BY <1>4 DEF Past
  <2>2. v.run \in Nat
    BY <2>1 DEF Views
  <2>3. v.run < view'.run /\ v.run <= runs'
    BY <1>1, <1>2, <2>1, <2>2
  <2>4. Rank(v) <= Rank(view')
    BY <1>2, <2>1, <2>3, LaterRun
  <2>. QED BY <2>1, <2>3, <2>4
<1>. QED BY <1>3, <1>4 DEF Later

\* main.run begins a session.
LEMMA StartLater == ASSUME ServerOK, Start PROVE Later
<1>1. runs + 1 \in Nat
  BY DEF ServerOK
<1>. QED BY <1>1, SessionBegins DEF Start

\* The process ends: its views stay past.
LEMMA CrashLater == ASSUME ServerOK, Crash PROVE Later
<1>1. view' \in Views /\ ~view'.busy /\ up' = FALSE /\ runs' = runs
  BY ServerBounds DEF Crash, NewView, Views
<1>2. ServerOK'
  BY <1>1 DEF ServerOK
<1>. QED BY <1>1, <1>2 DEF Later, Past

\* A reset begins a session.
LEMMA ResetLater == ASSUME ServerOK, NEW req, ServeReset(req) PROVE Later
<1>1. view.token \in Nat /\ up' \in BOOLEAN
  BY DEF ServerOK, Views, ServeReset
<1>. QED BY <1>1, SessionBegins DEF ServeReset

\* A step is accepted.
LEMMA AdvanceLater == ASSUME ServerOK, NEW req, ServeAdvance(req) PROVE Later
<1>1. ~view.busy /\ ~view.failed /\ view.next < Steps /\ view \in Views
  <2>1. req.path = "advance" /\ Accepts(req)
    BY DEF ServeAdvance
  <2>2. Fits(req) /\ ~view.busy
    BY ONLY <2>1 DEF Accepts
  <2>3. req.path # "reset"
    BY ONLY <2>1
  <2>4. view.next < Steps /\ ~view.failed
    BY ONLY <2>2, <2>3, Zenon DEF Fits
  <2>5. view \in Views
    BY DEF ServerOK
  <2>. QED BY ONLY <2>2, <2>4, <2>5, Zenon
<1>2. view' = [view EXCEPT !.busy = TRUE] /\ up' = up /\ runs' = runs
  BY DEF ServeAdvance
<1>3. /\ view' \in Views /\ view'.run = view.run /\ view'.next = view.next /\ view'.busy
  BY <1>1, <1>2 DEF Views
<1>4. view.next \in Nat
  BY <1>1 DEF Views
<1>5. Low(view) <= Low(view')
  BY <1>1, <1>3, <1>4 DEF Low
<1>. QED BY <1>1, <1>2, <1>3, <1>5, SessionGoesOn

\* advance: the running step ends, well or badly.
LEMMA StepLater ==
  ASSUME ServerOK, view.busy, NEW ok \in BOOLEAN, advance(view.next, ok) PROVE Later
<1>1. view.next < Steps /\ view \in Views /\ view.next \in Nat
  BY DEF ServerOK, Views
<1>2. /\ up' = up /\ runs' = runs
      /\ view' = [view EXCEPT !.next = IF ok THEN view.next + 1 ELSE view.next,
                              !.busy = FALSE, !.failed = ~ok]
  BY DEF advance
<1>. DEFINE n == IF ok THEN view.next + 1 ELSE view.next
<1>3. n \in 0 .. Steps /\ view.next <= n /\ (ok => n = view.next + 1)
  BY <1>1, ServerBounds
<1>. HIDE DEF n
<1>4. /\ view' \in Views /\ view'.run = view.run /\ view'.next = n /\ view'.busy = FALSE
      /\ view'.failed = ~ok
  BY <1>1, <1>2, <1>3 DEF Views, n
<1>5. Low(view) <= Low(view')
  <2>1. Low(view) = 3 * view.next + 1
    BY DEF Low
  <2>2. CASE ok
    <3>1. Low(view') = 3 * n + 0
      BY <1>4, <2>2 DEF Low
    <3>. QED BY <1>1, <1>3, <2>1, <2>2, <3>1
  <2>3. CASE ~ok
    <3>1. Low(view') = 3 * n + 2
      BY <1>4, <2>3 DEF Low
    <3>. QED BY <1>1, <1>3, <2>1, <3>1
  <2>. QED BY <2>2, <2>3
<1>. QED BY <1>2, <1>4, <1>5, SessionGoesOn

\* The page does not go back.
Forward == page.shown # None => Rank(page'.shown) >= Rank(page.shown)

\* What a read may become when its answer does not arrive in the step: it has no
\* answer, or the one it had and no new right to be applied.
Kept(r, s) == s.got = None \/ (s.got = r.got /\ (s.fresh => r.fresh))

\* What was past is past after the step.
LEMMA PastStays ==
  ASSUME Later, NEW v, Past(v)
  PROVE  v \in Views /\ v.run <= runs' /\ (up' => Rank(v) <= Rank(view'))
BY DEF Later

\* Steps that leave what the page shows alone.
LEMMA ShownStays ==
  ASSUME PageInv, Later, tick' \in Reads, act' \in Actions, page' \in Pages,
         page'.shown = page.shown, Kept(tick, tick'), Kept(act, act'),
         ~(tick'.fresh /\ act'.fresh), act'.at # "got" => act'.got = None
  PROVE  PageInv' /\ Forward
<1>1. tick'.got # None => tick'.got = tick.got /\ (tick'.fresh => tick.fresh)
  BY DEF Kept
<1>2. act'.got # None => act'.got = act.got /\ (act'.fresh => act.fresh)
  BY DEF Kept
<1>3. tick'.got # None =>
        tick'.got \in Views /\ tick'.got.run <= runs' /\ (up' => Rank(tick'.got) <= Rank(view'))
  BY <1>1, PastStays DEF PageInv
<1>4. act'.got # None =>
        act'.got \in Views /\ act'.got.run <= runs' /\ (up' => Rank(act'.got) <= Rank(view'))
  BY <1>2, PastStays DEF PageInv
<1>5. page'.shown # None =>
        /\ page'.shown \in Views /\ page'.shown.run <= runs'
        /\ up' => Rank(page'.shown) <= Rank(view')
  BY PastStays DEF PageInv
<1>6. InOrder(tick)' /\ InOrder(act)'
  BY <1>1, <1>2 DEF PageInv, InOrder, Rank
<1>7. Forward
  <2>. SUFFICES ASSUME page.shown # None PROVE Rank(page'.shown) >= Rank(page.shown)
    BY DEF Forward
  <2>1. page.shown \in Views
    BY DEF PageInv, Past
  <2>2. Rank(page.shown) \in Nat
    BY <2>1, RankIs
  <2>. QED BY <2>2
<1>. QED BY <1>3, <1>4, <1>5, <1>6, <1>7 DEF PageInv, Later, Past, Rank

\* The fields of a read.
LEMMA ReadFields == ASSUME NEW r \in Reads
  PROVE r.at \in Places /\ r.fresh \in BOOLEAN /\ r.got \in Views \cup {None}
BY DEF Reads

\* The fields of an action.
LEMMA ActionFields == ASSUME NEW a \in Actions
  PROVE /\ a.at \in Places /\ a.fresh \in BOOLEAN /\ a.got \in Views \cup {None}
        /\ a.req \in Sent /\ a.ok \in BOOLEAN
BY DEF Actions

\* What the buttons and the automatic run post (app.js, action).
LEMMA Requests == ASSUME NEW v \in Views
  PROVE Advance(v.next, v.token) \in Sent /\ Reset(v.token) \in Sent
<1>1. v.next \in Nat /\ v.token \in Nat
  BY DEF Views
<1>. QED BY <1>1 DEF Sent

\* A read that only loses its right to be applied.
LEMMA StaleRead == ASSUME NEW r \in Reads
  PROVE Stale(r) \in Reads /\ Kept(r, Stale(r)) /\ ~Stale(r).fresh /\ Stale(r).at = r.at
BY DEF Reads, Stale, Kept

\* The same of an action.
LEMMA StaleAction == ASSUME NEW a \in Actions
  PROVE /\ Stale(a) \in Actions /\ Kept(a, Stale(a)) /\ ~Stale(a).fresh
        /\ Stale(a).at = a.at /\ Stale(a).got = a.got
BY DEF Actions, Stale, Kept

\* A read that is elsewhere on its way.
LEMMA ReadMoves == ASSUME NEW r \in Reads, NEW at \in Places
  PROVE /\ [r EXCEPT !.at = at] \in Reads /\ [r EXCEPT !.at = at].fresh = r.fresh
        /\ [r EXCEPT !.at = at].got = r.got
BY DEF Reads

\* The same of an action.
LEMMA ActionMoves == ASSUME NEW a \in Actions, NEW at \in Places
  PROVE /\ [a EXCEPT !.at = at] \in Actions /\ [a EXCEPT !.at = at].fresh = a.fresh
        /\ [a EXCEPT !.at = at].got = a.got /\ [a EXCEPT !.at = at].at = at
BY DEF Actions

\* The answer to its POST reaches an action.
LEMMA ActionAnswered == ASSUME NEW a \in Actions, NEW at \in Places, NEW b \in BOOLEAN
  PROVE /\ [a EXCEPT !.at = at, !.ok = b] \in Actions
        /\ [a EXCEPT !.at = at, !.ok = b].fresh = a.fresh
        /\ [a EXCEPT !.at = at, !.ok = b].got = a.got
BY DEF Actions

\* Neither an idle read nor an idle action has an answer.
LEMMA Idle == /\ Quiet \in Reads /\ NoAction \in Actions
              /\ Quiet.got = None /\ ~Quiet.fresh
              /\ NoAction.got = None /\ ~NoAction.fresh
<1>1. None \in Sent
  BY DEF Sent
<1>2. Quiet \in Reads
  BY DEF Quiet, Reads, Places
<1>3. NoAction \in Actions
  BY <1>1 DEF NoAction, Actions, Places
<1>4. Quiet.got = None /\ ~Quiet.fresh
  BY DEF Quiet
<1>5. NoAction.got = None /\ ~NoAction.fresh
  BY DEF NoAction
<1>. QED BY ONLY <1>2, <1>3, <1>4, <1>5

\* action(): the request leaves, no answer is there.
LEMMA Posted ==
  ASSUME act \in Actions, NEW req \in Sent, Post(req)
  PROVE  act' \in Actions /\ act'.got = None /\ ~act'.fresh
<1>. DEFINE new == [act EXCEPT !.at = "posted", !.req = req, !.fresh = FALSE, !.got = None]
<1>1. new \in Actions
  BY DEF Actions, Places
<1>2. new.got = None /\ ~new.fresh
  BY DEF Actions
<1>. QED BY <1>1, <1>2 DEF Post

\* Steps of the server alone.
LEMMA ServerSteps ==
  ASSUME PageInv, Later, UNCHANGED browser
  PROVE  PageInv' /\ Forward
<1>1. tick' = tick /\ act' = act /\ page' = page
  BY DEF browser
<1>2. Kept(tick, tick') /\ Kept(act, act')
  BY <1>1 DEF Kept
<1>3. /\ tick' \in Reads /\ act' \in Actions /\ page' \in Pages /\ page'.shown = page.shown
      /\ ~(tick'.fresh /\ act'.fresh) /\ (act'.at # "got" => act'.got = None)
  BY <1>1 DEF PageInv
<1>. QED BY <1>2, <1>3, ShownStays

\* The server starts (main.go, run).
LEMMA StartsStep == ASSUME PageInv, ServerStarts PROVE PageInv' /\ Forward
BY ServerSteps, StartLater DEF ServerStarts, PageInv

\* The server is killed: requests without an answer fail.
LEMMA KilledStep == ASSUME PageInv, ServerKilled PROVE PageInv' /\ Forward
<1>1. Later
  BY CrashLater DEF ServerKilled, PageInv
<1>2. tick \in Reads /\ act \in Actions /\ page' = page
  BY DEF ServerKilled, PageInv
<1>3. tick' \in Reads /\ tick'.fresh = tick.fresh /\ tick'.got = tick.got
  BY <1>2, ReadMoves DEF ServerKilled, Places
<1>4. /\ act' \in Actions /\ act'.fresh = act.fresh /\ act'.got = act.got
      /\ (act'.at # "got" => act.at # "got")
  BY <1>2, ActionMoves DEF ServerKilled, Places
<1>5. Kept(tick, tick') /\ Kept(act, act')
  BY <1>3, <1>4 DEF Kept
<1>. QED BY <1>1, <1>2, <1>3, <1>4, <1>5, ShownStays DEF PageInv

\* The step in the background ends (server.go, advance).
LEMMA StepDoneStep == ASSUME PageInv, StepDone PROVE PageInv' /\ Forward
<1>1. PICK ok \in BOOLEAN : advance(view.next, ok)
  BY DEF StepDone
<1>2. Later
  BY <1>1, StepLater DEF StepDone, PageInv
<1>. QED BY <1>2, ServerSteps DEF StepDone

\* The POST of the page is served.
LEMMA ServePostStep == ASSUME PageInv, ServePost PROVE PageInv' /\ Forward
<1>1. Later
  BY ResetLater, AdvanceLater, ServerRests DEF ServePost, PageInv
<1>2. act \in Actions /\ tick' = tick /\ page' = page /\ act.at = "posted" /\ up
  BY DEF ServePost, PageInv
<1>. DEFINE b == Accepts(act.req)
<1>3. act' = [act EXCEPT !.at = "replied", !.ok = b] /\ b \in BOOLEAN
  BY DEF ServePost, Accepts, Fits
<1>. HIDE DEF b
<1>4. /\ act' \in Actions /\ act'.fresh = act.fresh /\ act'.got = act.got
  BY <1>2, <1>3, ActionAnswered DEF Places
<1>5. act.got = None
  BY <1>2 DEF PageInv
<1>6. Kept(tick, tick') /\ Kept(act, act')
  BY <1>2, <1>4 DEF Kept
<1>. QED BY <1>1, <1>2, <1>4, <1>5, <1>6, ShownStays DEF PageInv

\* Another tab's POST is served.
LEMMA OtherTabStep == ASSUME PageInv, OtherTab PROVE PageInv' /\ Forward
<1>1. Later
  BY ResetLater, AdvanceLater DEF OtherTab, PageInv
<1>. QED BY <1>1, ServerSteps DEF OtherTab

\* Nobody listens for the POST.
LEMMA PostRefusedStep == ASSUME PageInv, PostRefused PROVE PageInv' /\ Forward
<1>1. Later
  BY ServerRests DEF PostRefused, PageInv
<1>2. act \in Actions /\ tick' = tick /\ page' = page /\ act.at = "posted"
  BY DEF PostRefused, PageInv
<1>3. /\ act' \in Actions /\ act'.fresh = act.fresh /\ act'.got = act.got
  BY <1>2, ActionMoves DEF PostRefused, Places
<1>4. act.got = None
  BY <1>2 DEF PageInv
<1>5. Kept(tick, tick') /\ Kept(act, act')
  BY <1>2, <1>3 DEF Kept
<1>. QED BY <1>1, <1>2, <1>3, <1>4, <1>5, ShownStays DEF PageInv

\* GET /api/state: what the server answers is not older than anything shown.
LEMMA AnswerIsNew ==
  ASSUME PageInv, up
  PROVE  Past(view) /\ (page.shown # None => Rank(view) >= Rank(page.shown))
<1>1. view \in Views /\ view.run = runs /\ runs \in Nat /\ Rank(view) \in Nat
  BY RankIs DEF PageInv, ServerOK
<1>2. Past(view)
  BY <1>1 DEF Past
<1>3. ASSUME page.shown # None PROVE Rank(view) >= Rank(page.shown)
  <2>1. Past(page.shown)
    BY <1>3 DEF PageInv
  <2>2. Rank(page.shown) <= Rank(view) /\ Rank(page.shown) \in Nat
    BY <2>1, RankIs DEF Past
  <2>. QED BY <1>1, <2>2
<1>. QED BY <1>2, <1>3

\* What an answer makes of a read.
LEMMA ReadAnswered ==
  ASSUME ServerOK, NEW r \in Reads
  PROVE  /\ Answer(r) \in Reads /\ Answer(r).fresh = r.fresh
         /\ Answer(r).got = IF up THEN view ELSE None
<1>. DEFINE g == IF up THEN view ELSE None
<1>1. g \in Views \cup {None} /\ "got" \in Places
  BY DEF ServerOK, Places
<1>. HIDE DEF g
<1>2. Answer(r) = [r EXCEPT !.at = "got", !.got = g]
  BY DEF Answer, g
<1>3. Answer(r) \in Reads /\ Answer(r).fresh = r.fresh /\ Answer(r).got = g
  BY <1>1, <1>2 DEF Reads
<1>. QED BY ONLY <1>3 DEF g

\* What an answer makes of the read that ends an action.
LEMMA ActionsRead ==
  ASSUME ServerOK, NEW a \in Actions
  PROVE  /\ Answer(a) \in Actions /\ Answer(a).fresh = a.fresh
         /\ Answer(a).got = IF up THEN view ELSE None
         /\ Answer(a).at = "got"
<1>. DEFINE g == IF up THEN view ELSE None
<1>1. g \in Views \cup {None} /\ "got" \in Places
  BY DEF ServerOK, Places
<1>. HIDE DEF g
<1>2. Answer(a) = [a EXCEPT !.at = "got", !.got = g]
  BY DEF Answer, g
<1>3. Answer(a) \in Actions /\ Answer(a).fresh = a.fresh /\ Answer(a).got = g /\ Answer(a).at = "got"
  BY <1>1, <1>2 DEF Actions
<1>. QED BY ONLY <1>3 DEF g

\* The timer's read is answered.
LEMMA ServeTickStep == ASSUME PageInv, ServeTick PROVE PageInv' /\ Forward
<1>1. Later
  BY ServerRests DEF ServeTick, PageInv
<1>2. up' = up /\ view' = view /\ runs' = runs /\ act' = act /\ page' = page
  BY DEF ServeTick, serverVars
<1>3. /\ tick' \in Reads /\ tick'.fresh = tick.fresh
      /\ tick'.got = IF up THEN view ELSE None
  BY ReadAnswered DEF ServeTick, PageInv
<1>4. tick'.got # None =>
        Past(tick'.got) /\ (page.shown # None => Rank(tick'.got) >= Rank(page.shown))
  BY <1>3, AnswerIsNew
<1>5. \A v : Past(v)' <=> Past(v)
  BY ONLY <1>2 DEF Past
<1>6. Forward
  <2>1. page.shown # None => Rank(page.shown) \in Nat
    BY RankIs DEF PageInv, Past
  <2>. QED BY <1>2, <2>1 DEF Forward
<1>. QED BY <1>1, <1>2, <1>3, <1>4, <1>5, <1>6 DEF PageInv, Later, InOrder

\* The action's read is answered.
LEMMA ServeRefreshStep == ASSUME PageInv, ServeRefresh PROVE PageInv' /\ Forward
<1>1. Later
  BY ServerRests DEF ServeRefresh, PageInv
<1>2. up' = up /\ view' = view /\ runs' = runs /\ tick' = tick /\ page' = page
  BY DEF ServeRefresh, serverVars
<1>3. /\ act' \in Actions /\ act'.fresh = act.fresh /\ act'.at = "got"
      /\ act'.got = IF up THEN view ELSE None
  BY ActionsRead DEF ServeRefresh, PageInv
<1>4. act'.got # None =>
        Past(act'.got) /\ (page.shown # None => Rank(act'.got) >= Rank(page.shown))
  BY <1>3, AnswerIsNew
<1>5. \A v : Past(v)' <=> Past(v)
  BY ONLY <1>2 DEF Past
<1>6. Forward
  <2>1. page.shown # None => Rank(page.shown) \in Nat
    BY RankIs DEF PageInv, Past
  <2>. QED BY <1>2, <2>1 DEF Forward
<1>. QED BY <1>1, <1>2, <1>3, <1>4, <1>5, <1>6 DEF PageInv, Later, InOrder

\* The page after an answer.
LEMMA AppliedIs ==
  ASSUME page \in Pages, NEW r, r.got \in Views \cup {None}
  PROVE  /\ Applied(r) \in Pages
         /\ Applied(r).shown = IF r.fresh /\ r.got # None THEN r.got ELSE page.shown
<1>1. CASE ~r.fresh
  BY <1>1 DEF Applied
<1>2. CASE r.fresh /\ r.got = None
  <2>1. Applied(r) = [page EXCEPT !.auto = FALSE, !.lost = TRUE]
    BY ONLY <1>2 DEF Applied
  <2>. QED BY <1>2, <2>1 DEF Pages
<1>3. CASE r.fresh /\ r.got # None
  <2>. DEFINE b == page.auto /\ ~r.got.failed /\ r.got.next < Steps
  <2>1. Applied(r) = [shown |-> r.got, lost |-> FALSE, auto |-> b]
    BY ONLY <1>3 DEF Applied
  <2>2. b \in BOOLEAN
    OBVIOUS
  <2>. HIDE DEF b
  <2>. QED BY <1>3, <2>1, <2>2 DEF Pages
<1>. QED BY <1>1, <1>2, <1>3

\* The page after a button.
LEMMA AutoSet ==
  ASSUME page \in Pages, NEW b \in BOOLEAN
  PROVE  [page EXCEPT !.auto = b] \in Pages /\ [page EXCEPT !.auto = b].shown = page.shown
BY DEF Pages

\* An answer that may be applied is shown.
LEMMA ShownMoves ==
  ASSUME PageInv, Later, tick' \in Reads, act' \in Actions, page' \in Pages,
         Kept(tick, tick'), Kept(act, act'), ~tick'.fresh, ~act'.fresh,
         act'.at # "got" => act'.got = None,
         NEW r, Past(r.got), InOrder(r), r.fresh, r.got # None, page'.shown = r.got
  PROVE  PageInv' /\ Forward
<1>1. tick'.got # None => tick'.got = tick.got
  BY DEF Kept
<1>2. act'.got # None => act'.got = act.got
  BY DEF Kept
<1>3. tick'.got # None =>
        tick'.got \in Views /\ tick'.got.run <= runs' /\ (up' => Rank(tick'.got) <= Rank(view'))
  BY <1>1, PastStays DEF PageInv
<1>4. act'.got # None =>
        act'.got \in Views /\ act'.got.run <= runs' /\ (up' => Rank(act'.got) <= Rank(view'))
  BY <1>2, PastStays DEF PageInv
<1>5. page'.shown \in Views /\ page'.shown.run <= runs' /\ (up' => Rank(page'.shown) <= Rank(view'))
  BY PastStays
<1>6. InOrder(tick)' /\ InOrder(act)'
  BY DEF InOrder
<1>7. Forward
  BY DEF Forward, InOrder
<1>. QED BY <1>3, <1>4, <1>5, <1>6, <1>7 DEF PageInv, Later, Past, Rank

\* The timer's read starts (app.js, poll).
LEMMA TickStep == ASSUME PageInv, Tick PROVE PageInv' /\ Forward
<1>1. Later /\ page' = page
  BY ServerRests DEF Tick, PageInv
<1>2. /\ act' \in Actions /\ Kept(act, act') /\ ~act'.fresh
      /\ act'.at = act.at /\ act'.got = act.got
  BY StaleAction DEF Tick, PageInv
<1>3. tick' \in Reads /\ tick'.got = None
  BY DEF Tick, Reads, Places
<1>4. Kept(tick, tick')
  BY <1>3 DEF Kept
<1>5. act'.at # "got" => act'.got = None
  BY <1>2 DEF PageInv
<1>6. page' \in Pages
  BY <1>1 DEF PageInv
<1>. QED BY <1>1, <1>2, <1>3, <1>4, <1>5, <1>6, ShownStays

\* The timer's answer is delivered (app.js, poll).
LEMMA PolledStep == ASSUME PageInv, Polled PROVE PageInv' /\ Forward
<1>1. Later
  BY ServerRests DEF Polled, PageInv
<1>2. tick \in Reads /\ act \in Actions /\ page \in Pages /\ tick.got \in Views \cup {None}
  BY ReadFields DEF PageInv
<1>3. /\ page' \in Pages
      /\ page'.shown = IF tick.fresh /\ tick.got # None THEN tick.got ELSE page.shown
  BY <1>2, AppliedIs DEF Polled
<1>4. tick' \in Reads /\ tick'.got = None /\ ~tick'.fresh
  <2>1. [Quiet EXCEPT !.at = "acting"] \in Reads /\ [Quiet EXCEPT !.at = "acting"].got = None
        /\ ~[Quiet EXCEPT !.at = "acting"].fresh
    BY DEF Quiet, Reads, Places
  <2>2. tick' = Quiet \/ tick' = [Quiet EXCEPT !.at = "acting"]
    BY DEF Polled
  <2>. QED BY <2>1, <2>2, Idle
<1>5. \/ act' = act
      \/ tick.got # None /\ tick.fresh /\ Post(Advance(tick.got.next, tick.got.token))
  BY DEF Polled
<1>6. \/ act' = act
      \/ act' \in Actions /\ act'.got = None /\ ~act'.fresh
  BY <1>2, <1>5, Requests, Posted
<1>7. act' \in Actions /\ Kept(act, act') /\ (act'.at # "got" => act'.got = None)
  BY <1>2, <1>6 DEF Kept, PageInv
<1>8. Kept(tick, tick')
  BY <1>4 DEF Kept
<1>9. CASE tick.fresh /\ tick.got # None
  <2>1. ~act'.fresh /\ Past(tick.got) /\ InOrder(tick)
    BY <1>6, <1>9 DEF PageInv
  <2>. QED BY <1>1, <1>3, <1>4, <1>7, <1>8, <1>9, <2>1, ShownMoves
<1>10. CASE ~(tick.fresh /\ tick.got # None)
  BY <1>1, <1>3, <1>4, <1>7, <1>8, <1>10, ShownStays
<1>. QED BY <1>9, <1>10

\* The end of an action leaves the timer's read as it is, or idle.
LEMMA ActionEndsStep ==
  ASSUME PageInv, ActionEnds
  PROVE  /\ act' \in Actions /\ act'.got = None /\ ~act'.fresh /\ Kept(act, act')
         /\ tick' \in Reads /\ Kept(tick, tick') /\ (tick'.fresh => tick.fresh)
<1>1. tick \in Reads /\ act' = NoAction /\ (tick' = Quiet \/ tick' = tick)
  BY DEF ActionEnds, PageInv
<1>. QED BY <1>1, Idle DEF Kept

\* The answer to the POST is delivered (app.js, action).
LEMMA AnsweredStep == ASSUME PageInv, Answered PROVE PageInv' /\ Forward
<1>1. Later /\ act.at = "replied"
  BY ServerRests DEF Answered, PageInv
<1>2. act.got = None /\ act \in Actions /\ tick \in Reads /\ page \in Pages
  BY <1>1 DEF PageInv
<1>3. CASE act.ok
  <2>1. act' = [act EXCEPT !.at = "asked", !.fresh = TRUE] /\ tick' = Stale(tick) /\ page' = page
    BY <1>3 DEF Answered
  <2>2. act' \in Actions /\ act'.got = None
    BY <1>2, <2>1 DEF Actions, Places
  <2>3. tick' \in Reads /\ Kept(tick, tick') /\ ~tick'.fresh
    BY <1>2, <2>1, StaleRead
  <2>4. Kept(act, act')
    BY <2>2 DEF Kept
  <2>. QED BY <1>1, <1>2, <2>1, <2>2, <2>3, <2>4, ShownStays
<1>4. CASE ~act.ok
  <2>1. page' = [page EXCEPT !.auto = FALSE] /\ ActionEnds
    BY <1>4 DEF Answered
  <2>2. page' \in Pages /\ page'.shown = page.shown
    BY <1>2, <2>1, AutoSet
  <2>. QED BY <1>1, <2>1, <2>2, ActionEndsStep, ShownStays
<1>. QED BY <1>3, <1>4

\* The answer to the action's read is delivered.
LEMMA RefreshedStep == ASSUME PageInv, Refreshed PROVE PageInv' /\ Forward
<1>1. Later /\ ActionEnds
  BY ServerRests DEF Refreshed, PageInv
<1>2. act \in Actions /\ page \in Pages /\ act.got \in Views \cup {None}
  BY ActionFields DEF PageInv
<1>3. /\ page' \in Pages
      /\ page'.shown = IF act.fresh /\ act.got # None THEN act.got ELSE page.shown
  BY <1>2, AppliedIs DEF Refreshed
<1>4. CASE act.fresh /\ act.got # None
  <2>1. ~tick.fresh /\ Past(act.got) /\ InOrder(act)
    BY <1>4 DEF PageInv
  <2>2. ~tick'.fresh
    BY <1>1, <2>1, ActionEndsStep
  <2>. QED BY <1>1, <1>3, <1>4, <2>1, <2>2, ActionEndsStep, ShownMoves
<1>5. CASE ~(act.fresh /\ act.got # None)
  BY <1>1, <1>3, <1>5, ActionEndsStep, ShownStays
<1>. QED BY <1>4, <1>5

\* A button that posts, or does not.
LEMMA ButtonStep ==
  ASSUME PageInv, UNCHANGED serverVars, page' \in Pages, page'.shown = page.shown,
         \/ UNCHANGED <<act, tick>>
         \/ tick' = Stale(tick) /\ \E req \in Sent : Post(req)
  PROVE  PageInv' /\ Forward
<1>1. Later
  BY ServerRests DEF PageInv
<1>2. tick \in Reads /\ act \in Actions
  BY DEF PageInv
<1>3. CASE UNCHANGED <<act, tick>>
  <2>1. Kept(tick, tick') /\ Kept(act, act')
    BY <1>3 DEF Kept
  <2>. QED BY <1>1, <1>2, <1>3, <2>1, ShownStays DEF PageInv
<1>4. CASE tick' = Stale(tick) /\ \E req \in Sent : Post(req)
  <2>1. act' \in Actions /\ act'.got = None /\ ~act'.fresh
    BY <1>2, <1>4, Posted
  <2>2. tick' \in Reads /\ Kept(tick, tick') /\ ~tick'.fresh
    BY <1>2, <1>4, StaleRead
  <2>3. Kept(act, act')
    BY <2>1 DEF Kept
  <2>. QED BY <1>1, <2>1, <2>2, <2>3, ShownStays
<1>. QED BY <1>3, <1>4

\* The button of the next step.
LEMMA ClickNextStep == ASSUME PageInv, ClickNext PROVE PageInv' /\ Forward
<1>1. page.shown \in Views /\ page' = page /\ page \in Pages
  BY DEF ClickNext, Shows, PageInv, Past
<1>2. Advance(page.shown.next, page.shown.token) \in Sent
  BY <1>1, Requests
<1>. QED BY <1>1, <1>2, ButtonStep DEF ClickNext

\* The button of the automatic run.
LEMMA ClickAutoStep == ASSUME PageInv, ClickAuto PROVE PageInv' /\ Forward
<1>1. page.shown \in Views /\ page \in Pages /\ page.auto \in BOOLEAN
  BY DEF ClickAuto, Shows, PageInv, Past, Pages
<1>2. Advance(page.shown.next, page.shown.token) \in Sent
  BY <1>1, Requests
<1>. DEFINE b == ~page.auto
<1>3. page' = [page EXCEPT !.auto = b] /\ b \in BOOLEAN
  BY DEF ClickAuto
<1>. HIDE DEF b
<1>4. page' \in Pages /\ page'.shown = page.shown
  BY <1>1, <1>3, AutoSet
<1>. QED BY <1>2, <1>4, ButtonStep DEF ClickAuto

\* The reset button.
LEMMA ClickResetStep == ASSUME PageInv, ClickReset PROVE PageInv' /\ Forward
<1>1. page.shown \in Views /\ page \in Pages
  BY DEF ClickReset, Shows, PageInv, Past
<1>2. Reset(page.shown.token) \in Sent
  BY <1>1, Requests
<1>3. page' \in Pages /\ page'.shown = page.shown
  BY <1>1, AutoSet DEF ClickReset
<1>. QED BY <1>2, <1>3, ButtonStep DEF ClickReset

\* The invariant holds at the start.
LEMMA PageStart == PageInit => PageInv
<1>. SUFFICES ASSUME PageInit PROVE PageInv
  OBVIOUS
<1>1. view \in Views /\ ~view.busy /\ up = FALSE /\ runs = 0
  BY ServerBounds DEF PageInit, ServerInit, NewView, Views
<1>2. ServerOK
  BY <1>1 DEF ServerOK
<1>3. tick = Quiet /\ act = NoAction /\ page.shown = None /\ page \in Pages
  BY DEF PageInit, Pages
<1>4. /\ tick \in Reads /\ act \in Actions /\ tick.got = None /\ act.got = None
      /\ ~tick.fresh /\ ~act.fresh
  BY <1>3, Idle
<1>. QED BY <1>2, <1>3, <1>4 DEF PageInv, InOrder

\* Every step keeps the invariant, and the page moves forward.
LEMMA PageStep ==
  ASSUME PageInv, [PageNext]_pageVars
  PROVE  PageInv' /\ [Forward]_pageVars
<1>1. CASE ServerStarts \/ ServerKilled \/ StepDone
  BY <1>1, StartsStep, KilledStep, StepDoneStep
<1>2. CASE ServePost \/ OtherTab \/ ServeTick \/ ServeRefresh \/ PostRefused
  BY <1>2, ServePostStep, OtherTabStep, ServeTickStep, ServeRefreshStep, PostRefusedStep
<1>3. CASE Tick \/ Polled \/ Answered \/ Refreshed
  BY <1>3, TickStep, PolledStep, AnsweredStep, RefreshedStep
<1>4. CASE ClickNext \/ ClickAuto \/ ClickReset
  BY <1>4, ClickNextStep, ClickAutoStep, ClickResetStep
<1>5. CASE UNCHANGED pageVars
  <2>1. UNCHANGED serverVars /\ UNCHANGED browser
    BY <1>5 DEF pageVars
  <2>. QED BY <1>5, <2>1, ServerRests, ServerSteps DEF PageInv
<1>. QED BY <1>1, <1>2, <1>3, <1>4, <1>5 DEF PageNext

\* The page never shows an older state after a newer one, in whichever order its
\* reads are answered, through resets, restarts and other tabs' requests (app.js,
\* requestGeneration).
THEOREM PageGoesForward == PageSpec => NeverBackwards
<1>1. PageInv /\ [PageNext]_pageVars => PageInv'
  BY PageStep
<1>2. PageInv /\ [PageNext]_pageVars =>
        [page.shown # None => Rank(page'.shown) >= Rank(page.shown)]_pageVars
  BY PageStep DEF Forward
<1>. QED BY <1>1, <1>2, PageStart, PTL DEF PageSpec, NeverBackwards
\* An accepted request is one that any client may post: its fields are those the server
\* compares with its view.
LEMMA PostIsServed ==
  ASSUME ServerOK, NEW req, ServeReset(req) \/ ServeAdvance(req) PROVE ServerNext
<1>1. view.next \in 0 .. Steps
  BY DEF ServerOK, Views
<1>2. CASE ServeReset(req)
  <2>1. req.path = "reset" /\ Accepts(req)
    BY <1>2 DEF ServeReset
  <2>2. up /\ ~view.busy
    BY <2>1 DEF Accepts
  <2>3. Accepts(Reset(view.token)) /\ Reset(view.token).path = "reset"
    BY <2>2 DEF Accepts, Fits, Reset
  <2>4. ServeReset(Reset(view.token))
    BY <1>2, <2>3 DEF ServeReset
  <2>. QED BY <2>4 DEF ServerNext
<1>3. CASE ServeAdvance(req)
  <2>. DEFINE a == Advance(view.next, view.token)
  <2>1. req.path = "advance" /\ Accepts(req)
    BY <1>3 DEF ServeAdvance
  <2>2. up /\ ~view.busy /\ view.next < Steps /\ ~view.failed
    <3>1. Fits(req) /\ up /\ ~view.busy
      BY ONLY <2>1 DEF Accepts
    <3>2. req.path # "reset"
      BY ONLY <2>1
    <3>3. view.next < Steps /\ ~view.failed
      BY ONLY <3>1, <3>2, Zenon DEF Fits
    <3>. QED BY ONLY <3>1, <3>3, Zenon
  <2>3. a.path = "advance" /\ a.step = view.next /\ a.token = view.token
    BY DEF Advance
  <2>. HIDE DEF a
  <2>4. Accepts(a)
    BY ONLY <2>2, <2>3, Zenon DEF Accepts, Fits
  <2>5. ServeAdvance(a)
    BY <1>3, <2>3, <2>4 DEF ServeAdvance
  <2>. QED BY <1>1, <2>5 DEF ServerNext, a
<1>. QED BY <1>2, <1>3

\* A step of the composition is a step of the server, or one it does not notice.
LEMMA ServerMoves ==
  ASSUME PageInv, [PageNext]_pageVars PROVE [ServerNext]_serverVars
<1>0. ServerOK
  BY DEF PageInv
<1>1. CASE ServerStarts \/ ServerKilled
  BY <1>1 DEF ServerStarts, ServerKilled, ServerNext
<1>2. CASE StepDone
  BY <1>2 DEF StepDone, ServerNext
<1>3. CASE ServePost
  BY <1>0, <1>3, PostIsServed DEF ServePost
<1>4. CASE OtherTab
  BY <1>4 DEF OtherTab, ServerNext
<1>5. CASE ServeTick \/ ServeRefresh \/ PostRefused
  BY <1>5 DEF ServeTick, ServeRefresh, PostRefused
<1>6. CASE Tick \/ Polled \/ Answered \/ Refreshed
  BY <1>6 DEF Tick, Polled, Answered, Refreshed
<1>7. CASE ClickNext \/ ClickAuto \/ ClickReset
  BY <1>7 DEF ClickNext, ClickAuto, ClickReset
<1>8. CASE UNCHANGED pageVars
  BY <1>8 DEF pageVars
<1>. QED BY <1>1, <1>2, <1>3, <1>4, <1>5, <1>6, <1>7, <1>8 DEF PageNext

\* The server the page talks to, with a step as one action, does what Demo's server with
\* its engine does: both implement ServerSpec (server.go, ServeHTTP and advance).
THEOREM PageServer == PageSpec => ServerSpec
<1>1. PageInit => ServerInit
  BY DEF PageInit
<1>2. PageInv /\ [PageNext]_pageVars => PageInv'
  BY PageStep
<1>3. PageInv /\ [PageNext]_pageVars => [ServerNext]_serverVars
  BY ServerMoves
<1>. QED BY <1>1, <1>2, <1>3, PageStart, PTL DEF PageSpec, ServerSpec
=============================================================================
