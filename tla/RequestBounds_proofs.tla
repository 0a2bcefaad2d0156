------------------------- MODULE RequestBounds_proofs -------------------------
(***************************************************************************)
(* How far overlapping calls can break "one pending request per user" and  *)
(* "one use of a coupon per user" in PurchaseRequests: by at most one      *)
(* request per call in progress, for every number of users, requests and   *)
(* calls, and calls that die included.                                     *)
(***************************************************************************)
EXTENDS PurchaseRequests_proofs

LEMMA SetsShrink ==
  ASSUME NEW A, NEW B, IsFiniteSet(A), IsFiniteSet(B), NEW n \in Nat,
         Cardinality(A) + Cardinality(B) <= n,
         NEW C, NEW D, C \subseteq A, D \subseteq B
  PROVE  Cardinality(C) + Cardinality(D) <= n
<1>1. /\ Cardinality(A) \in Nat /\ Cardinality(B) \in Nat
      /\ Cardinality(C) <= Cardinality(A) /\ Cardinality(D) <= Cardinality(B)
      /\ Cardinality(C) \in Nat /\ Cardinality(D) \in Nat
  BY FS_CardinalityType, FS_Subset
<1>. QED BY <1>1

\* A request for a call.
LEMMA SetsSwap ==
  ASSUME NEW A, NEW B, IsFiniteSet(A), IsFiniteSet(B), NEW n \in Nat,
         Cardinality(A) + Cardinality(B) <= n,
         NEW r, NEW w \in B, NEW C \in SUBSET (A \cup {r}), NEW D \in SUBSET (B \ {w})
  PROVE  Cardinality(C) + Cardinality(D) <= n
<1>1. /\ Cardinality(A) \in Nat /\ Cardinality(B) \in Nat
      /\ IsFiniteSet(A \cup {r}) /\ IsFiniteSet(B \ {w})
      /\ Cardinality(A \cup {r}) <= Cardinality(A) + 1
      /\ Cardinality(B \ {w}) = Cardinality(B) - 1
  BY FS_CardinalityType, FS_AddElement, FS_RemoveElement
<1>2. Cardinality(A \cup {r}) + Cardinality(B \ {w}) <= n
  BY <1>1, FS_CardinalityType
<1>. QED BY <1>1, <1>2, SetsShrink

\* Each request in A has a call of its own, and none of these is in B.
LEMMA OwnCalls ==
  ASSUME NEW S, IsFiniteSet(S), NEW A, NEW B \in SUBSET S, NEW V \in SUBSET S, V \cap B = {},
         NEW f, \A r \in A : \E v \in V : f[v] = r
  PROVE  Cardinality(A) + Cardinality(B) <= Cardinality(S)
<1>. DEFINE U == {v \in V : f[v] \in A}
            g == [v \in U |-> f[v]]
<1>1. g \in Surjection(U, A)
  BY DEF Surjection
<1>2. IsFiniteSet(V) /\ IsFiniteSet(B) /\ IsFiniteSet(U)
  BY FS_Subset
<1>3. Cardinality(A) <= Cardinality(U) /\ IsFiniteSet(A)
  <2>. HIDE DEF U, g
  <2>. QED BY <1>1, <1>2, FS_Surjection
<1>4. Cardinality(U \cup B) = Cardinality(U) + Cardinality(B)
  <2>1. U \cap B = {}
    OBVIOUS
  <2>2. Cardinality(U \cup B) = Cardinality(U) + Cardinality(B) - Cardinality(U \cap B)
    BY <1>2, FS_Union
  <2>3. Cardinality(U \cap B) = 0 /\ Cardinality(U) \in Nat /\ Cardinality(B) \in Nat
    BY <1>2, <2>1, FS_EmptySet, FS_CardinalityType
  <2>. QED BY <2>2, <2>3
<1>5. Cardinality(U \cup B) <= Cardinality(S)
  BY FS_Subset
<1>6. /\ Cardinality(A) \in Nat /\ Cardinality(B) \in Nat /\ Cardinality(U) \in Nat
      /\ Cardinality(U \cup B) \in Nat /\ Cardinality(S) \in Nat
  BY <1>2, <1>3, FS_CardinalityType, FS_Union
<1>. QED BY <1>3, <1>4, <1>5, <1>6
-----------------------------------------------------------------------------
InFlight(u) == Pending(u) \cup BeingSet(u, {"PENDING"})

UsesInFlight(u, c) == LiveUses(u, c) \cup
    {r \in BeingSet(u, {"PENDING", "APPROVED"}) : requests[r].coupon = c}

BoundsInv == TypeInv /\ PendingBounded /\ UsesBounded

LEMMA BoundsFinite ==
  ASSUME NEW u, NEW c
  PROVE  /\ IsFiniteSet(InFlight(u)) /\ IsFiniteSet(CreatesPastPendingCheck(u))
         /\ IsFiniteSet(UsesInFlight(u, c)) /\ IsFiniteSet(CreatesPastUseCheck(u, c))
         /\ Cardinality(Workers) \in Nat
<1>1. InFlight(u) \subseteq Requests /\ UsesInFlight(u, c) \subseteq Requests
  BY DEF InFlight, UsesInFlight, Pending, LiveUses, BeingSet
<1>2. CreatesPastPendingCheck(u) \subseteq Workers /\ CreatesPastUseCheck(u, c) \subseteq Workers
  BY DEF CreatesPastPendingCheck, CreatesPastUseCheck
<1>. QED BY <1>1, <1>2, WorkersAssumption, FS_Subset, FS_CardinalityType

PendingOf(u) ==
    Cardinality(InFlight(u)) + Cardinality(CreatesPastPendingCheck(u)) <= Cardinality(Workers)

UsesBy(u, c) ==
    Cardinality(UsesInFlight(u, c)) + Cardinality(CreatesPastUseCheck(u, c)) <= Cardinality(Workers)

LEMMA BoundsAgain ==
  /\ PendingBounded <=> \A u \in Users : PendingOf(u)
  /\ UsesBounded <=> \A u \in Users, c \in Coupons : UsesBy(u, c)
  BY DEF PendingBounded, UsesBounded, PendingOf, UsesBy, InFlight, UsesInFlight

LEMMA InitBounds == Init => BoundsInv
<1> SUFFICES ASSUME Init PROVE BoundsInv
  OBVIOUS
<1>1. ASSUME NEW u \in Users, NEW c \in Coupons
      PROVE  /\ InFlight(u) = {} /\ CreatesPastPendingCheck(u) = {}
             /\ UsesInFlight(u, c) = {} /\ CreatesPastUseCheck(u, c) = {}
  BY PRAssumption DEF Init, InFlight, Pending, BeingSet, CreatesPastPendingCheck, Creating, Idle,
     Absent, UsesInFlight, LiveUses, CreatesPastUseCheck
<1>2. Cardinality({}) = 0 /\ Cardinality(Workers) \in Nat
  BY FS_EmptySet, FS_CardinalityType, WorkersAssumption
<1>3. ASSUME NEW u \in Users PROVE PendingOf(u)
  <2>1. InFlight(u) = {} /\ CreatesPastPendingCheck(u) = {}
    BY DEF Init, InFlight, Pending, BeingSet, CreatesPastPendingCheck, Creating, Idle, Absent
  <2>. QED BY <1>2, <2>1 DEF PendingOf
<1>4. ASSUME NEW u \in Users, NEW c \in Coupons PROVE UsesBy(u, c)
  BY <1>1, <1>2 DEF UsesBy
<1>. QED BY <1>3, <1>4, BoundsAgain, InitTypeInv DEF BoundsInv
-----------------------------------------------------------------------------
(* The requests and the calls of one user, step by step *)

LEMMA PendingShrinks ==
  ASSUME BoundsInv, NEW u \in Users, InFlight(u)' \subseteq InFlight(u),
         CreatesPastPendingCheck(u)' \subseteq CreatesPastPendingCheck(u)
  PROVE  PendingOf(u)'
<1>. DEFINE A == InFlight(u)'
            B == CreatesPastPendingCheck(u)'
<1>1. PendingOf(u)
  BY BoundsAgain DEF BoundsInv
<1>2. Cardinality(A) + Cardinality(B) <= Cardinality(Workers)
  BY <1>1, BoundsFinite, SetsShrink DEF PendingOf
<1>. QED BY <1>2 DEF PendingOf

LEMMA UsesShrink ==
  ASSUME BoundsInv, NEW u \in Users, NEW c \in Coupons,
         UsesInFlight(u, c)' \subseteq UsesInFlight(u, c),
         CreatesPastUseCheck(u, c)' \subseteq CreatesPastUseCheck(u, c)
  PROVE  UsesBy(u, c)'
<1>. DEFINE A == UsesInFlight(u, c)'
            B == CreatesPastUseCheck(u, c)'
<1>1. UsesBy(u, c)
  BY BoundsAgain DEF BoundsInv
<1>2. Cardinality(A) + Cardinality(B) <= Cardinality(Workers)
  BY <1>1, BoundsFinite, SetsShrink DEF UsesBy
<1>. QED BY <1>2 DEF UsesBy

\* A call becomes a request.
LEMMA PendingSwap ==
  ASSUME BoundsInv, NEW u \in Users, NEW r, NEW w \in CreatesPastPendingCheck(u),
         InFlight(u)' \subseteq InFlight(u) \cup {r},
         CreatesPastPendingCheck(u)' \subseteq CreatesPastPendingCheck(u) \ {w}
  PROVE  PendingOf(u)'
<1>1. PICK A, B, C, D, n : /\ A = InFlight(u) /\ B = CreatesPastPendingCheck(u)
                           /\ C = InFlight(u)' /\ D = CreatesPastPendingCheck(u)'
                           /\ n = Cardinality(Workers)
  OBVIOUS
<1>2. PendingOf(u) /\ IsFiniteSet(InFlight(u)) /\ IsFiniteSet(CreatesPastPendingCheck(u)) /\ n \in Nat
  BY <1>1, BoundsAgain, BoundsFinite DEF BoundsInv
<1>3. /\ Cardinality(A) + Cardinality(B) <= n /\ n \in Nat /\ IsFiniteSet(A) /\ IsFiniteSet(B)
      /\ C \in SUBSET (A \cup {r}) /\ D \in SUBSET (B \ {w}) /\ w \in B
  BY <1>1, <1>2 DEF PendingOf
<1>4. Cardinality(C) + Cardinality(D) <= n
  BY ONLY <1>3, SetsSwap
<1>. QED BY <1>1, <1>4 DEF PendingOf

LEMMA UsesSwap ==
  ASSUME BoundsInv, NEW u \in Users, NEW c \in Coupons, NEW r, NEW w \in CreatesPastUseCheck(u, c),
         UsesInFlight(u, c)' \subseteq UsesInFlight(u, c) \cup {r},
         CreatesPastUseCheck(u, c)' \subseteq CreatesPastUseCheck(u, c) \ {w}
  PROVE  UsesBy(u, c)'
<1>1. PICK A, B, C, D, n : /\ A = UsesInFlight(u, c) /\ B = CreatesPastUseCheck(u, c)
                           /\ C = UsesInFlight(u, c)' /\ D = CreatesPastUseCheck(u, c)'
                           /\ n = Cardinality(Workers)
  OBVIOUS
<1>2. UsesBy(u, c) /\ IsFiniteSet(UsesInFlight(u, c)) /\ IsFiniteSet(CreatesPastUseCheck(u, c)) /\ n \in Nat
  BY <1>1, BoundsAgain, BoundsFinite DEF BoundsInv
<1>3. /\ Cardinality(A) + Cardinality(B) <= n /\ n \in Nat /\ IsFiniteSet(A) /\ IsFiniteSet(B)
      /\ C \in SUBSET (A \cup {r}) /\ D \in SUBSET (B \ {w}) /\ w \in B
  BY <1>1, <1>2 DEF UsesBy
<1>4. Cardinality(C) + Cardinality(D) <= n
  BY ONLY <1>3, SetsSwap
<1>. QED BY <1>1, <1>4 DEF UsesBy

\* A call that moves without writing a request and without passing the check
\* of a pending request adds nothing; it may be about to set a PENDING request.
LEMMA QuietPending ==
  ASSUME BoundsInv, NEW w \in Workers, requests' = requests,
         \A v \in Workers : v # w => calls'[v] = calls[v],
         calls'[w].pc \in Creating => calls[w].pc \in Creating /\ calls'[w].user = calls[w].user,
         calls'[w].pc = "decide" => requests[calls'[w].req].status = "PENDING",
         NEW u \in Users
  PROVE  PendingOf(u)'
<1>1. InFlight(u)' \subseteq InFlight(u)
  BY DEF InFlight, Pending, BeingSet
<1>2. CreatesPastPendingCheck(u)' \subseteq CreatesPastPendingCheck(u)
  BY DEF CreatesPastPendingCheck
<1>. QED BY <1>1, <1>2, PendingShrinks

\* The same for the check of an earlier use.
LEMMA QuietUses ==
  ASSUME BoundsInv, NEW w \in Workers, requests' = requests,
         \A v \in Workers : v # w => calls'[v] = calls[v],
         calls'[w].pc = "commit" => calls'[w].coupon = None,
         calls'[w].pc = "decide" => requests[calls'[w].req].status = "PENDING",
         NEW u \in Users, NEW c \in Coupons
  PROVE  UsesBy(u, c)'
<1>1. UsesInFlight(u, c)' \subseteq UsesInFlight(u, c)
  BY DEF UsesInFlight, LiveUses, BeingSet
<1>2. CreatesPastUseCheck(u, c)' \subseteq CreatesPastUseCheck(u, c)
  BY PRAssumption DEF CreatesPastUseCheck
<1>. QED BY <1>1, <1>2, UsesShrink

LEMMA OneMoves ==
  ASSUME TypeInv, NEW w \in Workers
  PROVE  /\ Return(w) => /\ \A v \in Workers : v # w => calls'[v] = calls[v]
                         /\ calls'[w].pc = "idle"
         /\ \A pc \in Steps : Goto(w, pc) =>
               /\ \A v \in Workers : v # w => calls'[v] = calls[v]
               /\ calls'[w].pc = pc /\ calls'[w].user = calls[w].user
               /\ calls'[w].coupon = calls[w].coupon
  BY IdleType DEF Return, Goto, TypeInv, TypeOK, Calls

\* With no pending request found, what is in flight are calls of updateStatus.
LEMMA CreateStartBounds ==
  ASSUME BoundsInv, NEW w \in Workers, NEW u \in Users, NEW t \in Templates,
         NEW c \in Coupons \cup {None}, NEW p \in Phones, CreateStart(w, u, t, c, p)
  PROVE  /\ \A x \in Users : PendingOf(x)'
         /\ \A x \in Users, d \in Coupons : UsesBy(x, d)'
<1>. DEFINE pc == IF c = None THEN "commit" ELSE "readCoupon"
            k == [Idle EXCEPT !.pc = pc, !.user = u, !.template = t, !.coupon = c, !.phone = p]
<1>1. /\ calls' = [calls EXCEPT ![w] = k] /\ requests' = requests /\ calls[w].pc = "idle"
      /\ calls \in [Workers -> Calls] /\ ~HasPending(u)
  BY DEF CreateStart, BoundsInv, TypeInv, TypeOK
<1>2. /\ k.pc \in {"commit", "readCoupon"} /\ k.user = u /\ k.coupon = c
      /\ k.pc = "commit" => c = None
  BY DEF Idle
<1>. HIDE DEF k
<1>3. calls'[w] = k /\ \A v \in Workers : v # w => calls'[v] = calls[v]
  BY <1>1
<1>4. ASSUME NEW x \in Users, NEW d \in Coupons PROVE UsesBy(x, d)'
  BY <1>1, <1>2, <1>3, QuietUses
<1>5. ASSUME NEW x \in Users, x # u PROVE PendingOf(x)'
  <2>1. InFlight(x)' \subseteq InFlight(x)
    BY <1>1, <1>2, <1>3 DEF InFlight, Pending, BeingSet
  <2>2. CreatesPastPendingCheck(x)' \subseteq CreatesPastPendingCheck(x)
    BY <1>2, <1>3, <1>5 DEF CreatesPastPendingCheck
  <2>. QED BY <2>1, <2>2, PendingShrinks
<1>6. PendingOf(u)'
  <2>. DEFINE A == InFlight(u)'
              B == CreatesPastPendingCheck(u)'
              V == {v \in Workers : calls[v].pc = "decide"}
              f == [v \in V |-> calls[v].req]
  <2>1. \A r \in A : \E v \in V : f[v] = r
    BY <1>1, <1>2, <1>3 DEF InFlight, Pending, BeingSet, HasPending
  <2>2. V \cap B = {} /\ B \subseteq Workers /\ V \subseteq Workers
    BY <1>1, <1>3 DEF CreatesPastPendingCheck, Creating
  <2>. HIDE DEF A, B, V, f
  <2>3. Cardinality(A) + Cardinality(B) <= Cardinality(Workers)
    BY <2>1, <2>2, OwnCalls, WorkersAssumption
  <2>. QED BY <2>3 DEF PendingOf, A, B
<1>. QED BY <1>4, <1>5, <1>6

\* With no earlier use found, the same holds of the uses of the coupon.
LEMMA ReadUseBounds ==
  ASSUME BoundsInv, NEW w \in Workers, CreateReadUse(w)
  PROVE  /\ \A x \in Users : PendingOf(x)'
         /\ \A x \in Users, d \in Coupons : UsesBy(x, d)'
<1>1. requests' = requests /\ calls[w].pc = "readUse"
  BY DEF CreateReadUse
<1>2. CASE Return(w)
  BY <1>1, <1>2, OneMoves, QuietPending, QuietUses DEF BoundsInv, Creating
<1>3. CASE Goto(w, "commit") /\ ~HasUsed(calls[w].user, calls[w].coupon)
  <2>1. /\ \A v \in Workers : v # w => calls'[v] = calls[v]
        /\ calls'[w].pc = "commit" /\ calls'[w].user = calls[w].user
        /\ calls'[w].coupon = calls[w].coupon
    BY <1>3, OneMoves DEF BoundsInv, Steps
  <2>2. ASSUME NEW x \in Users PROVE PendingOf(x)'
    BY <1>1, <2>1, QuietPending DEF Creating
  <2>3. ASSUME NEW x \in Users, NEW d \in Coupons PROVE UsesBy(x, d)'
    <3>1. CASE x = calls[w].user /\ d = calls[w].coupon
      <4>. DEFINE A == UsesInFlight(x, d)'
                  B == CreatesPastUseCheck(x, d)'
                  V == {v \in Workers : calls[v].pc = "decide"}
                  f == [v \in V |-> calls[v].req]
      <4>1. \A r \in A : \E v \in V : f[v] = r
        BY <1>1, <1>3, <2>1, <3>1 DEF UsesInFlight, LiveUses, BeingSet, HasUsed
      <4>2. V \cap B = {} /\ B \subseteq Workers /\ V \subseteq Workers
        BY <1>1, <2>1 DEF CreatesPastUseCheck
      <4>. HIDE DEF A, B, V, f
      <4>3. Cardinality(A) + Cardinality(B) <= Cardinality(Workers)
        BY <4>1, <4>2, OwnCalls, WorkersAssumption
      <4>. QED BY <4>3 DEF UsesBy, A, B
    <3>2. CASE x # calls[w].user \/ d # calls[w].coupon
      <4>1. UsesInFlight(x, d)' \subseteq UsesInFlight(x, d)
        BY <1>1, <2>1 DEF UsesInFlight, LiveUses, BeingSet
      <4>2. CreatesPastUseCheck(x, d)' \subseteq CreatesPastUseCheck(x, d)
        BY <2>1, <3>2 DEF CreatesPastUseCheck
      <4>. QED BY <4>1, <4>2, UsesShrink
    <3>. QED BY <3>1, <3>2
  <2>. QED BY <2>2, <2>3
<1>. QED BY <1>2, <1>3 DEF CreateReadUse

\* A create call trades itself for its request.
LEMMA CommitBounds ==
  ASSUME BoundsInv, NEW w \in Workers, CreateCommit(w)
  PROVE  /\ \A x \in Users : PendingOf(x)'
         /\ \A x \in Users, d \in Coupons : UsesBy(x, d)'
<1>0. TypeInv
  BY DEF BoundsInv
<1>1. /\ calls[w].pc = "commit" /\ calls'[w].pc = "readPhone"
      /\ \A v \in Workers : v # w => calls'[v] = calls[v]
  BY <1>0, OneMoves DEF CreateCommit, Steps
<1>. DEFINE row == [status |-> IF AutoApproved(calls[w]) THEN "APPROVED" ELSE "PENDING",
                    user |-> calls[w].user, template |-> calls[w].template,
                    coupon |-> calls[w].coupon]
<1>2. PICK r \in Requests : requests' = [requests EXCEPT ![r] = row]
  BY DEF CreateCommit, FreshIds
<1>6. row.user = calls[w].user /\ row.coupon = calls[w].coupon
  OBVIOUS
<1>. HIDE DEF row
<1>3. requests'[r] = row /\ \A q \in Requests : q # r => requests'[q] = requests[q]
  BY <1>0, <1>2 DEF TypeInv, TypeOK
<1>4. ASSUME NEW x \in Users PROVE PendingOf(x)'
  <2>. DEFINE A == InFlight(x)'
              B == CreatesPastPendingCheck(x)'
  <2>1. CASE x = calls[w].user
    <3>1. A \subseteq InFlight(x) \cup {r}
      BY <1>1, <1>3 DEF InFlight, Pending, BeingSet
    <3>2. B \subseteq CreatesPastPendingCheck(x) \ {w} /\ w \in CreatesPastPendingCheck(x)
      BY <1>1, <2>1 DEF CreatesPastPendingCheck, Creating
    <3>. QED BY <3>1, <3>2, PendingSwap
  <2>2. CASE x # calls[w].user
    <3>1. A \subseteq InFlight(x)
      BY <1>1, <1>6, <1>3, <2>2 DEF InFlight, Pending, BeingSet
    <3>2. B \subseteq CreatesPastPendingCheck(x)
      BY <1>1 DEF CreatesPastPendingCheck, Creating
    <3>. QED BY <3>1, <3>2, PendingShrinks
  <2>. QED BY <2>1, <2>2
<1>5. ASSUME NEW x \in Users, NEW d \in Coupons PROVE UsesBy(x, d)'
  <2>. DEFINE A == UsesInFlight(x, d)'
              B == CreatesPastUseCheck(x, d)'
  <2>1. CASE x = calls[w].user /\ d = calls[w].coupon
    <3>1. A \subseteq UsesInFlight(x, d) \cup {r}
      BY <1>1, <1>3 DEF UsesInFlight, LiveUses, BeingSet
    <3>2. B \subseteq CreatesPastUseCheck(x, d) \ {w} /\ w \in CreatesPastUseCheck(x, d)
      BY <1>1, <2>1 DEF CreatesPastUseCheck
    <3>. QED BY <3>1, <3>2, UsesSwap
  <2>2. CASE x # calls[w].user \/ d # calls[w].coupon
    <3>1. A \subseteq UsesInFlight(x, d)
      BY <1>1, <1>6, <1>3, <2>2 DEF UsesInFlight, LiveUses, BeingSet
    <3>2. B \subseteq CreatesPastUseCheck(x, d)
      BY <1>1 DEF CreatesPastUseCheck
    <3>. QED BY <3>1, <3>2, UsesShrink
  <2>. QED BY <2>1, <2>2
<1>. QED BY <1>4, <1>5

\* A decision: a request that becomes PENDING again, or APPROVED, was about to.
LEMMA DecisionBounds ==
  ASSUME BoundsInv, NEW w \in Workers, UpdateCommit(w) \/ CancelWrite(w)
  PROVE  /\ \A x \in Users : PendingOf(x)'
         /\ \A x \in Users, d \in Coupons : UsesBy(x, d)'
<1>0. TypeInv
  BY DEF BoundsInv
<1>1. PICK r \in Requests, s \in Statuses :
        /\ requests' = [requests EXCEPT ![r].status = s] /\ requests[r] \in Rows
        /\ s = "CANCELLED" \/ (calls[w].pc = "decide" /\ calls[w].req = r /\ calls[w].target = s)
  <2>1. CASE UpdateCommit(w)
    <3>1. calls[w].req \in Requests /\ calls[w].target \in Statuses /\ requests[calls[w].req] \in Rows
      BY <1>0, <2>1 DEF UpdateCommit, TypeInv, CallsOK, CallOK
    <3>. QED BY <2>1, <3>1 DEF UpdateCommit
  <2>2. CASE CancelWrite(w)
    <3>1. calls[w].req \in Requests /\ requests[calls[w].req] \in Rows
      BY <1>0, <2>2 DEF CancelWrite, TypeInv, CallsOK, CallOK
    <3>. QED BY <2>2, <3>1 DEF CancelWrite, Statuses
  <2>. QED BY <2>1, <2>2
<1>2. /\ \A v \in Workers : v # w => calls'[v] = calls[v]
      /\ calls'[w].pc = "idle"
  BY <1>0, OneMoves DEF UpdateCommit, CancelWrite
<1>3. /\ requests'[r].user = requests[r].user /\ requests'[r].coupon = requests[r].coupon
      /\ requests'[r].status = s
      /\ \A q \in Requests : q # r => requests'[q] = requests[q]
  BY <1>0, <1>1 DEF TypeInv, TypeOK, Rows
<1>4. ASSUME NEW x \in Users PROVE PendingOf(x)'
  <2>1. InFlight(x)' \subseteq InFlight(x)
    BY <1>1, <1>2, <1>3 DEF InFlight, Pending, BeingSet
  <2>2. CreatesPastPendingCheck(x)' \subseteq CreatesPastPendingCheck(x)
    BY <1>2 DEF CreatesPastPendingCheck, Creating
  <2>. QED BY <2>1, <2>2, PendingShrinks
<1>5. ASSUME NEW x \in Users, NEW d \in Coupons PROVE UsesBy(x, d)'
  <2>1. s \in {"PENDING", "APPROVED", "CANCELLED", "REJECTED"}
    BY DEF Statuses
  <2>2. UsesInFlight(x, d)' \subseteq UsesInFlight(x, d)
    BY <1>1, <1>2, <1>3, <2>1 DEF UsesInFlight, LiveUses, BeingSet
  <2>3. CreatesPastUseCheck(x, d)' \subseteq CreatesPastUseCheck(x, d)
    BY <1>2 DEF CreatesPastUseCheck
  <2>. QED BY <2>2, <2>3, UsesShrink
<1>. QED BY <1>4, <1>5

\* The remaining steps of a call write no request and pass neither check.
LEMMA OtherBounds ==
  ASSUME BoundsInv, NEW w \in Workers, CreateNext(w) \/ DecideNext(w) \/ CouponNext(w) \/ Fail(w),
         ~CreateReadUse(w), ~CreateCommit(w), ~UpdateCommit(w), ~CancelWrite(w),
         \A u \in Users, t \in Templates, c \in Coupons \cup {None}, p \in Phones :
            ~CreateStart(w, u, t, c, p)
  PROVE  /\ \A x \in Users : PendingOf(x)'
         /\ \A x \in Users, d \in Coupons : UsesBy(x, d)'
<1>0. TypeInv /\ calls \in [Workers -> Calls]
  BY DEF BoundsInv, TypeInv, TypeOK
<1>1. requests' = requests
  BY DEF CreateNext, DecideNext, CouponNext, Fail, CreateReadCoupon, ReadPhone, CheckPhone,
     WritePhone, UpdateRead, UpdateRollback, CancelRead, CancelRelease, CouponUpdateRead,
     CouponToggleRead, CouponWrite
<1>2. /\ \A v \in Workers : v # w => calls'[v] = calls[v]
      /\ calls'[w].pc \in Creating => calls[w].pc \in Creating /\ calls'[w].user = calls[w].user
      /\ calls'[w].pc # "commit"
      /\ calls'[w].pc = "decide" => requests[calls'[w].req].status = "PENDING"
  <2>1. CASE Return(w)
    BY <1>0, <2>1, OneMoves DEF Creating
  <2>2. ASSUME NEW pc \in Steps \ (Creating \cup {"decide"}), Goto(w, pc) PROVE <1>2
    BY <1>0, <2>2, OneMoves DEF Creating
  <2>3. CASE CreateReadCoupon(w)
    BY <1>0, <2>1, <2>3 DEF CreateReadCoupon, Creating, Calls
  <2>4. ASSUME NEW r \in Requests, NEW s \in Targets, UpdateRead(w, r, s) PROVE <1>2
    BY <1>0, <2>4 DEF UpdateRead, Creating, Idle
  <2>5. ASSUME NEW r \in Requests, CancelRead(w, r) PROVE <1>2
    BY <1>0, <2>5 DEF CancelRead, Creating, Idle
  <2>6. ASSUME NEW c \in Coupons, NEW e \in Edits, CouponUpdateRead(w, c, e) PROVE <1>2
    BY <1>0, <2>6 DEF CouponUpdateRead, Creating, Idle
  <2>7. ASSUME NEW c \in Coupons, CouponToggleRead(w, c) PROVE <1>2
    BY <1>0, <2>7 DEF CouponToggleRead, Creating, Idle
  <2>8. CASE ReadPhone(w) \/ CheckPhone(w) \/ CancelRelease(w)
    BY <2>1, <2>2, <2>8 DEF ReadPhone, CheckPhone, CancelRelease, Steps, Creating
  <2>9. CASE WritePhone(w) \/ UpdateRollback(w) \/ CouponWrite(w) \/ Fail(w)
    BY <2>1, <2>9 DEF WritePhone, UpdateRollback, CouponWrite, Fail
  <2>. QED BY <2>3, <2>4, <2>5, <2>6, <2>7, <2>8, <2>9 DEF CreateNext, DecideNext, CouponNext
<1>. QED BY <1>1, <1>2, QuietPending, QuietUses

LEMMA NextBounds == BoundsInv /\ [Next]_vars => BoundsInv'
<1> SUFFICES ASSUME BoundsInv, [Next]_vars PROVE BoundsInv'
  OBVIOUS
<1>1. TypeInv'
  BY NextTypeInv DEF BoundsInv
<1>2. CASE UNCHANGED <<requests, calls>>
  BY <1>1, <1>2 DEF BoundsInv, PendingBounded, UsesBounded, Pending, BeingSet, LiveUses,
     CreatesPastPendingCheck, CreatesPastUseCheck
<1>3. ASSUME NEW w \in Workers, CreateNext(w) \/ DecideNext(w) \/ CouponNext(w) \/ Fail(w)
      PROVE  BoundsInv'
  <2>1. /\ \A x \in Users : PendingOf(x)'
        /\ \A x \in Users, d \in Coupons : UsesBy(x, d)'
    BY <1>3, CreateStartBounds, ReadUseBounds, CommitBounds, DecisionBounds, OtherBounds
  <2>. QED BY <1>1, <2>1 DEF BoundsInv, PendingBounded, UsesBounded, PendingOf, UsesBy, InFlight,
           UsesInFlight
<1>4. CASE CouponAdmin
  BY <1>2, <1>4 DEF CouponAdmin, CouponCreate, CouponSoftDelete, CouponRestore
<1>. QED BY <1>2, <1>3, <1>4 DEF Next, vars

\* However calls overlap, die, and decide what others have decided, a user has
\* at most one pending request for each call in progress.
THEOREM PendingAlwaysBounded == Spec => []PendingBounded
<1>1. BoundsInv => PendingBounded
  BY DEF BoundsInv
<1>. QED BY <1>1, InitBounds, NextBounds, PTL DEF Spec

\* The same of the live uses of one coupon by one user.
THEOREM UsesAlwaysBounded == Spec => []UsesBounded
<1>1. BoundsInv => UsesBounded
  BY DEF BoundsInv
<1>. QED BY <1>1, InitBounds, NextBounds, PTL DEF Spec
===============================================================================
