--------------------------- MODULE AppInboxProofs ---------------------------
(***************************************************************************)
(* Proofs about AppInbox for any clients, connections, arrivals and        *)
(* limits: cursors never move back, pass no message that is still owed,    *)
(* and every connected app is fed.                                         *)
(***************************************************************************)
EXTENDS AppInbox, TLAPS, FiniteSetTheorems, WellFoundedInduction

Cursors == 0..Len(Arrivals)

\* IncomingAfter at the time when upto was the newest row.
After(v, upto) == {m \in v + 1..upto : Arrivals[m] # "own"}

\* Why a cursor may stand at v: the client's row began there, the client took a
\* message that far, or a replay skipped, and then its limit is reached beyond v.
Earned(v, upto, taken, begun) ==
  \/ v <= begun
  \/ \E n \in taken : v <= n
  \/ ReplayLimit > 0 /\ Cardinality(After(v, upto)) >= ReplayLimit

\* Whose cursor a session moves; after the connection only its write knows.
Owner(t) == IF t.pc = "gone" THEN t.client ELSE t.app

Named(t) ==
  /\ t.pc # "gone" => t.app \in Clients /\ t.client \in {None, t.app}
  /\ t.pc \in {"latest", "record", "replay"} => t.client = t.app
  /\ t.pc = "replay" => ReplayLimit > 0

CursorsEarned(t, upto, took, begun) ==
  Owner(t) \in Clients =>
    /\ Earned(t.cursor, upto, took[Owner(t)], begun[Owner(t)])
    /\ Earned(t.writes, upto, took[Owner(t)], begun[Owner(t)])

\* What EveryAppFed says of one session, where coming are the messages on their way.
FedWell(t, upto, coming, took) ==
  t.started /\ t.pc \in {"reading", "answer"} =>
    \A m \in t.since + 1..upto :
      IsLive(m) => m \in coming \cup Range(t.inbox) \cup took[t.app]

SessionOK(t, upto, coming, took, begun) ==
  /\ t \in SessionSet /\ Len(t.inbox) <= InboxSize
  /\ Named(t)
  /\ CursorsEarned(t, upto, took, begun)
  /\ FedWell(t, upto, coming, took)

RowsType == [Clients -> {None} \cup [cursor : Cursors, back : BOOLEAN]]
BudgetType == [connects : 0..MaxConnects, failures : 0..MaxFailures]

RowsEarned(table, upto, took, begun) ==
  \A c \in Clients : table[c] # None => Earned(table[c].cursor, upto, took[c], begun[c])

\* The inductive invariant.
Inv ==
  /\ latest \in Cursors /\ fresh \in SUBSET Ids /\ tasks \in SUBSET Ids
  /\ unbuilt \in SUBSET Ids
  /\ listening \in BOOLEAN /\ budget \in BudgetType
  /\ pulled \in [Clients -> SUBSET Ids] /\ first \in [Clients -> Cursors]
  /\ rows \in RowsType /\ RowsEarned(rows, latest, pulled, first)
  /\ sess \in [Sessions -> SessionSet]
  /\ \A s \in Sessions : SessionOK(sess[s], latest, fresh \cup tasks \cup unbuilt, pulled, first)

-----------------------------------------------------------------------------
(* Numbers and finite sets of them.                                        *)

LEMMA Constants ==
  /\ Len(Arrivals) \in Nat /\ Ids = 1..Len(Arrivals) /\ Ids \subseteq Cursors
  /\ Cursors \subseteq Nat /\ None \notin Clients
  /\ InboxSize \in Nat \ {0} /\ ReplayLimit \in Nat
  /\ MaxConnects \in Nat /\ MaxFailures \in Nat
  BY InboxAssumption DEF Ids, Cursors

LEMMA MaxOfTwo ==
  ASSUME NEW a \in Int, NEW b \in Int
  PROVE  Max({a, b}) \in {a, b} /\ Max({a, b}) >= a /\ Max({a, b}) >= b
  <1>1. \E x \in {a, b} : \A y \in {a, b} : x >= y
    <2>1. CASE a >= b
      BY <2>1
    <2>2. CASE ~(a >= b)
      BY <2>2
    <2>3. QED
      BY Zenon, <2>1, <2>2
  <1>2. /\ Max({a, b}) \in {a, b}
        /\ \A y \in {a, b} : Max({a, b}) >= y
    BY Zenon, <1>1 DEF Max
  <1>3. QED
    BY Zenon, <1>2

\* A non-empty set of naturals has a least element, and Min is it.
LEMMA MinOfSet ==
  ASSUME NEW S, S \subseteq Nat, S # {}
  PROVE  Min(S) \in S /\ \A y \in S : Min(S) <= y
  <1>1. \E x \in S : \A y \in S : ~(<<y, x>> \in OpToRel(<, Nat))
    BY Zenon, NatLessThanWellFounded, WFMin
  <1>2. \A x, y \in Nat : y < x => <<y, x>> \in OpToRel(<, Nat)
    BY Zenon DEF OpToRel
  <1>3. PICK x \in S : \A y \in S : ~(<<y, x>> \in OpToRel(<, Nat))
    BY Zenon, <1>1
  <1>4. \A y \in S : ~(y < x)
    BY Zenon, <1>2, <1>3
  <1>5. \A y \in S : x <= y
    BY <1>4
  <1>6. QED
    BY Zenon, <1>5 DEF Min

\* A non-empty bounded set of naturals has a greatest element.
LEMMA GreatestOf ==
  ASSUME NEW n \in Nat, NEW S, S \subseteq 0..n, S # {}
  PROVE  \E x \in S : \A y \in S : y <= x
  <1> DEFINE T == {k \in 0..n : n - k \in S}
  <1>1. T \subseteq Nat /\ T # {}
    <2>1. PICK x : x \in S
      BY Zenon
    <2>2. n - x \in 0..n /\ n - (n - x) = x
      BY <2>1
    <2>3. n - x \in T
      BY Zenon, <2>1, <2>2
    <2>4. QED
      BY <2>3
  <1>2. Min(T) \in T /\ \A k \in T : Min(T) <= k
    BY Zenon, <1>1, MinOfSet
  <1>3. \A y \in S : n - y \in T /\ n - y >= Min(T)
    <2>1. SUFFICES ASSUME NEW y \in S PROVE n - y \in T /\ n - y >= Min(T)
      BY Zenon
    <2>2. n - y \in 0..n /\ n - (n - y) = y
      OBVIOUS
    <2>3. n - y \in T
      BY Zenon, <2>2
    <2>4. QED
      BY Zenon, <2>3, <1>1, <1>2
  <1>4. n - Min(T) \in S /\ Min(T) \in Nat
    BY <1>2
  <1>5. \A y \in S : y <= n - Min(T)
    <2>1. SUFFICES ASSUME NEW y \in S PROVE y <= n - Min(T)
      BY Zenon
    <2>2. y \in Nat /\ n - y >= Min(T)
      BY <1>3
    <2>3. QED
      BY <2>2, <1>4
  <1>6. QED
    BY Zenon, <1>4, <1>5

LEMMA AfterFinite ==
  ASSUME NEW v \in Cursors, NEW upto \in Cursors
  PROVE  /\ After(v, upto) \subseteq Ids /\ IsFiniteSet(After(v, upto))
         /\ Cardinality(After(v, upto)) \in Nat
  <1>1. After(v, upto) \subseteq 1..Len(Arrivals)
    BY Constants DEF After, Cursors
  <1>2. IsFiniteSet(1..Len(Arrivals))
    BY Constants, FS_Interval
  <1>3. IsFiniteSet(After(v, upto))
    BY Zenon, <1>1, <1>2, FS_Subset
  <1>4. QED
    BY Zenon, <1>1, <1>3, FS_CardinalityType, Constants

-----------------------------------------------------------------------------
(* What a cursor has earned it keeps.                                      *)

LEMMA EarnedKept ==
  ASSUME NEW v \in Cursors, NEW upto \in Cursors, NEW upto2 \in Cursors, upto <= upto2,
         NEW taken, NEW taken2, taken \subseteq taken2,
         NEW begun \in Cursors, NEW begun2 \in Cursors, begun <= begun2,
         Earned(v, upto, taken, begun)
  PROVE  Earned(v, upto2, taken2, begun2)
  <1>1. CASE v <= begun
    <2>1. v <= begun2
      BY <1>1, Constants
    <2>2. QED
      BY Zenon, <2>1 DEF Earned
  <1>2. CASE \E n \in taken : v <= n
    BY Zenon, <1>2 DEF Earned
  <1>3. CASE ReplayLimit > 0 /\ Cardinality(After(v, upto)) >= ReplayLimit
    <2>1. After(v, upto) \subseteq After(v, upto2)
      BY Constants DEF After, Cursors
    <2>2. /\ IsFiniteSet(After(v, upto2)) /\ After(v, upto) \in SUBSET After(v, upto2)
          /\ Cardinality(After(v, upto)) \in Nat /\ Cardinality(After(v, upto2)) \in Nat
      BY Zenon, <2>1, AfterFinite
    <2>3. Cardinality(After(v, upto)) <= Cardinality(After(v, upto2))
      BY ONLY Zenon, <2>2, FS_Subset
    <2>4. Cardinality(After(v, upto2)) >= ReplayLimit
      BY <1>3, <2>2, <2>3, Constants
    <2>5. QED
      BY Zenon, <1>3, <2>4 DEF Earned
  <1>4. QED
    BY Zenon, <1>1, <1>2, <1>3 DEF Earned

\* Nothing has to be earned to stand at the beginning.
LEMMA ZeroEarned ==
  ASSUME NEW upto, NEW taken, NEW begun \in Cursors
  PROVE  Earned(0, upto, taken, begun)
  BY Constants DEF Earned, Cursors

\* The same session in a world that has gone on: more is stored, and what is new is on
\* its way.
LEMMA SessionKept ==
  ASSUME NEW t,
         NEW upto \in Cursors, NEW upto2 \in Cursors, upto <= upto2,
         NEW coming, NEW coming2, coming \subseteq coming2,
         \A m \in upto + 1..upto2 : IsLive(m) => m \in coming2,
         NEW took, NEW took2, \A c \in Clients : took[c] \subseteq took2[c],
         NEW begun \in [Clients -> Cursors], NEW begun2 \in [Clients -> Cursors],
         \A c \in Clients : begun[c] <= begun2[c],
         SessionOK(t, upto, coming, took, begun)
  PROVE  SessionOK(t, upto2, coming2, took2, begun2)
  <1>1. t \in SessionSet /\ Len(t.inbox) <= InboxSize /\ Named(t)
    BY Zenon DEF SessionOK
  <1>2. t.cursor \in Cursors /\ t.writes \in Cursors /\ t.since \in Cursors
    BY Zenon, <1>1 DEF SessionSet, Cursors
  <1>3. CursorsEarned(t, upto2, took2, begun2)
    <2>1. SUFFICES ASSUME Owner(t) \in Clients
                   PROVE  /\ Earned(t.cursor, upto2, took2[Owner(t)], begun2[Owner(t)])
                          /\ Earned(t.writes, upto2, took2[Owner(t)], begun2[Owner(t)])
      BY Zenon DEF CursorsEarned
    <2>2. /\ Earned(t.cursor, upto, took[Owner(t)], begun[Owner(t)])
          /\ Earned(t.writes, upto, took[Owner(t)], begun[Owner(t)])
      BY Zenon, <2>1 DEF SessionOK, CursorsEarned
    <2>3. /\ begun[Owner(t)] \in Cursors /\ begun2[Owner(t)] \in Cursors
          /\ begun[Owner(t)] <= begun2[Owner(t)] /\ took[Owner(t)] \subseteq took2[Owner(t)]
      BY Zenon, <2>1
    <2>4. QED
      BY ZenonT(30), <1>2, <2>2, <2>3, EarnedKept
  <1>4. FedWell(t, upto2, coming2, took2)
    <2>1. SUFFICES ASSUME t.started, t.pc \in {"reading", "answer"},
                          NEW m \in t.since + 1..upto2, IsLive(m)
                   PROVE  m \in coming2 \cup Range(t.inbox) \cup took2[t.app]
      BY Zenon DEF FedWell
    <2>2. CASE m <= upto
      <3>1. m \in t.since + 1..upto
        BY <1>2, <2>2, Constants
      <3>2. m \in coming \cup Range(t.inbox) \cup took[t.app]
        BY Zenon, <2>1, <3>1 DEF SessionOK, FedWell
      <3>3. t.app \in Clients
        BY Zenon, <1>1, <2>1 DEF Named
      <3>4. QED
        BY Zenon, <3>2, <3>3
    <2>3. CASE ~(m <= upto)
      <3>1. m \in upto + 1..upto2
        BY <1>2, <2>3, Constants
      <3>2. QED
        BY Zenon, <2>1, <3>1
    <2>4. QED
      BY Zenon, <2>2, <2>3
  <1>5. QED
    BY ZenonT(30), <1>1, <1>3, <1>4 DEF SessionOK

-----------------------------------------------------------------------------
(* The replay.                                                             *)

\* The newest ReplayLimit of a set: where some are left out, all of those that are kept
\* lie behind them, and there are enough of them.
LEMMA NewestOfSome ==
  ASSUME NEW S, S \subseteq Ids, ReplayLimit > 0, Newest(S) # S
  PROVE  /\ Newest(S) \subseteq S /\ Newest(S) # {} /\ IsFiniteSet(Newest(S))
         /\ Cardinality(Newest(S)) \in Nat /\ Cardinality(Newest(S)) >= ReplayLimit
  <1> DEFINE Above(m) == {n \in S : n > m}
  <1>1. /\ IsFiniteSet(S) /\ S \subseteq 0..Len(Arrivals) /\ Len(Arrivals) \in Nat
        /\ ReplayLimit \in Nat
    <2>1. IsFiniteSet(Ids)
      BY Constants, FS_Interval
    <2>2. IsFiniteSet(S)
      BY Zenon, <2>1, FS_Subset
    <2>3. QED
      BY Zenon, <2>2, Constants DEF Cursors
  <1>2. \A m : IsFiniteSet(Above(m)) /\ Cardinality(Above(m)) \in Nat
    <2>1. SUFFICES ASSUME NEW m PROVE IsFiniteSet(Above(m)) /\ Cardinality(Above(m)) \in Nat
      BY Zenon
    <2>2. Above(m) \in SUBSET S
      BY Zenon
    <2>3. IsFiniteSet(Above(m))
      BY ONLY Zenon, <1>1, <2>2, FS_Subset
    <2>4. QED
      BY ONLY Zenon, <2>3, FS_CardinalityType
  <1>3. Newest(S) = {m \in S : Cardinality(Above(m)) < ReplayLimit}
    BY Zenon DEF Newest
  <1> HIDE DEF Above
  <1>4. PICK x \in S \ Newest(S) : \A y \in S \ Newest(S) : y <= x
    <2>1. S \ Newest(S) # {} /\ S \ Newest(S) \subseteq 0..Len(Arrivals)
      BY ZenonT(30), <1>1, <1>3
    <2>2. QED
      BY ZenonT(30), <1>1, <2>1, GreatestOf
  <1>5. Cardinality(Above(x)) >= ReplayLimit
    BY <1>1, <1>2, <1>3, <1>4
  <1>6. Above(x) \in SUBSET Newest(S)
    <2>1. \A n \in S : n > x => n \in Newest(S)
      BY <1>1, <1>4
    <2>2. QED
      BY Zenon, <2>1 DEF Above
  <1>7. IsFiniteSet(Newest(S)) /\ Cardinality(Newest(S)) \in Nat
    <2>1. Newest(S) \in SUBSET S
      BY Zenon, <1>3
    <2>2. IsFiniteSet(Newest(S))
      BY ONLY ZenonT(30), <1>1, <2>1, FS_Subset
    <2>3. QED
      BY ONLY Zenon, <2>2, FS_CardinalityType
  <1>8. Cardinality(Above(x)) <= Cardinality(Newest(S))
    BY ONLY ZenonT(30), <1>6, <1>7, FS_Subset
  <1>9. Cardinality(Newest(S)) >= ReplayLimit
    BY <1>1, <1>2, <1>5, <1>7, <1>8
  <1>10. Newest(S) # {}
    BY <1>1, <1>9, FS_EmptySet
  <1>11. QED
    BY Zenon, <1>3, <1>7, <1>9, <1>10

\* The cursor jumps in front of the first row it is offered, and has earned it.
LEMMA JumpEarned ==
  ASSUME NEW v \in Cursors, NEW upto \in Cursors, NEW taken, NEW begun, ReplayLimit > 0,
         Newest(After(v, upto)) # After(v, upto)
  PROVE  /\ Min(Newest(After(v, upto))) - 1 \in Cursors
         /\ Earned(Min(Newest(After(v, upto))) - 1, upto, taken, begun)
  <1> DEFINE S == After(v, upto)
  <1> DEFINE N == Newest(S)
  <1>1. S \subseteq Ids
    BY Zenon, AfterFinite
  <1>2. N \subseteq S /\ N # {} /\ Cardinality(N) \in Nat /\ Cardinality(N) >= ReplayLimit
    BY Zenon, <1>1, NewestOfSome
  <1>3. Min(N) \in N /\ \A y \in N : Min(N) <= y
    BY Zenon, <1>1, <1>2, MinOfSet, Constants
  <1>4. Min(N) \in Ids /\ Min(N) - 1 \in Cursors
    BY <1>1, <1>2, <1>3, Constants DEF Cursors
  <1>5. N \in SUBSET After(Min(N) - 1, upto)
    <2>1. \A y \in N : y \in Ids /\ y <= upto /\ Arrivals[y] # "own" /\ y >= Min(N)
      BY <1>1, <1>2, <1>3, <1>4, Constants DEF After, Cursors
    <2>2. \A y \in N : y \in (Min(N) - 1) + 1..upto
      BY <1>4, <2>1, Constants DEF Cursors
    <2>3. QED
      BY Zenon, <2>1, <2>2 DEF After
  <1>6. /\ IsFiniteSet(After(Min(N) - 1, upto))
        /\ Cardinality(After(Min(N) - 1, upto)) \in Nat
    BY Zenon, <1>4, AfterFinite
  <1>7. Cardinality(N) <= Cardinality(After(Min(N) - 1, upto))
    BY ONLY ZenonT(30), <1>5, <1>6, FS_Subset
  <1>8. Cardinality(After(Min(N) - 1, upto)) >= ReplayLimit
    BY <1>2, <1>6, <1>7, Constants
  <1>9. QED
    BY Zenon, <1>4, <1>8 DEF Earned

-----------------------------------------------------------------------------
(* Steps of one session.                                                   *)

LEMMA NothingAfter ==
  ASSUME NEW n \in Cursors
  PROVE  \A m \in n + 1..n : FALSE
  BY Constants

LEMMA GoneOK ==
  ASSUME NEW upto, NEW coming, NEW took, NEW begun
  PROVE  SessionOK(Gone, upto, coming, took, begun)
  <1>1. Gone \in SessionSet /\ Len(Gone.inbox) <= InboxSize
    BY Constants DEF Gone, SessionSet
  <1>2. Owner(Gone) = None /\ ~Gone.started /\ Named(Gone)
    BY Zenon DEF Gone, Owner, Named
  <1>3. QED
    BY Zenon, <1>1, <1>2, Constants DEF SessionOK, CursorsEarned, FedWell

LEMMA InitInv == Init => Inv
  <1>1. SUFFICES ASSUME Init PROVE Inv
    BY Zenon
  <1>2. \A s \in Sessions : SessionOK(sess[s], latest, fresh \cup tasks \cup unbuilt, pulled, first)
    BY Zenon, <1>1, GoneOK DEF Init
  <1>3. sess \in [Sessions -> SessionSet]
    BY Zenon, <1>1, GoneOK DEF Init, SessionOK
  <1>4. RowsEarned(rows, latest, pulled, first) /\ rows \in RowsType
    BY Zenon, <1>1 DEF Init, RowsEarned, RowsType
  <1>5. budget \in BudgetType
    BY <1>1, Constants DEF Init, BudgetType
  <1>6. /\ latest \in Cursors /\ fresh \in SUBSET Ids /\ tasks \in SUBSET Ids
        /\ unbuilt \in SUBSET Ids
        /\ first \in [Clients -> Cursors]
    BY <1>1, Constants DEF Init, Cursors
  <1>7. listening \in BOOLEAN /\ pulled \in [Clients -> SUBSET Ids]
    BY Zenon, <1>1 DEF Init
  <1>8. QED
    BY ZenonT(30), <1>2, <1>3, <1>4, <1>5, <1>6, <1>7 DEF Inv

\* A step of s that turns its session into t, writes rows, and remembers more.
LEMMA OneMoves ==
  ASSUME Inv, NEW s \in Sessions, NEW t, sess' = [sess EXCEPT ![s] = t],
         latest' = latest, fresh' = fresh, tasks' = tasks, unbuilt' = unbuilt, listening' = listening,
         budget' \in BudgetType,
         pulled' \in [Clients -> SUBSET Ids], first' \in [Clients -> Cursors],
         \A c \in Clients : pulled[c] \subseteq pulled'[c] /\ first[c] <= first'[c],
         rows' \in RowsType, RowsEarned(rows', latest, pulled', first'),
         SessionOK(t, latest, fresh \cup tasks \cup unbuilt, pulled', first')
  PROVE  Inv'
  <1>1. /\ latest \in Cursors /\ latest <= latest
        /\ \A m \in latest + 1..latest : FALSE
    BY Constants DEF Inv, Cursors
  <1>2. \A u \in Sessions : SessionOK(sess'[u], latest, fresh \cup tasks \cup unbuilt, pulled', first')
    <2>1. SUFFICES ASSUME NEW u \in Sessions
                   PROVE  SessionOK(sess'[u], latest, fresh \cup tasks \cup unbuilt, pulled', first')
      BY Zenon
    <2>2. CASE u = s
      BY Zenon, <2>2 DEF Inv
    <2>3. CASE u # s
      <3>1. sess'[u] = sess[u] /\ SessionOK(sess[u], latest, fresh \cup tasks \cup unbuilt, pulled, first)
        BY Zenon, <2>3 DEF Inv
      <3>2. SessionOK(sess[u], latest, fresh \cup tasks \cup unbuilt, pulled', first')
        BY <1>1, <3>1, SessionKept DEF Inv
      <3>3. QED
        BY Zenon, <3>1, <3>2
    <2>4. QED
      BY Zenon, <2>2, <2>3
  <1>3. sess' \in [Sessions -> SessionSet]
    BY Zenon DEF Inv, SessionOK
  <1>4. QED
    BY Zenon, <1>1, <1>2, <1>3 DEF Inv

\* The same, with rows and histories left alone.
LEMMA QuietMoves ==
  ASSUME Inv, NEW s \in Sessions, NEW t, sess' = [sess EXCEPT ![s] = t],
         UNCHANGED <<latest, fresh, tasks, unbuilt, rows, listening, pulled, first>>,
         budget' \in BudgetType,
         SessionOK(t, latest, fresh \cup tasks \cup unbuilt, pulled, first)
  PROVE  Inv'
  <1>1. \A c \in Clients : pulled[c] \subseteq pulled[c] /\ first[c] <= first[c]
    <2>1. \A c \in Clients : first[c] \in Cursors
      BY Zenon DEF Inv
    <2>2. \A x \in Cursors : x <= x
      BY Constants
    <2>3. QED
      BY Zenon, <2>1, <2>2
  <1>2. /\ pulled' = pulled /\ first' = first /\ rows' = rows
        /\ latest' = latest /\ fresh' = fresh /\ tasks' = tasks /\ unbuilt' = unbuilt /\ listening' = listening
    BY Zenon
  <1>3. /\ pulled \in [Clients -> SUBSET Ids] /\ first \in [Clients -> Cursors]
        /\ rows \in RowsType /\ RowsEarned(rows, latest, pulled, first)
    BY Zenon DEF Inv
  <1>4. QED
    BY Zenon, <1>1, <1>2, <1>3, OneMoves

LEMMA FailsBudget ==
  ASSUME Inv, Fails
  PROVE  budget' \in BudgetType
  BY Constants DEF Inv, Fails, BudgetType

\* What a session is known to be.
LEMMA SessionFacts ==
  ASSUME Inv, NEW s \in Sessions
  PROVE  /\ SessionOK(sess[s], latest, fresh \cup tasks \cup unbuilt, pulled, first)
         /\ sess[s] \in SessionSet /\ Len(sess[s].inbox) <= InboxSize /\ Named(sess[s])
         /\ CursorsEarned(sess[s], latest, pulled, first)
         /\ FedWell(sess[s], latest, fresh \cup tasks \cup unbuilt, pulled)
         /\ budget \in BudgetType /\ latest \in Cursors
         /\ \A c \in Clients : first[c] \in Cursors
  BY Zenon DEF Inv, SessionOK

LEMMA ConnectInv ==
  ASSUME Inv, NEW s \in Sessions, NEW c \in Clients, Connect(s, c)
  PROVE  Inv'
  <1> DEFINE t == [Gone EXCEPT !.pc = "reading", !.app = c]
  <1>1. t \in SessionSet /\ Len(t.inbox) <= InboxSize
    <2>1. Gone \in SessionSet /\ Len(Gone.inbox) <= InboxSize
      BY Zenon, GoneOK DEF SessionOK
    <2>2. QED
      BY Zenon, <2>1 DEF SessionSet
  <1>2. /\ Owner(t) = c /\ t.cursor = 0 /\ t.writes = 0 /\ ~t.started
        /\ Named(t)
    BY Zenon DEF Gone, Owner, Named
  <1>3. SessionOK(t, latest, fresh \cup tasks \cup unbuilt, pulled, first)
    BY <1>1, <1>2, ZeroEarned, SessionFacts DEF SessionOK, CursorsEarned, FedWell
  <1>4. budget' \in BudgetType
    <2>1. /\ budget.connects < MaxConnects /\ budget \in BudgetType
          /\ budget' = [budget EXCEPT !.connects = @ + 1]
      BY Zenon DEF Connect, Inv
    <2>2. QED
      BY <2>1, Constants DEF BudgetType
  <1>5. QED
    BY Zenon, <1>3, <1>4, QuietMoves DEF Connect

LEMMA AppStartInv ==
  ASSUME Inv, NEW s \in Sessions, AppStart(s)
  PROVE  Inv'
  <1> DEFINE t == [sess[s] EXCEPT !.pc = "latest", !.started = TRUE, !.client = sess[s].app]
  <1>1. t \in SessionSet /\ Len(t.inbox) <= InboxSize
    BY Zenon, SessionFacts DEF SessionSet
  <1>2. Owner(t) = Owner(sess[s]) /\ Named(t) /\ t.pc = "latest"
    BY SessionFacts DEF AppStart, Owner, Named, SessionSet
  <1>3. CursorsEarned(t, latest, pulled, first)
    BY ZenonT(30), <1>2, SessionFacts DEF CursorsEarned, SessionSet
  <1>4. SessionOK(t, latest, fresh \cup tasks \cup unbuilt, pulled, first)
    BY ZenonT(30), <1>1, <1>2, <1>3 DEF SessionOK, FedWell
  <1>5. sess' = [sess EXCEPT ![s] = t]
    BY Zenon DEF AppStart, Inv
  <1>6. QED
    BY ZenonT(30), <1>4, <1>5, SessionFacts, QuietMoves DEF AppStart

LEMMA Cleared == 0 \in 0..Len(Arrivals) /\ <<>> \in Seq(Ids) /\ Len(<<>>) <= InboxSize
  BY Constants

\* A session with nothing to account for but the cursors it had.
LEMMA StillEarned ==
  ASSUME NEW t, NEW u, NEW upto, NEW took, NEW begun \in [Clients -> Cursors],
         CursorsEarned(t, upto, took, begun),
         Owner(u) \in Clients => Owner(u) = Owner(t),
         u.cursor \in {t.cursor, t.writes, 0}, u.writes \in {t.cursor, t.writes, 0}
  PROVE  CursorsEarned(u, upto, took, begun)
  <1>1. SUFFICES ASSUME Owner(u) \in Clients
                 PROVE  /\ Earned(u.cursor, upto, took[Owner(u)], begun[Owner(u)])
                        /\ Earned(u.writes, upto, took[Owner(u)], begun[Owner(u)])
    BY Zenon DEF CursorsEarned
  <1>2. Earned(0, upto, took[Owner(u)], begun[Owner(u)])
    BY Zenon, <1>1, ZeroEarned
  <1>3. QED
    BY Zenon, <1>1, <1>2 DEF CursorsEarned

LEMMA EndedOK ==
  ASSUME NEW t, NEW upto, NEW coming, NEW took, NEW begun \in [Clients -> Cursors],
         SessionOK(t, upto, coming, took, begun)
  PROVE  SessionOK(Ended(t), upto, coming, took, begun)
  <1>1. CASE t.pc = "gone"
    BY Zenon, <1>1, GoneOK DEF Ended
  <1>2. CASE t.pc # "gone"
    <2> DEFINE u == [t EXCEPT !.task = "done", !.writes = 0]
    <2>1. t \in SessionSet /\ Len(t.inbox) <= InboxSize /\ Named(t)
      BY Zenon DEF SessionOK
    <2>2. u \in SessionSet /\ Len(u.inbox) <= InboxSize
      BY ZenonT(30), <2>1, Cleared DEF SessionSet
    <2>3. Owner(u) = Owner(t) /\ Named(u) /\ u.cursor = t.cursor /\ u.writes = 0
      BY Zenon, <2>1 DEF SessionSet, Owner, Named
    <2>4. FedWell(u, upto, coming, took)
      BY Zenon, <2>1 DEF SessionSet, FedWell, SessionOK
    <2>5. CursorsEarned(u, upto, took, begun)
      BY ZenonT(30), <2>3, StillEarned DEF SessionOK
    <2>6. QED
      BY ZenonT(30), <1>2, <2>2, <2>3, <2>4, <2>5 DEF SessionOK, Ended
  <1>3. QED
    BY Zenon, <1>1, <1>2

LEMMA LeavingOK ==
  ASSUME NEW t, NEW upto, NEW coming, NEW took, NEW begun \in [Clients -> Cursors],
         SessionOK(t, upto, coming, took, begun), t.pc # "gone"
  PROVE  SessionOK(Leaving(t), upto, coming, took, begun)
  <1> DEFINE u == Leaving(t)
  <1>1. t \in SessionSet /\ Named(t)
    BY Zenon DEF SessionOK
  <1>2. u \in SessionSet /\ Len(u.inbox) <= InboxSize
    BY Zenon, <1>1, Cleared DEF SessionSet, Leaving
  <1>3. /\ Owner(u) = Owner(t) /\ Named(u) /\ u.cursor = t.cursor /\ u.writes = t.writes
        /\ u.pc = "leaving"
    BY Zenon, <1>1 DEF SessionSet, Owner, Named, Leaving
  <1>4. CursorsEarned(u, upto, took, begun)
    BY Zenon, <1>3, StillEarned DEF SessionOK
  <1>5. QED
    BY ZenonT(30), <1>2, <1>3, <1>4 DEF SessionOK, FedWell

LEMMA LeftOK ==
  ASSUME NEW t, NEW upto, NEW coming, NEW took, NEW begun \in [Clients -> Cursors],
         SessionOK(t, upto, coming, took, begun), t.pc = "leaving", NEW dirty \in BOOLEAN
  PROVE  SessionOK(Left(t, dirty), upto, coming, took, begun)
  <1>1. CASE t.task = "done"
    BY Zenon, <1>1, GoneOK DEF Left
  <1>2. CASE t.task # "done"
    <2> DEFINE u == [Gone EXCEPT !.client = t.client, !.cursor = t.cursor,
                                 !.dirty = dirty, !.task = t.task, !.writes = t.writes]
    <2>1. t \in SessionSet /\ Named(t) /\ Gone \in SessionSet /\ Len(Gone.inbox) <= InboxSize
      BY Zenon, GoneOK DEF SessionOK
    <2>2. u \in SessionSet /\ Len(u.inbox) <= InboxSize
      BY Zenon, <2>1 DEF SessionSet
    <2>3. /\ u.cursor = t.cursor /\ u.writes = t.writes /\ u.pc = "gone" /\ ~u.started
          /\ u.client = t.client
      BY Zenon DEF Gone
    <2>4. Named(u) /\ (Owner(u) \in Clients => Owner(u) = Owner(t))
      BY Zenon, <2>1, <2>3, Constants DEF Named, Owner
    <2>5. CursorsEarned(u, upto, took, begun)
      BY ZenonT(30), <2>3, <2>4, StillEarned DEF SessionOK
    <2>6. QED
      BY ZenonT(30), <1>2, <2>2, <2>3, <2>4, <2>5 DEF SessionOK, FedWell, Left
  <1>3. QED
    BY Zenon, <1>1, <1>2

LEMMA GetLatestInv ==
  ASSUME Inv, NEW s \in Sessions, GetLatest(s)
  PROVE  Inv'
  <1> DEFINE t == [sess[s] EXCEPT !.pc = "record", !.latest = latest]
  <1>1. t \in SessionSet /\ Len(t.inbox) <= InboxSize
    BY ZenonT(30), SessionFacts DEF SessionSet, Cursors
  <1>2. /\ Owner(t) = Owner(sess[s]) /\ Named(t) /\ t.pc = "record"
        /\ t.cursor = sess[s].cursor /\ t.writes = sess[s].writes
    BY SessionFacts DEF GetLatest, Owner, Named, SessionSet
  <1>3. CursorsEarned(t, latest, pulled, first)
    BY Zenon, <1>2, SessionFacts, StillEarned DEF Inv
  <1>4. SessionOK(t, latest, fresh \cup tasks \cup unbuilt, pulled, first)
    BY Zenon, <1>1, <1>2, <1>3 DEF SessionOK, FedWell
  <1>5. sess' = [sess EXCEPT ![s] = t]
    BY Zenon DEF GetLatest, Inv
  <1>6. QED
    BY ZenonT(30), <1>4, <1>5, SessionFacts, QuietMoves DEF GetLatest

LEMMA LoadFailsInv ==
  ASSUME Inv, NEW s \in Sessions, LoadFails(s)
  PROVE  Inv'
  <1> DEFINE t == [sess[s] EXCEPT !.pc = "answer", !.latest = 0, !.since = latest]
  <1>1. t \in SessionSet /\ Len(t.inbox) <= InboxSize
    BY ZenonT(30), SessionFacts, Cleared DEF SessionSet, Cursors
  <1>2. /\ Owner(t) = Owner(sess[s]) /\ Named(t) /\ t.since = latest
        /\ t.cursor = sess[s].cursor /\ t.writes = sess[s].writes
    BY SessionFacts DEF LoadFails, Owner, Named, SessionSet
  <1>3. CursorsEarned(t, latest, pulled, first)
    <2>1. CursorsEarned(sess[s], latest, pulled, first) /\ first \in [Clients -> Cursors]
      BY Zenon, SessionFacts DEF Inv
    <2> HIDE DEF t
    <2>2. QED
      BY ZenonT(30), <1>2, <2>1, StillEarned
  <1>4. \A m \in latest + 1..latest : FALSE
    BY Zenon, SessionFacts, NothingAfter
  <1>5. SessionOK(t, latest, fresh \cup tasks \cup unbuilt, pulled, first)
    BY ZenonT(30), <1>1, <1>2, <1>3, <1>4 DEF SessionOK, FedWell
  <1>6. sess' = [sess EXCEPT ![s] = t]
    BY Zenon DEF LoadFails, Inv
  <1>7. QED
    BY ZenonT(30), <1>5, <1>6, FailsBudget, QuietMoves DEF LoadFails

LEMMA AnswerInv ==
  ASSUME Inv, NEW s \in Sessions, Answer(s)
  PROVE  Inv'
  <1> DEFINE t == [sess[s] EXCEPT !.pc = "reading"]
  <1>1. t \in SessionSet /\ Len(t.inbox) <= InboxSize
    BY SessionFacts DEF SessionSet
  <1>2. /\ Owner(t) = Owner(sess[s]) /\ Named(t)
        /\ t.cursor = sess[s].cursor /\ t.writes = sess[s].writes
    BY SessionFacts DEF Answer, Owner, Named, SessionSet
  <1>3. CursorsEarned(t, latest, pulled, first)
    BY ZenonT(30), <1>2, SessionFacts, StillEarned DEF Inv
  <1>4. FedWell(t, latest, fresh \cup tasks \cup unbuilt, pulled)
    BY SessionFacts DEF FedWell, Answer, SessionSet
  <1>5. SessionOK(t, latest, fresh \cup tasks \cup unbuilt, pulled, first)
    BY Zenon, <1>1, <1>2, <1>3, <1>4 DEF SessionOK
  <1>6. sess' = [sess EXCEPT ![s] = t]
    BY Zenon DEF Answer, Inv
  <1>7. QED
    BY ZenonT(30), <1>5, <1>6, SessionFacts, QuietMoves DEF Answer

LEMMA HangupInv ==
  ASSUME Inv, NEW s \in Sessions, Hangup(s)
  PROVE  Inv'
  <1>1. SessionOK(Leaving(sess[s]), latest, fresh \cup tasks \cup unbuilt, pulled, first)
    BY Zenon, SessionFacts, LeavingOK DEF Hangup, Inv
  <1>2. sess' = [sess EXCEPT ![s] = Leaving(sess[s])]
    BY Zenon DEF Hangup, Inv
  <1>3. QED
    BY Zenon, <1>1, <1>2, SessionFacts, QuietMoves DEF Hangup

LEMMA PersistWakesInv ==
  ASSUME Inv, NEW s \in Sessions, PersistWakes(s)
  PROVE  Inv'
  <1> DEFINE u == [sess[s] EXCEPT !.task = "writing", !.writes = sess[s].cursor]
  <1> DEFINE t == IF MustPersist(sess[s]) THEN u ELSE Ended(sess[s])
  <1>1. u \in SessionSet /\ Len(u.inbox) <= InboxSize
    BY ZenonT(30), SessionFacts DEF SessionSet
  <1>2. /\ Owner(u) = Owner(sess[s]) /\ Named(u)
        /\ u.cursor = sess[s].cursor /\ u.writes = sess[s].cursor
    BY ZenonT(30), SessionFacts DEF Owner, Named, SessionSet
  <1>3. CursorsEarned(u, latest, pulled, first)
    BY ZenonT(30), <1>2, SessionFacts, StillEarned DEF Inv
  <1>4. FedWell(u, latest, fresh \cup tasks \cup unbuilt, pulled)
    BY SessionFacts DEF FedWell, SessionSet
  <1>5. SessionOK(u, latest, fresh \cup tasks \cup unbuilt, pulled, first)
    BY Zenon, <1>1, <1>2, <1>3, <1>4 DEF SessionOK
  <1>6. SessionOK(Ended(sess[s]), latest, fresh \cup tasks \cup unbuilt, pulled, first)
    BY Zenon, SessionFacts, EndedOK DEF Inv
  <1>7. SessionOK(t, latest, fresh \cup tasks \cup unbuilt, pulled, first)
    BY Zenon, <1>5, <1>6
  <1>8. sess' = [sess EXCEPT ![s] = t]
    BY Zenon DEF PersistWakes, Inv
  <1>9. QED
    BY ZenonT(30), <1>7, <1>8, SessionFacts, QuietMoves DEF PersistWakes

LEMMA PersistFailsInv ==
  ASSUME Inv, NEW s \in Sessions, PersistFails(s)
  PROVE  Inv'
  <1>1. SessionOK(Ended(sess[s]), latest, fresh \cup tasks \cup unbuilt, pulled, first)
    BY Zenon, SessionFacts, EndedOK DEF Inv
  <1>2. sess' = [sess EXCEPT ![s] = Ended(sess[s])]
    BY Zenon DEF PersistFails, Inv
  <1>3. QED
    BY Zenon, <1>1, <1>2, FailsBudget, QuietMoves DEF PersistFails

LEMMA LeaveFailsInv ==
  ASSUME Inv, NEW s \in Sessions, LeaveFails(s)
  PROVE  Inv'
  <1>1. SessionOK(Left(sess[s], TRUE), latest, fresh \cup tasks \cup unbuilt, pulled, first)
    BY Zenon, SessionFacts, LeftOK DEF Inv, LeaveFails
  <1>2. sess' = [sess EXCEPT ![s] = Left(sess[s], TRUE)]
    BY Zenon DEF LeaveFails, Inv
  <1>3. QED
    BY ZenonT(30), <1>1, <1>2, FailsBudget, QuietMoves DEF LeaveFails

-----------------------------------------------------------------------------
(* Steps that write a client's row.                                        *)

LEMMA AdvancedEarned ==
  ASSUME Inv, NEW c, NEW v \in Cursors,
         c \in Clients => Earned(v, latest, pulled[c], first[c])
  PROVE  /\ [rows EXCEPT ![c] = Advanced(rows[c], v)] \in RowsType
         /\ RowsEarned([rows EXCEPT ![c] = Advanced(rows[c], v)], latest, pulled, first)
  <1> DEFINE new == [rows EXCEPT ![c] = Advanced(rows[c], v)]
  <1>1. rows \in RowsType /\ RowsEarned(rows, latest, pulled, first)
    BY Zenon DEF Inv
  <1>2. CASE c \notin Clients
    <2>1. new = rows
      BY ZenonT(30), <1>1, <1>2 DEF RowsType
    <2>2. QED
      BY Zenon, <1>1, <2>1
  <1>3. CASE c \in Clients /\ rows[c] = None
    <2>1. new = rows
      BY ZenonT(30), <1>1, <1>3 DEF RowsType, Advanced
    <2>2. QED
      BY Zenon, <1>1, <2>1
  <1>4. CASE c \in Clients /\ rows[c] # None
    <2>1. rows[c] \in [cursor : Cursors, back : BOOLEAN]
      BY ZenonT(30), <1>1, <1>4 DEF RowsType
    <2> DEFINE w == Max({rows[c].cursor, v})
    <2>2. w \in {rows[c].cursor, v}
      <3>1. rows[c].cursor \in Cursors
        BY Zenon, <2>1
      <3>2. \A x \in Cursors : x \in Int
        BY Constants
      <3>3. rows[c].cursor \in Int /\ v \in Int
        BY ZenonT(30), <3>1, <3>2
      <3>4. QED
        BY ZenonT(30), <3>3, MaxOfTwo
    <2>3. w \in Cursors /\ Earned(w, latest, pulled[c], first[c])
      BY ZenonT(30), <1>1, <1>4, <2>1, <2>2 DEF RowsEarned
    <2>4. Advanced(rows[c], v) = [rows[c] EXCEPT !.cursor = w]
      BY Zenon, <1>4 DEF Advanced
    <2> HIDE DEF w
    <2>5. /\ Advanced(rows[c], v) \in [cursor : Cursors, back : BOOLEAN]
          /\ Advanced(rows[c], v).cursor = w
      BY ZenonT(30), <2>1, <2>3, <2>4
    <2>6. new \in RowsType /\ new[c] = Advanced(rows[c], v)
      BY ZenonT(30), <1>1, <1>4, <2>5 DEF RowsType
    <2>7. \A d \in Clients : d # c => new[d] = rows[d]
      BY Zenon, <1>1 DEF RowsType
    <2> HIDE DEF new
    <2>8. RowsEarned(new, latest, pulled, first)
      BY ZenonT(30), <1>1, <2>3, <2>5, <2>6, <2>7 DEF RowsEarned
    <2>9. QED
      BY ZenonT(30), <2>6, <2>8 DEF new
  <1>5. QED
    BY ZenonT(30), <1>2, <1>3, <1>4

\* QuietMoves for a step that advances a row.
LEMMA WriteMoves ==
  ASSUME Inv, NEW s \in Sessions, NEW t, sess' = [sess EXCEPT ![s] = t],
         UNCHANGED <<latest, fresh, tasks, unbuilt, listening, budget, pulled, first>>,
         rows' \in RowsType, RowsEarned(rows', latest, pulled, first),
         SessionOK(t, latest, fresh \cup tasks \cup unbuilt, pulled, first)
  PROVE  Inv'
  <1>1. \A c \in Clients : pulled[c] \subseteq pulled[c] /\ first[c] <= first[c]
    <2>1. \A c \in Clients : first[c] \in Cursors
      BY Zenon DEF Inv
    <2>2. \A x \in Cursors : x <= x
      BY Constants
    <2>3. QED
      BY ZenonT(30), <2>1, <2>2
  <1>2. /\ pulled' = pulled /\ first' = first /\ budget' = budget
        /\ latest' = latest /\ fresh' = fresh /\ tasks' = tasks /\ unbuilt' = unbuilt /\ listening' = listening
    BY Zenon
  <1>3. /\ pulled \in [Clients -> SUBSET Ids] /\ first \in [Clients -> Cursors]
        /\ budget \in BudgetType
    BY Zenon DEF Inv
  <1>4. QED
    BY ZenonT(30), <1>1, <1>2, <1>3, OneMoves

\* Whom a session writes for, and that what it writes is earned.
LEMMA WritesEarned ==
  ASSUME Inv, NEW s \in Sessions
  PROVE  /\ sess[s].cursor \in Cursors /\ sess[s].writes \in Cursors
         /\ sess[s].client \in Clients =>
              /\ Earned(sess[s].cursor, latest, pulled[sess[s].client], first[sess[s].client])
              /\ Earned(sess[s].writes, latest, pulled[sess[s].client], first[sess[s].client])
  <1>1. sess[s].cursor \in Cursors /\ sess[s].writes \in Cursors
    BY Zenon, SessionFacts DEF SessionSet, Cursors
  <1>2. sess[s].client \in Clients => Owner(sess[s]) = sess[s].client
    BY ZenonT(30), SessionFacts, Constants DEF Named, Owner
  <1>3. QED
    BY ZenonT(30), <1>1, <1>2, SessionFacts DEF CursorsEarned

LEMMA PersistWritesInv ==
  ASSUME Inv, NEW s \in Sessions, PersistWrites(s)
  PROVE  Inv'
  <1> DEFINE u == [sess[s] EXCEPT !.dirty = FALSE]
  <1>1. u \in SessionSet /\ Len(u.inbox) <= InboxSize
    BY ZenonT(30), SessionFacts DEF SessionSet
  <1>2. /\ Owner(u) = Owner(sess[s]) /\ Named(u)
        /\ u.cursor = sess[s].cursor /\ u.writes = sess[s].writes
    BY SessionFacts DEF Owner, Named, SessionSet
  <1>3. CursorsEarned(u, latest, pulled, first)
    BY Zenon, <1>2, SessionFacts, StillEarned DEF Inv
  <1>4. FedWell(u, latest, fresh \cup tasks \cup unbuilt, pulled)
    BY SessionFacts DEF FedWell, SessionSet
  <1>5. SessionOK(u, latest, fresh \cup tasks \cup unbuilt, pulled, first)
    BY Zenon, <1>1, <1>2, <1>3, <1>4 DEF SessionOK
  <1>6. sess' = [sess EXCEPT ![s] = Ended(u)]
    BY Zenon DEF PersistWrites, Inv
  <1> HIDE DEF u
  <1>7. SessionOK(Ended(u), latest, fresh \cup tasks \cup unbuilt, pulled, first)
    BY Zenon, <1>5, EndedOK DEF Inv
  <1>8. rows' \in RowsType /\ RowsEarned(rows', latest, pulled, first)
    <2>1. rows' = [rows EXCEPT ![sess[s].client] = Advanced(rows[sess[s].client], sess[s].writes)]
      BY Zenon DEF PersistWrites
    <2>2. QED
      BY Zenon, <2>1, WritesEarned, AdvancedEarned
  <1>9. QED
    BY ZenonT(30), <1>6, <1>7, <1>8, WriteMoves DEF PersistWrites

LEMMA LeaveInv ==
  ASSUME Inv, NEW s \in Sessions, Leave(s)
  PROVE  Inv'
  <1> DEFINE t == Left(sess[s], sess[s].dirty /\ sess[s].client = None)
  <1>1. SessionOK(t, latest, fresh \cup tasks \cup unbuilt, pulled, first)
    <2>1. (sess[s].dirty /\ sess[s].client = None) \in BOOLEAN
      BY Zenon, SessionFacts DEF SessionSet
    <2>2. QED
      BY ZenonT(30), <2>1, SessionFacts, LeftOK DEF Inv, Leave
  <1>2. sess' = [sess EXCEPT ![s] = t]
    BY Zenon DEF Leave, Inv
  <1> HIDE DEF t
  <1>3. rows' \in RowsType /\ RowsEarned(rows', latest, pulled, first)
    <2>1. CASE MustPersist(sess[s])
      <3>1. rows' = [rows EXCEPT ![sess[s].client] = Advanced(rows[sess[s].client], sess[s].cursor)]
        BY Zenon, <2>1 DEF Leave
      <3>2. QED
        BY ZenonT(30), <3>1, WritesEarned, AdvancedEarned
    <2>2. CASE ~MustPersist(sess[s])
      BY Zenon, <2>2 DEF Leave, Inv
    <2>3. QED
      BY Zenon, <2>1, <2>2
  <1>4. QED
    BY ZenonT(30), <1>1, <1>2, <1>3, WriteMoves DEF Leave

LEMMA RecordConnectionInv ==
  ASSUME Inv, NEW s \in Sessions, RecordConnection(s)
  PROVE  Inv'
  <1> DEFINE c   == sess[s].client
             row == Recorded(rows[c], sess[s].latest)
             pc  == IF row.back /\ ReplayLimit > 0 /\ row.cursor < sess[s].latest
                    THEN "replay" ELSE "answer"
             t   == [sess[s] EXCEPT !.cursor = row.cursor, !.inbox = <<>>, !.latest = 0,
                                    !.since = latest, !.pc = pc]
  <1>1. c \in Clients /\ sess[s].app = c /\ Owner(sess[s]) = c
    BY Zenon, SessionFacts DEF RecordConnection, Named, Owner
  <1>2. /\ sess[s].latest \in Cursors /\ sess[s].writes \in Cursors
        /\ rows \in RowsType /\ RowsEarned(rows, latest, pulled, first)
        /\ first \in [Clients -> Cursors] /\ latest \in Cursors
        /\ pulled \in [Clients -> SUBSET Ids]
    BY Zenon, SessionFacts DEF Inv, SessionSet, Cursors
  <1>3. row \in [cursor : Cursors, back : BOOLEAN]
    <2>1. rows[c] # None => rows[c] \in [cursor : Cursors, back : BOOLEAN]
      BY Zenon, <1>1, <1>2 DEF RowsType
    <2>2. QED
      BY Zenon, <1>2, <2>1 DEF Recorded
  <1>4. /\ sess' = [sess EXCEPT ![s] = t]
        /\ rows' = [rows EXCEPT ![c] = row]
        /\ first' = IF rows[c] = None THEN [first EXCEPT ![c] = Max({@, row.cursor})] ELSE first
        /\ UNCHANGED <<latest, fresh, tasks, unbuilt, listening, budget, pulled>>
    BY Zenon DEF RecordConnection, Inv
  <1>5. rows[c] # None => row.cursor = rows[c].cursor
    BY ZenonT(30), <1>1, <1>2 DEF Recorded, RowsType
  <1> HIDE DEF row
  <1>6. /\ first' \in [Clients -> Cursors] /\ \A d \in Clients : first[d] <= first'[d]
        /\ rows[c] = None => row.cursor <= first'[c]
    <2> DEFINE w == Max({first[c], row.cursor})
    <2>1. /\ first[c] \in Cursors /\ row.cursor \in Cursors
          /\ w \in {first[c], row.cursor} /\ w >= first[c] /\ w >= row.cursor
      <3>1. first[c] \in Cursors /\ row.cursor \in Cursors
        BY ZenonT(30), <1>1, <1>2, <1>3
      <3>2. Cursors \subseteq Int
        BY Constants
      <3>3. QED
        BY ZenonT(30), <3>1, <3>2, MaxOfTwo
    <2>2. \A x \in Cursors : x \in Nat /\ x <= x
      BY Constants
    <2>3. CASE rows[c] # None
      BY ZenonT(30), <1>2, <1>4, <2>2, <2>3
    <2>4. CASE rows[c] = None
      <3>1. first' = [first EXCEPT ![c] = w]
        BY ZenonT(30), <1>4, <2>4
      <3> HIDE DEF w
      <3>2. first' \in [Clients -> Cursors] /\ first'[c] = w
        BY ZenonT(30), <1>1, <1>2, <2>1, <3>1
      <3>3. \A d \in Clients : d # c => first'[d] = first[d]
        BY ZenonT(30), <1>2, <3>1
      <3>4. first[c] <= w /\ row.cursor <= w
        BY ZenonT(30), <2>1, <2>2
      <3>5. QED
        BY ZenonT(30), <1>2, <2>2, <3>2, <3>3, <3>4
    <2>5. QED
      BY ZenonT(30), <2>3, <2>4
  <1>7. Earned(row.cursor, latest, pulled[c], first'[c])
    <2>1. CASE rows[c] = None
      BY ZenonT(30), <1>6, <2>1 DEF Earned
    <2>2. CASE rows[c] # None
      <3>1. Earned(row.cursor, latest, pulled[c], first[c])
        BY Zenon, <1>1, <1>2, <1>5, <2>2 DEF RowsEarned
      <3>2. /\ row.cursor \in Cursors /\ first[c] \in Cursors /\ first'[c] \in Cursors
            /\ first[c] <= first'[c] /\ latest <= latest
        BY <1>1, <1>2, <1>3, <1>6, Constants
      <3>3. QED
        BY <1>2, <3>1, <3>2, EarnedKept
    <2>3. QED
      BY ZenonT(30), <2>1, <2>2
  <1>8. /\ \A d \in Clients : pulled[d] \subseteq pulled[d] /\ first[d] <= first'[d]
        /\ latest <= latest
    BY <1>2, <1>6, Constants
  <1>9. rows' \in RowsType /\ RowsEarned(rows', latest, pulled, first')
    <2>1. rows' \in RowsType /\ rows'[c] = row
      BY Zenon, <1>1, <1>2, <1>3, <1>4 DEF RowsType
    <2>2. SUFFICES ASSUME NEW d \in Clients, rows'[d] # None
                   PROVE  Earned(rows'[d].cursor, latest, pulled[d], first'[d])
      BY Zenon, <2>1 DEF RowsEarned
    <2>3. CASE d = c
      BY ZenonT(30), <1>7, <2>1, <2>3
    <2>4. CASE d # c
      <3>1. rows'[d] = rows[d] /\ rows[d] \in [cursor : Cursors, back : BOOLEAN]
        BY ZenonT(30), <1>2, <1>4, <2>2, <2>4 DEF RowsType
      <3>2. Earned(rows[d].cursor, latest, pulled[d], first[d])
        BY ZenonT(30), <1>2, <2>2, <3>1 DEF RowsEarned
      <3>3. first[d] \in Cursors /\ first'[d] \in Cursors /\ rows[d].cursor \in Cursors
        BY ZenonT(30), <1>2, <1>6, <3>1
      <3>4. QED
        BY ZenonT(30), <1>2, <1>8, <3>1, <3>2, <3>3, EarnedKept
    <2>5. QED
      BY Zenon, <2>3, <2>4
  <1>10. SessionOK(t, latest, fresh \cup tasks \cup unbuilt, pulled, first')
    <2>1. pc \in {"replay", "answer"} /\ (pc = "replay" => ReplayLimit > 0)
      BY Zenon
    <2> HIDE DEF pc
    <2>2. row.cursor \in 0..Len(Arrivals) /\ latest \in 0..Len(Arrivals)
      BY ZenonT(30), <1>2, <1>3 DEF Cursors
    <2>3. t \in SessionSet /\ Len(t.inbox) <= InboxSize
      BY ZenonT(30), <2>1, <2>2, SessionFacts, Cleared DEF SessionSet
    <2>4. /\ t.cursor = row.cursor /\ t.writes = sess[s].writes /\ t.since = latest
          /\ t.app = c /\ t.client = c /\ t.pc = pc
      BY <1>1, SessionFacts DEF SessionSet
    <2> HIDE DEF t, c
    <2>5. Named(t) /\ Owner(t) = c
      BY ZenonT(30), <1>1, <2>1, <2>4 DEF Named, Owner
    <2>6. Earned(sess[s].writes, latest, pulled[c], first'[c])
      <3>1. Earned(sess[s].writes, latest, pulled[c], first[c])
        BY ZenonT(30), <1>1, SessionFacts DEF CursorsEarned
      <3>2. first[c] \in Cursors /\ first'[c] \in Cursors
        BY ZenonT(30), <1>1, <1>2, <1>6
      <3>3. QED
        BY ZenonT(30), <1>1, <1>2, <1>8, <3>1, <3>2, EarnedKept
    <2>7. CursorsEarned(t, latest, pulled, first')
      BY ZenonT(30), <1>7, <2>4, <2>5, <2>6 DEF CursorsEarned
    <2>8. FedWell(t, latest, fresh \cup tasks \cup unbuilt, pulled)
      BY ZenonT(30), <1>2, <2>4, NothingAfter DEF FedWell
    <2>9. QED
      BY ZenonT(30), <2>3, <2>5, <2>7, <2>8 DEF SessionOK
  <1> HIDE DEF t
  <1>11. budget' \in BudgetType
    BY ZenonT(30), <1>4 DEF Inv
  <1>12. QED
    BY ZenonT(30), <1>2, <1>4, <1>6, <1>8, <1>9, <1>10, <1>11, OneMoves

-----------------------------------------------------------------------------
(* Steps that hand out messages.                                           *)

\* A cursor move: the session is otherwise what it was.
LEMMA NoteDeliveredOK ==
  ASSUME NEW t, NEW m \in Cursors, NEW upto, NEW coming, NEW took,
         NEW begun \in [Clients -> Cursors],
         SessionOK(t, upto, coming, took, begun),
         Owner(t) \in Clients => Earned(m, upto, took[Owner(t)], begun[Owner(t)])
  PROVE  SessionOK(NoteDelivered(t, m), upto, coming, took, begun)
  <1> DEFINE u == [t EXCEPT !.cursor = m, !.dirty = TRUE,
                            !.task = IF @ = "done" THEN "sleeping" ELSE @]
  <1>1. /\ t \in SessionSet /\ Len(t.inbox) <= InboxSize /\ Named(t)
        /\ CursorsEarned(t, upto, took, begun) /\ FedWell(t, upto, coming, took)
    BY Zenon DEF SessionOK
  <1>2. m \in 0..Len(Arrivals)
    BY Zenon DEF Cursors
  <1>3. u \in SessionSet /\ Len(u.inbox) <= InboxSize
    BY ZenonT(30), <1>1, <1>2 DEF SessionSet
  <1>4. Owner(u) = Owner(t) /\ Named(u) /\ u.cursor = m /\ u.writes = t.writes
    BY ZenonT(30), <1>1 DEF Owner, Named, SessionSet
  <1>5. FedWell(u, upto, coming, took)
    BY Zenon, <1>1 DEF FedWell, SessionSet
  <1> HIDE DEF u
  <1>6. CursorsEarned(u, upto, took, begun)
    BY Zenon, <1>1, <1>4 DEF CursorsEarned
  <1>7. SessionOK(u, upto, coming, took, begun)
    BY ZenonT(30), <1>3, <1>4, <1>5, <1>6 DEF SessionOK
  <1>8. QED
    BY Zenon, <1>7 DEF NoteDelivered, u

LEMMA KeptFits ==
  ASSUME NEW q \in Seq(Ids)
  PROVE  Kept(q) \in Seq(Ids) /\ Len(Kept(q)) <= InboxSize
  <1>1. Len(q) \in Nat /\ InboxSize \in Nat \ {0}
    BY Constants
  <1>2. CASE Len(q) <= InboxSize
    BY Zenon, <1>2 DEF Kept
  <1>3. CASE ~(Len(q) <= InboxSize)
    <2>1. /\ Len(q) - InboxSize + 1 \in 1..Len(q) /\ Len(q) \in 1..Len(q)
          /\ Len(q) - (Len(q) - InboxSize + 1) + 1 = InboxSize
      BY <1>1, <1>3
    <2>2. /\ SubSeq(q, Len(q) - InboxSize + 1, Len(q)) \in Seq(Ids)
          /\ Len(SubSeq(q, Len(q) - InboxSize + 1, Len(q))) = InboxSize
      BY <1>1, <2>1, <1>3
    <2>3. QED
      BY <1>1, <1>3, <2>2 DEF Kept
  <1>4. QED
    BY ZenonT(30), <1>2, <1>3

LEMMA ReplayInv ==
  ASSUME Inv, NEW s \in Sessions, Replay(s)
  PROVE  Inv'
  <1> DEFINE incoming == After(sess[s].cursor, latest)
             missed   == Newest(incoming)
             queue(texts) == Kept(sess[s].inbox \o texts)
             filled(texts) == [sess[s] EXCEPT !.pc = "answer", !.since = latest,
                                              !.inbox = queue(texts)]
  <1>1. IncomingAfter(sess[s].cursor) = incoming
    BY Zenon DEF IncomingAfter, After
  <1>2. /\ sess[s].pc = "replay"
        /\ UNCHANGED <<latest, fresh, tasks, unbuilt, rows, listening, budget, pulled, first>>
    BY ZenonT(30), SMTT(30) DEF Replay
  <1>3. PICK texts \in InOrder({m \in missed : IsText(m)}) :
          sess' = [sess EXCEPT ![s] = IF missed = incoming THEN filled(texts)
                                      ELSE NoteDelivered(filled(texts), Min(missed) - 1)]
    BY Zenon, <1>1 DEF Replay, Inv
  <1>4. /\ sess[s].cursor \in Cursors /\ latest \in Cursors /\ ReplayLimit > 0
        /\ sess[s].inbox \in Seq(Ids) /\ first \in [Clients -> Cursors]
    BY ZenonT(30), <1>2, SessionFacts DEF SessionSet, Cursors, Named, Inv
  <1>5. incoming \subseteq Ids
    BY ZenonT(30), <1>4, AfterFinite
  <1>6. texts \in Seq(Ids)
    <2> DEFINE T == {m \in missed : IsText(m)}
    <2>1. T \in SUBSET Ids
      BY Zenon, <1>5 DEF Newest
    <2>2. IsFiniteSet(Ids)
      BY Constants, FS_Interval
    <2>3. IsFiniteSet(T)
      BY ONLY ZenonT(30), <2>1, <2>2, FS_Subset
    <2>4. Cardinality(T) \in Nat
      BY ONLY ZenonT(30), <2>3, FS_CardinalityType
    <2>5. texts \in [1..Cardinality(T) -> T]
      BY Zenon, <1>3 DEF InOrder
    <2> HIDE DEF T
    <2>6. texts \in [1..Cardinality(T) -> Ids]
      BY ZenonT(30), <2>1, <2>5
    <2>7. QED
      BY <2>4, <2>6
  <1>7. queue(texts) \in Seq(Ids) /\ Len(queue(texts)) <= InboxSize
    <2>1. sess[s].inbox \o texts \in Seq(Ids)
      BY <1>4, <1>6
    <2>2. QED
      BY ZenonT(30), <2>1, KeptFits
  <1> HIDE DEF incoming, missed, queue
  <1>8. SessionOK(filled(texts), latest, fresh \cup tasks \cup unbuilt, pulled, first)
    <2> DEFINE t == filled(texts)
    <2>1. t \in SessionSet /\ Len(t.inbox) <= InboxSize
      BY ZenonT(30), <1>4, <1>7, SessionFacts DEF SessionSet, Cursors
    <2>2. /\ Owner(t) = Owner(sess[s]) /\ Named(t) /\ t.since = latest
          /\ t.cursor = sess[s].cursor /\ t.writes = sess[s].writes
      BY <1>2, SessionFacts DEF Owner, Named, SessionSet
    <2>3. CursorsEarned(sess[s], latest, pulled, first)
      BY Zenon, SessionFacts
    <2> HIDE DEF t
    <2>4. CursorsEarned(t, latest, pulled, first)
      BY ZenonT(30), <1>4, <2>2, <2>3, StillEarned
    <2>5. FedWell(t, latest, fresh \cup tasks \cup unbuilt, pulled)
      BY ZenonT(30), <1>4, <2>2, NothingAfter DEF FedWell
    <2>6. SessionOK(t, latest, fresh \cup tasks \cup unbuilt, pulled, first)
      BY ZenonT(30), <2>1, <2>2, <2>4, <2>5 DEF SessionOK
    <2>7. QED
      BY Zenon, <2>6 DEF t
  <1> HIDE DEF filled
  <1>9. CASE missed = incoming
    BY Zenon, <1>2, <1>3, <1>8, <1>9, SessionFacts, QuietMoves
  <1>10. CASE missed # incoming
    <2>1. /\ Min(missed) - 1 \in Cursors
          /\ \A taken, begun : Earned(Min(missed) - 1, latest, taken, begun)
      BY ZenonT(30), <1>4, <1>10, JumpEarned DEF missed, incoming
    <2>2. SessionOK(NoteDelivered(filled(texts), Min(missed) - 1), latest, fresh \cup tasks \cup unbuilt,
                    pulled, first)
      BY ZenonT(30), <1>4, <1>8, <2>1, NoteDeliveredOK
    <2>3. QED
      BY ZenonT(30), <1>2, <1>3, <1>10, <2>2, SessionFacts, QuietMoves
  <1>11. QED
    BY ZenonT(30), <1>9, <1>10

LEMMA RangeOfTail ==
  ASSUME NEW S, NEW q \in Seq(S), q # <<>>
  PROVE  /\ Head(q) \in S /\ Tail(q) \in Seq(S) /\ Len(Tail(q)) = Len(q) - 1
         /\ \A x \in Range(q) : x = Head(q) \/ x \in Range(Tail(q))
  <1>1. /\ Len(q) \in Nat /\ Len(q) > 0 /\ DOMAIN q = 1..Len(q)
        /\ Head(q) = q[1] /\ Head(q) \in S /\ Tail(q) \in Seq(S) /\ Len(Tail(q)) = Len(q) - 1
    OBVIOUS
  <1>2. \A i \in 1..Len(q) : i # 1 => i - 1 \in 1..Len(Tail(q)) /\ Tail(q)[i - 1] = q[i]
    BY <1>1
  <1>3. SUFFICES ASSUME NEW x \in Range(q) PROVE x = Head(q) \/ x \in Range(Tail(q))
    BY Zenon, <1>1
  <1>4. PICK i \in 1..Len(q) : x = q[i]
    BY Zenon, <1>1 DEF Range
  <1>5. CASE i = 1
    BY ZenonT(30), <1>1, <1>4, <1>5
  <1>6. CASE i # 1
    <2>1. i - 1 \in DOMAIN Tail(q) /\ Tail(q)[i - 1] = x
      BY <1>1, <1>2, <1>4, <1>6
    <2>2. QED
      BY ZenonT(30), <2>1 DEF Range
  <1>7. QED
    BY ZenonT(30), <1>5, <1>6

LEMMA RangeOfAppend ==
  ASSUME NEW S, NEW q \in Seq(S), NEW m \in S
  PROVE  /\ Append(q, m) \in Seq(S) /\ Len(Append(q, m)) = Len(q) + 1
         /\ m \in Range(Append(q, m)) /\ \A x \in Range(q) : x \in Range(Append(q, m))
  <1> DEFINE a == Append(q, m)
  <1>1. /\ Len(q) \in Nat /\ a \in Seq(S) /\ Len(a) = Len(q) + 1 /\ DOMAIN a = 1..Len(q) + 1
        /\ DOMAIN q = 1..Len(q) /\ a[Len(q) + 1] = m /\ \A i \in 1..Len(q) : a[i] = q[i]
    OBVIOUS
  <1> HIDE DEF a
  <1>2. Len(q) + 1 \in DOMAIN a /\ \A i \in DOMAIN q : i \in DOMAIN a
    BY <1>1
  <1>3. m \in Range(a) /\ \A x \in Range(q) : x \in Range(a)
    BY ZenonT(30), <1>1, <1>2 DEF Range
  <1>4. QED
    BY Zenon, <1>1, <1>3 DEF a

LEMMA RowsKept ==
  ASSUME Inv, NEW upto \in Cursors, latest <= upto,
         NEW took, \A c \in Clients : pulled[c] \subseteq took[c]
  PROVE  RowsEarned(rows, upto, took, first)
  <1>1. SUFFICES ASSUME NEW c \in Clients, rows[c] # None
                 PROVE  Earned(rows[c].cursor, upto, took[c], first[c])
    BY Zenon DEF RowsEarned
  <1>2. /\ rows[c] \in [cursor : Cursors, back : BOOLEAN]
        /\ Earned(rows[c].cursor, latest, pulled[c], first[c])
        /\ first[c] \in Cursors /\ latest \in Cursors
    BY Zenon, <1>1 DEF Inv, RowsType, RowsEarned
  <1>3. rows[c].cursor \in Cursors /\ first[c] <= first[c]
    <2>1. \A x \in Cursors : x <= x
      BY Constants
    <2>2. QED
      BY ZenonT(30), <1>2, <2>1
  <1>4. QED
    BY <1>2, <1>3, EarnedKept

LEMMA PullInv ==
  ASSUME Inv, NEW s \in Sessions, Pull(s)
  PROVE  Inv'
  <1> DEFINE m == Head(sess[s].inbox)
             c == sess[s].app
             u == [sess[s] EXCEPT !.pc = "answer", !.inbox = Tail(sess[s].inbox)]
  <1>1. /\ sess[s].pc = "reading" /\ sess[s].inbox # <<>>
        /\ sess' = [sess EXCEPT ![s] = NoteDelivered(u, m)]
        /\ pulled' = [pulled EXCEPT ![c] = pulled[c] \cup {m}]
        /\ UNCHANGED <<latest, fresh, tasks, unbuilt, rows, listening, budget, first>>
    BY Zenon DEF Pull, Inv
  <1>2. /\ c \in Clients /\ sess[s].inbox \in Seq(Ids) /\ Len(sess[s].inbox) \in Nat
        /\ Len(sess[s].inbox) <= InboxSize
        /\ pulled \in [Clients -> SUBSET Ids] /\ first \in [Clients -> Cursors]
        /\ latest \in Cursors /\ budget \in BudgetType /\ rows \in RowsType
    <2>1. c \in Clients
      BY Zenon, <1>1, SessionFacts DEF Named
    <2>2. sess[s].inbox \in Seq(Ids) /\ Len(sess[s].inbox) <= InboxSize
      BY Zenon, SessionFacts DEF SessionSet
    <2>3. Len(sess[s].inbox) \in Nat
      BY <2>2
    <2>4. QED
      BY ZenonT(30), <2>1, <2>2, <2>3 DEF Inv
  <1>3. /\ m \in Ids /\ Tail(sess[s].inbox) \in Seq(Ids)
        /\ Len(Tail(sess[s].inbox)) = Len(sess[s].inbox) - 1
        /\ \A x \in Range(sess[s].inbox) : x = m \/ x \in Range(Tail(sess[s].inbox))
    BY ZenonT(30), <1>1, <1>2, RangeOfTail
  <1> HIDE DEF m
  <1>4. /\ pulled' \in [Clients -> SUBSET Ids] /\ pulled'[c] = pulled[c] \cup {m}
        /\ \A d \in Clients : pulled[d] \subseteq pulled'[d]
    BY ZenonT(30), <1>1, <1>2, <1>3
  <1>5. /\ \A d \in Clients : first[d] <= first[d]
        /\ latest <= latest /\ m \in Cursors /\ m <= m
    <2>1. \A x \in Cursors : x <= x
      BY Constants
    <2>2. m \in Cursors
      BY ZenonT(30), <1>3, Constants
    <2>3. QED
      BY ZenonT(30), <1>2, <2>1, <2>2
  <1>6. SessionOK(sess[s], latest, fresh \cup tasks \cup unbuilt, pulled', first)
    <2>1. SessionOK(sess[s], latest, fresh \cup tasks \cup unbuilt, pulled, first)
      BY Zenon, SessionFacts
    <2>2. QED
      BY <1>2, <1>4, <1>5, <2>1, NothingAfter, SessionKept
  <1>7. u \in SessionSet /\ Len(u.inbox) <= InboxSize
    <2>1. u \in SessionSet /\ u.inbox = Tail(sess[s].inbox)
      BY ZenonT(30), <1>3, SessionFacts DEF SessionSet
    <2>2. Len(Tail(sess[s].inbox)) <= InboxSize
      BY <1>2, <1>3, Constants
    <2>3. QED
      BY ZenonT(30), <2>1, <2>2
  <1>8. /\ Owner(u) = c /\ Owner(sess[s]) = c /\ Named(u) /\ u.app = c
        /\ u.cursor = sess[s].cursor /\ u.writes = sess[s].writes
        /\ u.since = sess[s].since /\ u.started = sess[s].started
        /\ u.inbox = Tail(sess[s].inbox)
    BY <1>1, SessionFacts DEF Owner, Named, SessionSet
  <1> HIDE DEF u, c
  <1>9. CursorsEarned(u, latest, pulled', first)
    BY Zenon, <1>2, <1>6, <1>8, StillEarned DEF SessionOK
  <1>10. FedWell(u, latest, fresh \cup tasks \cup unbuilt, pulled')
    <2>1. SUFFICES ASSUME u.started, NEW k \in u.since + 1..latest, IsLive(k)
                   PROVE  k \in (fresh \cup tasks \cup unbuilt) \cup Range(u.inbox) \cup pulled'[u.app]
      BY ZenonT(30), SMTT(30) DEF FedWell
    <2>2. k \in (fresh \cup tasks \cup unbuilt) \cup Range(sess[s].inbox) \cup pulled'[sess[s].app]
      BY ZenonT(30), <1>1, <1>6, <1>8, <2>1 DEF FedWell, SessionOK
    <2>3. QED
      BY ZenonT(30), <1>3, <1>4, <1>8, <2>2 DEF c
  <1>11. SessionOK(u, latest, fresh \cup tasks \cup unbuilt, pulled', first)
    BY ZenonT(30), <1>7, <1>8, <1>9, <1>10 DEF SessionOK
  <1>12. Earned(m, latest, pulled'[c], first[c])
    BY ZenonT(30), <1>4, <1>5 DEF Earned
  <1>13. SessionOK(NoteDelivered(u, m), latest, fresh \cup tasks \cup unbuilt, pulled', first)
    BY ONLY <1>2, <1>5, <1>8, <1>11, <1>12, NoteDeliveredOK
  <1>14. RowsEarned(rows, latest, pulled', first)
    BY ZenonT(30), <1>2, <1>4, <1>5, RowsKept
  <1>15. QED
    <2>1. /\ sess' = [sess EXCEPT ![s] = NoteDelivered(u, m)]
          /\ latest' = latest /\ fresh' = fresh /\ tasks' = tasks /\ unbuilt' = unbuilt /\ listening' = listening
          /\ budget' \in BudgetType /\ first' = first /\ rows' = rows
      BY ZenonT(30), <1>1, <1>2
    <2>2. QED
      BY Zenon, <1>2, <1>4, <1>5, <1>13, <1>14, <2>1, OneMoves

-----------------------------------------------------------------------------
(* Steps of the server and of its users.                                   *)

LEMMA StoreInv ==
  ASSUME Inv, Store
  PROVE  Inv'
  <1>1. latest \in Cursors /\ latest' \in Cursors /\ latest <= latest' /\ latest' = latest + 1
        /\ latest' \in Ids
    BY Constants DEF Inv, Store, Cursors
  <1>2. /\ UNCHANGED <<tasks, unbuilt, rows, sess, listening, budget, pulled, first>>
        /\ fresh' = IF IsLive(latest') THEN fresh \cup {latest'} ELSE fresh
    BY Zenon DEF Store
  <1>3. /\ fresh' \in SUBSET Ids /\ fresh \cup tasks \cup unbuilt \subseteq fresh' \cup tasks \cup unbuilt
        /\ IsLive(latest') => latest' \in fresh' \cup tasks \cup unbuilt
    BY Zenon, <1>1, <1>2 DEF Inv
  <1>4. \A m \in latest + 1..latest' : m = latest'
    BY <1>1, Constants
  <1>5. /\ \A c \in Clients : pulled[c] \subseteq pulled[c] /\ first[c] <= first[c]
        /\ first \in [Clients -> Cursors]
    <2>1. \A x \in Cursors : x <= x
      BY Constants
    <2>2. QED
      BY Zenon, <2>1 DEF Inv
  <1>6. \A s \in Sessions : SessionOK(sess[s], latest', fresh' \cup tasks \cup unbuilt, pulled, first)
    <2>1. SUFFICES ASSUME NEW s \in Sessions
                   PROVE  SessionOK(sess[s], latest', fresh' \cup tasks \cup unbuilt, pulled, first)
      BY Zenon
    <2>2. SessionOK(sess[s], latest, fresh \cup tasks \cup unbuilt, pulled, first)
      BY Zenon DEF Inv
    <2>3. QED
      BY <1>1, <1>3, <1>4, <1>5, <2>2, SessionKept
  <1>7. RowsEarned(rows, latest', pulled, first)
    BY Zenon, <1>1, <1>5, RowsKept
  <1>8. QED
    BY ZenonT(30), <1>1, <1>2, <1>3, <1>6, <1>7 DEF Inv

\* A session nobody is connected to owes nothing.
LEMMA UnfedOK ==
  ASSUME NEW t, NEW upto, NEW coming, NEW coming2, NEW took, NEW begun,
         SessionOK(t, upto, coming, took, begun), t.pc \in {"gone", "leaving"}
  PROVE  SessionOK(t, upto, coming2, took, begun)
  BY Zenon DEF SessionOK, FedWell

LEMMA BroadcastInv ==
  ASSUME Inv, NEW m \in Ids, Broadcast(m)
  PROVE  Inv'
  <1>1. /\ m \in fresh /\ fresh' = fresh \ {m}
        /\ tasks' = IF \E s \in Sessions : Connected(s) THEN tasks \cup {m} ELSE tasks
        /\ UNCHANGED <<latest, unbuilt, rows, sess, listening, budget, pulled, first>>
    BY Zenon DEF Broadcast
  <1>2. fresh' \in SUBSET Ids /\ tasks' \in SUBSET Ids
    BY Zenon, <1>1 DEF Inv
  <1>3. \A s \in Sessions : SessionOK(sess[s], latest, fresh' \cup tasks' \cup unbuilt, pulled, first)
    <2>1. SUFFICES ASSUME NEW s \in Sessions
                   PROVE  SessionOK(sess[s], latest, fresh' \cup tasks' \cup unbuilt, pulled, first)
      BY Zenon
    <2>2. SessionOK(sess[s], latest, fresh \cup tasks \cup unbuilt, pulled, first)
      BY Zenon DEF Inv
    <2>3. CASE Connected(s)
      <3>1. fresh' \cup tasks' \cup unbuilt = fresh \cup tasks \cup unbuilt
        BY Zenon, <1>1, <2>3
      <3>2. QED
        BY Zenon, <2>2, <3>1
    <2>4. CASE ~Connected(s)
      BY ZenonT(30), <2>2, <2>4, UnfedOK DEF Connected
    <2>5. QED
      BY ZenonT(30), <2>3, <2>4
  <1>4. QED
    BY ZenonT(30), <1>1, <1>2, <1>3 DEF Inv

\* An app is fed: the message is in its inbox, and what that pushed out is not owed.
LEMMA FedOK ==
  ASSUME NEW t, NEW m \in Ids, NEW upto \in Cursors, NEW coming, NEW coming2, NEW took,
         NEW begun \in [Clients -> Cursors],
         SessionOK(t, upto, coming, took, begun), t.pc # "gone",
         \A x \in coming : x = m \/ x \in coming2
  PROVE  SessionOK(Fed(t, m), upto, coming2, took, begun)
  <1> DEFINE q == t.inbox
             p == Queued(q, m)
             from == IF Len(q) < InboxSize THEN t.since ELSE Max({t.since, Head(q)})
             u == [t EXCEPT !.inbox = p, !.since = from]
  <1>1. /\ t \in SessionSet /\ Len(q) <= InboxSize /\ Named(t)
        /\ CursorsEarned(t, upto, took, begun) /\ FedWell(t, upto, coming, took)
    BY Zenon DEF SessionOK
  <1>2. q \in Seq(Ids) /\ t.since \in Cursors
    BY Zenon, <1>1 DEF SessionSet, Cursors
  <1>3. /\ Len(q) \in Nat /\ InboxSize \in Nat \ {0} /\ t.since \in Int /\ upto \in Int
        /\ \A x \in Cursors : x \in Int
    <2>1. Len(q) \in Nat
      BY <1>2
    <2>2. InboxSize \in Nat \ {0} /\ \A x \in Cursors : x \in Int
      BY Constants
    <2>3. QED
      BY ZenonT(30), <1>2, <2>1, <2>2
  <1>4. Fed(t, m) = u
    BY Zenon, SMTT(30) DEF Fed
  <1>5. /\ p \in Seq(Ids) /\ Len(p) <= InboxSize /\ m \in Range(p)
        /\ from \in Cursors /\ from >= t.since
        /\ \A k \in from + 1..upto : k \in Range(q) => k \in Range(p)
    <2>1. CASE Len(q) < InboxSize
      <3>1. p = Append(q, m) /\ from = t.since
        BY Zenon, <2>1 DEF Queued
      <3>2. /\ p \in Seq(Ids) /\ Len(p) = Len(q) + 1
            /\ m \in Range(p) /\ \A x \in Range(q) : x \in Range(p)
        BY <1>2, <3>1, RangeOfAppend
      <3>3. Len(p) <= InboxSize /\ from >= t.since
        BY <1>3, <2>1, <3>1, <3>2
      <3> HIDE DEF p, from
      <3>4. QED
        BY Zenon, <1>2, <3>1, <3>2, <3>3
    <2>2. CASE ~(Len(q) < InboxSize)
      <3>1. p = Append(Tail(q), m) /\ from = Max({t.since, Head(q)})
        BY Zenon, <2>2 DEF Queued
      <3>2. Len(q) = InboxSize /\ q # <<>>
        BY <1>1, <1>3, <2>2
      <3>3. /\ Head(q) \in Ids /\ Tail(q) \in Seq(Ids) /\ Len(Tail(q)) = Len(q) - 1
            /\ \A x \in Range(q) : x = Head(q) \/ x \in Range(Tail(q))
        BY ZenonT(30), <1>2, <3>2, RangeOfTail
      <3>4. /\ p \in Seq(Ids) /\ Len(p) = Len(Tail(q)) + 1
            /\ m \in Range(p) /\ \A x \in Range(Tail(q)) : x \in Range(p)
        <4> DEFINE r == Tail(q)
        <4>1. r \in Seq(Ids) /\ p = Append(r, m)
          BY ZenonT(30), <3>1, <3>3
        <4> HIDE DEF r, p
        <4>2. /\ p \in Seq(Ids) /\ Len(p) = Len(r) + 1
              /\ m \in Range(p) /\ \A x \in Range(r) : x \in Range(p)
          BY ZenonT(30), <4>1, RangeOfAppend
        <4>3. QED
          BY Zenon, <4>2 DEF r
      <3>5. Len(p) <= InboxSize
        BY <1>3, <3>2, <3>3, <3>4
      <3>6. Head(q) \in Cursors /\ Head(q) \in Int
        BY <3>3, Constants
      <3>7. from \in {t.since, Head(q)} /\ from >= t.since /\ from >= Head(q)
        BY Zenon, <1>3, <3>1, <3>6, MaxOfTwo
      <3> HIDE DEF p, q, from
      <3>8. from \in Cursors /\ from \in Int
        BY ZenonT(30), <1>2, <1>3, <3>6, <3>7
      <3>9. \A k \in from + 1..upto : k # Head(q)
        BY <3>6, <3>7, <3>8, Constants
      <3>10. QED
        BY Zenon, <3>3, <3>4, <3>5, <3>7, <3>8, <3>9
    <2>3. QED
      BY Zenon, <2>1, <2>2
  <1> HIDE DEF p, from
  <1>6. u \in SessionSet /\ Len(u.inbox) <= InboxSize
    BY Zenon, <1>1, <1>5 DEF SessionSet, Cursors
  <1>7. /\ Owner(u) = Owner(t) /\ Named(u) /\ u.cursor = t.cursor /\ u.writes = t.writes
        /\ u.started = t.started /\ u.pc = t.pc /\ u.app = t.app
        /\ u.inbox = p /\ u.since = from
    BY Zenon, <1>1 DEF Owner, Named, SessionSet
  <1> HIDE DEF u
  <1>8. CursorsEarned(u, upto, took, begun)
    BY Zenon, <1>1, <1>7, StillEarned
  <1>9. FedWell(u, upto, coming2, took)
    <2>1. SUFFICES ASSUME t.started, t.pc \in {"reading", "answer"},
                          NEW k \in from + 1..upto, IsLive(k)
                   PROVE  k \in coming2 \cup Range(p) \cup took[t.app]
      BY Zenon, <1>7 DEF FedWell
    <2>2. k \in t.since + 1..upto
      <3>1. from \in Int /\ t.since \in Int /\ upto \in Int /\ from >= t.since
        BY ZenonT(30), <1>3, <1>5
      <3>2. QED
        BY <2>1, <3>1
    <2>3. k \in coming \cup Range(q) \cup took[t.app]
      BY ZenonT(30), <1>1, <2>1, <2>2 DEF FedWell
    <2>4. QED
      BY Zenon, <1>5, <2>1, <2>3
  <1>10. QED
    BY ZenonT(30), <1>4, <1>6, <1>7, <1>8, <1>9 DEF SessionOK

LEMMA EnqueueInv ==
  ASSUME Inv, NEW m \in Ids, Enqueue(m)
  PROVE  Inv'
  <1>1. /\ m \in tasks /\ tasks' = tasks \ {m}
        /\ sess' = [s \in Sessions |-> IF Connected(s) THEN Fed(sess[s], m) ELSE sess[s]]
        /\ UNCHANGED <<latest, fresh, unbuilt, rows, listening, budget, pulled, first>>
    BY Zenon DEF Enqueue
  <1>2. /\ tasks' \in SUBSET Ids
        /\ \A x \in fresh \cup tasks \cup unbuilt : x = m \/ x \in fresh \cup tasks' \cup unbuilt
        /\ latest \in Cursors /\ first \in [Clients -> Cursors]
    BY Zenon, <1>1 DEF Inv
  <1>3. \A s \in Sessions : SessionOK(sess'[s], latest, fresh \cup tasks' \cup unbuilt, pulled, first)
    <2>1. SUFFICES ASSUME NEW s \in Sessions
                   PROVE  SessionOK(sess'[s], latest, fresh \cup tasks' \cup unbuilt, pulled, first)
      BY ZenonT(30)
    <2>2. SessionOK(sess[s], latest, fresh \cup tasks \cup unbuilt, pulled, first)
      BY Zenon DEF Inv
    <2>3. CASE Connected(s)
      <3>1. sess'[s] = Fed(sess[s], m) /\ sess[s].pc # "gone"
        BY Zenon, <1>1, <2>3 DEF Connected
      <3>2. QED
        BY <1>2, <2>2, <3>1, FedOK
    <2>4. CASE ~Connected(s)
      <3>1. sess'[s] = sess[s] /\ sess[s].pc \in {"gone", "leaving"}
        BY Zenon, <1>1, <2>4 DEF Connected
      <3>2. QED
        BY Zenon, <2>2, <3>1, UnfedOK
    <2>5. QED
      BY ZenonT(30), <2>3, <2>4
  <1>4. sess' \in [Sessions -> SessionSet]
    BY Zenon, <1>1, <1>3 DEF SessionOK
  <1>5. QED
    BY ZenonT(30), <1>1, <1>2, <1>3, <1>4 DEF Inv

LEMMA EnqueueFailsInv ==
  ASSUME Inv, NEW m \in Ids, EnqueueFails(m)
  PROVE  Inv'
  <1>1. /\ m \in tasks /\ tasks' = tasks \ {m} /\ unbuilt' = unbuilt \cup {m}
        /\ UNCHANGED <<latest, fresh, rows, sess, listening, pulled, first>>
    BY Zenon DEF EnqueueFails
  <1>2. /\ tasks' \in SUBSET Ids /\ unbuilt' \in SUBSET Ids
        /\ fresh \cup tasks' \cup unbuilt' = fresh \cup tasks \cup unbuilt
    BY Zenon, <1>1 DEF Inv
  <1>3. budget' \in BudgetType
    BY Zenon, FailsBudget DEF EnqueueFails
  <1>4. QED
    BY ZenonT(30), <1>1, <1>2, <1>3 DEF Inv

LEMMA ForgetInv ==
  ASSUME Inv, NEW c \in Clients, Forget(c)
  PROVE  Inv'
  <1>1. rows' \in RowsType /\ RowsEarned(rows', latest, pulled, first)
    BY Zenon DEF Inv, Forget, RowsType, RowsEarned
  <1>2. budget' \in BudgetType
    BY Zenon, FailsBudget DEF Forget
  <1>3. QED
    BY Zenon, <1>1, <1>2 DEF Inv, Forget

LEMMA StopInv ==
  ASSUME Inv, Stop
  PROVE  Inv'
  <1>1. \A s \in Sessions : SessionOK(sess'[s], latest, fresh \cup tasks \cup unbuilt, pulled, first)
    <2>1. SUFFICES ASSUME NEW s \in Sessions
                   PROVE  SessionOK(sess'[s], latest, fresh \cup tasks \cup unbuilt, pulled, first)
      BY Zenon
    <2>2. /\ SessionOK(sess[s], latest, fresh \cup tasks \cup unbuilt, pulled, first)
          /\ first \in [Clients -> Cursors]
      BY Zenon DEF Inv
    <2>3. CASE Connected(s)
      <3>1. sess'[s] = Leaving(sess[s]) /\ sess[s].pc # "gone"
        BY Zenon, <2>3 DEF Stop, Connected
      <3>2. QED
        BY ZenonT(30), <2>2, <3>1, LeavingOK
    <2>4. CASE ~Connected(s)
      BY ZenonT(30), <2>2, <2>4 DEF Stop
    <2>5. QED
      BY Zenon, <2>3, <2>4
  <1>2. sess' \in [Sessions -> SessionSet]
    BY Zenon, <1>1 DEF Stop, SessionOK
  <1>3. budget' \in BudgetType
    BY ZenonT(30), FailsBudget DEF Stop
  <1>4. QED
    BY ZenonT(30), <1>1, <1>2, <1>3 DEF Inv, Stop

LEMMA RestartInv ==
  ASSUME Inv, Restart
  PROVE  Inv'
  <1>1. \A s \in Sessions : SessionOK(sess'[s], latest, fresh' \cup tasks' \cup unbuilt, pulled, first)
    BY Zenon, GoneOK DEF Restart
  <1>2. sess' \in [Sessions -> SessionSet]
    BY Zenon, <1>1 DEF Restart, SessionOK
  <1>3. budget' \in BudgetType
    <2>1. CASE listening
      BY ZenonT(30), <2>1, FailsBudget DEF Restart, Fails
    <2>2. CASE ~listening
      BY Zenon, <2>2 DEF Restart, Inv
    <2>3. QED
      BY ZenonT(30), <2>1, <2>2
  <1>4. QED
    BY ZenonT(30), <1>1, <1>2, <1>3 DEF Inv, Restart

LEMMA NextInv ==
  ASSUME Inv, [Next]_vars
  PROVE  Inv'
  <1>1. CASE Store
    BY Zenon, <1>1, StoreInv
  <1>2. ASSUME NEW m \in Ids, Broadcast(m) PROVE Inv'
    BY Zenon, <1>2, BroadcastInv
  <1>3. ASSUME NEW m \in Ids, Enqueue(m) PROVE Inv'
    BY Zenon, <1>3, EnqueueInv
  <1>4. ASSUME NEW m \in Ids, EnqueueFails(m) PROVE Inv'
    BY Zenon, <1>4, EnqueueFailsInv
  <1>5. ASSUME NEW s \in Sessions, SessionStep(s) PROVE Inv'
    BY <1>5, ConnectInv, AppStartInv, GetLatestInv, RecordConnectionInv, LoadFailsInv,
       ReplayInv, PullInv, AnswerInv, HangupInv, PersistWakesInv, PersistWritesInv,
       PersistFailsInv, LeaveInv, LeaveFailsInv DEF SessionStep
  <1>6. ASSUME NEW c \in Clients, Forget(c) PROVE Inv'
    BY <1>6, ForgetInv
  <1>7. CASE Stop
    BY Zenon, <1>7, StopInv
  <1>8. CASE Restart
    BY Zenon, <1>8, RestartInv
  <1>9. CASE UNCHANGED vars
    BY Zenon, <1>9 DEF vars, Inv
  <1>10. QED
    BY ZenonT(30), <1>1, <1>2, <1>3, <1>4, <1>5, <1>6, <1>7, <1>8, <1>9 DEF Next

-----------------------------------------------------------------------------
(* The theorems.                                                           *)

(* Cursors, inboxes and counts keep their types and an inbox its limit,    *)
(* whatever the apps, the database calls and the operator do.              *)
THEOREM InboxTypes == Spec => []TypeOK
  <1>1. Inv => TypeOK
    BY Zenon DEF Inv, TypeOK, SessionOK, Cursors, RowsType, BudgetType
  <1>2. Inv /\ [Next]_vars => Inv'
    BY Zenon, NextInv
  <1>3. QED
    BY <1>1, <1>2, InitInv, PTL DEF Spec

(* No interleaving of connections of one client, delayed writes, failed    *)
(* writes and restarts makes the stored cursor of an app pass a message    *)
(* that the app has not taken and that a replay would still offer.         *)
THEOREM AppsResumeFromPulled == Spec => []ResumesFromPulled
  <1>1. ASSUME Inv PROVE ResumesFromPulled
    <2>1. SUFFICES ASSUME NEW c \in Clients, rows[c] # None,
                          NEW m \in Newest(IncomingAfter(first[c])),
                          IsText(m), \A n \in pulled[c] : n < m
                   PROVE  rows[c].cursor < m
      BY Zenon DEF ResumesFromPulled
    <2> DEFINE v     == rows[c].cursor
               begun == first[c]
               ahead == IncomingAfter(begun)
               above == {n \in ahead : n > m}
    <2>2. /\ rows[c] \in [cursor : Cursors, back : BOOLEAN]
          /\ Earned(v, latest, pulled[c], begun)
          /\ begun \in Cursors /\ latest \in Cursors /\ pulled[c] \subseteq Ids
      BY ZenonT(30), <1>1, <2>1 DEF Inv, RowsType, RowsEarned
    <2>3. v \in Cursors
      BY Zenon, <2>2
    <2>4. \A x \in Cursors : x \in Int
      BY Constants
    <2>5. ahead = After(begun, latest) /\ m \in ahead /\ Cardinality(above) < ReplayLimit
      BY Zenon, <2>1 DEF IncomingAfter, After, Newest
    <2>6. /\ ahead \subseteq Ids /\ IsFiniteSet(ahead)
      BY ZenonT(30), <2>2, <2>5, AfterFinite
    <2>7. m \in Ids /\ m \in Int /\ begun < m
      <3>1. m \in Ids /\ m \in begun + 1..latest
        BY Zenon, <2>5, <2>6 DEF After
      <3>2. begun \in Int /\ latest \in Int
        BY ZenonT(30), <2>2, <2>4
      <3> HIDE DEF begun
      <3>3. m \in Int /\ begun < m
        BY ONLY <3>1, <3>2
      <3>4. QED
        BY Zenon, <3>1, <3>3
    <2>8. SUFFICES ASSUME v >= m PROVE FALSE
      <3>1. v \in Int /\ m \in Int
        BY ZenonT(30), <2>3, <2>4, <2>7
      <3>2. v < m \/ v >= m
        BY ONLY <3>1
      <3>3. QED
        BY Zenon, <3>2
    <2> HIDE DEF v, begun, ahead
    <2>9. CASE v <= begun
      BY <2>2, <2>3, <2>4, <2>7, <2>8, <2>9
    <2>10. CASE \E n \in pulled[c] : v <= n
      <3>1. PICK n \in pulled[c] : v <= n
        BY Zenon, <2>10
      <3>2. n \in Int /\ n < m
        BY <2>1, <2>2, <3>1, Constants
      <3>3. QED
        BY <2>3, <2>4, <2>7, <2>8, <3>1, <3>2
    <2>11. CASE ReplayLimit > 0 /\ Cardinality(After(v, latest)) >= ReplayLimit
      <3>1. \A n \in After(v, latest) : n \in After(begun, latest) /\ n > m
        <4>1. v \in Int /\ begun \in Int /\ latest \in Int /\ m \in Int
          BY Zenon, <2>2, <2>3, <2>4, <2>7
        <4>2. \A n \in v + 1..latest : n \in begun + 1..latest /\ n > m
          BY <2>7, <2>8, <4>1
        <4>3. QED
          BY Zenon, <4>2 DEF After
      <3>2. After(v, latest) \in SUBSET above
        BY ZenonT(30), <2>5, <3>1
      <3>3. IsFiniteSet(above) /\ Cardinality(above) \in Nat
        <4>1. above \in SUBSET ahead
          BY Zenon
        <4> HIDE DEF above
        <4>2. IsFiniteSet(above)
          BY ONLY ZenonT(30), <2>6, <4>1, FS_Subset
        <4>3. QED
          BY ONLY ZenonT(30), <4>2, FS_CardinalityType
      <3>4. Cardinality(After(v, latest)) \in Nat
        BY ZenonT(30), <2>2, <2>3, AfterFinite
      <3> HIDE DEF above
      <3>5. Cardinality(After(v, latest)) <= Cardinality(above)
        BY ONLY ZenonT(30), <3>2, <3>3, FS_Subset
      <3>6. ReplayLimit \in Nat
        BY Constants
      <3>7. QED
        BY ONLY <2>5, <2>11, <3>3, <3>4, <3>5, <3>6
    <2>12. QED
      BY ZenonT(30), <2>2, <2>9, <2>10, <2>11 DEF Earned
  <1>2. Inv /\ [Next]_vars => Inv'
    BY Zenon, NextInv
  <1>3. QED
    BY <1>1, <1>2, InitInv, PTL DEF Spec

(* However many apps share the node and however their commands interleave  *)
(* with broadcasts, each connected one gets its own copy of every live     *)
(* message a frame was built of, unless its inbox overran.                 *)
THEOREM AppsAreFed == Spec => []EveryAppFed
  <1>1. ASSUME Inv PROVE EveryAppFed
    BY ZenonT(30), <1>1 DEF Inv, SessionOK, FedWell, EveryAppFed
  <1>2. Inv /\ [Next]_vars => Inv'
    BY Zenon, NextInv
  <1>3. QED
    BY <1>1, <1>2, InitInv, PTL DEF Spec

\* The write of a cursor keeps the greater one.
LEMMA AdvanceKeeps ==
  ASSUME Inv, NEW c \in Clients, rows[c] # None, NEW v \in Cursors
  PROVE  Advanced(rows[c], v).cursor >= rows[c].cursor
  <1> DEFINE r == rows[c]
  <1>1. r \in [cursor : Cursors, back : BOOLEAN]
    BY Zenon DEF Inv, RowsType
  <1>2. \A x \in Cursors : x \in Int
    BY Constants
  <1>3. Max({r.cursor, v}) >= r.cursor
    <2>1. r.cursor \in Int /\ v \in Int
      BY ZenonT(30), <1>1, <1>2
    <2>2. QED
      BY ZenonT(30), <2>1, MaxOfTwo
  <1>4. Advanced(r, v).cursor = Max({r.cursor, v})
    BY Zenon, <1>1 DEF Advanced
  <1>5. QED
    BY ZenonT(30), <1>3, <1>4

(* An older cursor that is written late, by another connection of the same *)
(* client or by a task that slept, never moves the client's row back.      *)
THEOREM CursorsNeverGoBack == Spec => CursorNeverBack
  <1> DEFINE Step == \A c \in Clients :
               rows[c] # None /\ rows'[c] # None => rows'[c].cursor >= rows[c].cursor
  <1>1. ASSUME Inv, [Next]_vars PROVE Step
    <2>1. SUFFICES ASSUME NEW c \in Clients, rows[c] # None, rows'[c] # None
                   PROVE  rows'[c].cursor >= rows[c].cursor
      BY Zenon
    <2>2. rows \in RowsType /\ rows[c] \in [cursor : Cursors, back : BOOLEAN]
      BY ZenonT(30), <1>1, <2>1 DEF Inv, RowsType
    <2>3. rows[c].cursor >= rows[c].cursor
      <3>1. rows[c].cursor \in Cursors
        BY Zenon, <2>2
      <3>2. \A x \in Cursors : x >= x
        BY Constants
      <3>3. QED
        BY Zenon, <3>1, <3>2
    <2>4. CASE rows' = rows
      BY Zenon, <2>3, <2>4
    <2>5. ASSUME NEW d, NEW v \in Cursors, rows' = [rows EXCEPT ![d] = Advanced(rows[d], v)]
          PROVE  rows'[c].cursor >= rows[c].cursor
      <3>1. CASE d = c
        <4>1. rows'[c] = Advanced(rows[c], v)
          BY Zenon, <2>2, <2>5, <3>1 DEF RowsType
        <4>2. QED
          BY ZenonT(30), <1>1, <2>1, <4>1, AdvanceKeeps
      <3>2. CASE d # c
        <4>1. rows'[c] = rows[c]
          BY Zenon, <2>2, <2>5, <3>2 DEF RowsType
        <4>2. QED
          BY Zenon, <2>3, <4>1
      <3>3. QED
        BY Zenon, <3>1, <3>2
    <2>6. ASSUME NEW s \in Sessions, RecordConnection(s)
          PROVE  rows'[c].cursor >= rows[c].cursor
      <3>1. rows' = [rows EXCEPT ![sess[s].client] =
                       Recorded(rows[sess[s].client], sess[s].latest)]
        BY Zenon, <2>6 DEF RecordConnection
      <3>2. rows'[c].cursor = rows[c].cursor
        BY ZenonT(30), <2>1, <2>2, <3>1 DEF RowsType, Recorded
      <3>3. QED
        BY Zenon, <2>3, <3>2
    <2>7. ASSUME NEW s \in Sessions, PersistWrites(s)
          PROVE  rows'[c].cursor >= rows[c].cursor
      BY ZenonT(30), <1>1, <2>5, <2>7, WritesEarned DEF PersistWrites
    <2>8. ASSUME NEW s \in Sessions, Leave(s)
          PROVE  rows'[c].cursor >= rows[c].cursor
      BY Zenon, <1>1, <2>4, <2>5, <2>8, WritesEarned DEF Leave
    <2>9. ASSUME NEW d \in Clients, Forget(d)
          PROVE  rows'[c].cursor >= rows[c].cursor
      <3>1. rows'[c] = rows[c]
        BY ZenonT(30), <2>1, <2>2, <2>9 DEF Forget, RowsType
      <3>2. QED
        BY ZenonT(30), <2>3, <3>1
    <2>10. ASSUME NEW s \in Sessions, SessionStep(s)
           PROVE  rows'[c].cursor >= rows[c].cursor
      <3>1. \/ rows' = rows
            \/ RecordConnection(s) \/ PersistWrites(s) \/ Leave(s)
        BY ZenonT(30), <2>10 DEF SessionStep, Connect, AppStart, GetLatest, LoadFails, Replay, Pull,
           Answer, Hangup, PersistWakes, PersistFails, LeaveFails
      <3>2. QED
        BY ZenonT(30), <2>4, <2>6, <2>7, <2>8, <3>1
    <2>11. \/ rows' = rows
           \/ \E s \in Sessions : SessionStep(s)
           \/ \E d \in Clients : Forget(d)
      BY ZenonT(30), <1>1 DEF Next, Store, Broadcast, Enqueue, EnqueueFails, Stop, Restart, vars
    <2>12. QED
      BY ZenonT(30), <2>4, <2>9, <2>10, <2>11
  <1>2. Inv /\ [Next]_vars => [Step]_vars /\ Inv'
    BY ZenonT(30), <1>1, NextInv
  <1>3. Inv /\ [][Next]_vars => [][Step]_vars
    BY <1>2, PTL
  <1>4. QED
    BY <1>3, InitInv, PTL DEF Spec, CursorNeverBack
=============================================================================
