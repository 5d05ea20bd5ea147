---------------------------- MODULE FanoutProofs ----------------------------
(* What FanoutManager keeps to for any number of configurations, requests and  *)
(* handlers, whatever updates, deletes, timeouts and faults overlap.           *)
EXTENDS FanoutManager, TLAPS

-----------------------------------------------------------------------------
(* Sequences, as far as they are needed here.                                  *)

LEMMA SeqDomain ==
  ASSUME NEW S, NEW q \in Seq(S)
  PROVE  DOMAIN q = 1..Len(q) /\ Len(q) \in Nat /\ \A k \in DOMAIN q : q[k] \in S
OBVIOUS

LEMMA SeqFunction == \A S : \A n \in Nat : \A q \in [1..n -> S] : q \in Seq(S)
OBVIOUS

LEMMA SeqReplace ==
  ASSUME NEW S, NEW q \in Seq(S), NEW k \in DOMAIN q, NEW e \in S
  PROVE  [q EXCEPT ![k] = e] \in Seq(S)
OBVIOUS

LEMMA SeqAppend ==
  ASSUME NEW S, NEW q \in Seq(S), NEW e \in S
  PROVE  /\ Append(q, e) \in Seq(S) /\ Len(Append(q, e)) = Len(q) + 1
         /\ \A k \in 1..(Len(q) + 1) : Append(q, e)[k] = IF k = Len(q) + 1 THEN e ELSE q[k]
OBVIOUS

LEMMA SeqTail ==
  ASSUME NEW S, NEW q \in Seq(S), Len(q) # 0
  PROVE  /\ Tail(q) \in Seq(S) /\ Len(Tail(q)) = Len(q) - 1 /\ Head(q) = q[1]
         /\ \A k \in 1..Len(Tail(q)) : Tail(q)[k] = q[k + 1]
OBVIOUS

USE DEF envVars, mqttVars, managerVars, countVars

-----------------------------------------------------------------------------
(* What a step does to publishers and loops.                                  *)

\* Publishers stay what they are, and there may be more of them.
PubsGo(ps, qs) ==
  /\ ps \in Seq(PubType) /\ qs \in Seq(PubType) /\ DOMAIN ps \subseteq DOMAIN qs
  /\ \A i \in DOMAIN ps : qs[i].config = ps[i].config /\ qs[i].ver = ps[i].ver

\* Loops stay with their publisher, and none that has ended runs again.
LoopsGo(ls, ms) ==
  /\ ls \in Seq(LoopType) /\ ms \in Seq(LoopType) /\ DOMAIN ls \subseteq DOMAIN ms
  /\ \A l \in DOMAIN ls : ms[l].pub = ls[l].pub /\ (ls[l].pc = "ended" => ms[l].pc = "ended")

Waits(ls, l, a) == \E k \in DOMAIN ls[l].waits : ls[l].waits[k] = a

\* Whoever awaits the end of a loop still does, except who.
WaitsGo(ls, ms, who) ==
  \A l \in DOMAIN ls, b \in Actors \ {who} : Waits(ls, l, b) => Waits(ms, l, b)

\* A loop that waits has the version it connected with.
Awake(ls) == \A l \in DOMAIN ls : ls[l].pc = "wait" => ~ls[l].stale

LEMMA SetPub ==
  ASSUME NEW ps \in Seq(PubType), NEW i \in DOMAIN ps, NEW p \in PubType,
         p.config = ps[i].config, p.ver = ps[i].ver
  PROVE  /\ PubsGo(ps, [ps EXCEPT ![i] = p])
         /\ DOMAIN [ps EXCEPT ![i] = p] = DOMAIN ps
         /\ \A j \in DOMAIN ps : [ps EXCEPT ![i] = p][j] = IF j = i THEN p ELSE ps[j]
<1>1. i \in 1..Len(ps) /\ DOMAIN ps = 1..Len(ps)
  BY Zenon, SeqDomain
<1>2. [ps EXCEPT ![i] = p] \in Seq(PubType)
  BY Zenon, <1>1, SeqReplace
<1> QED BY Zenon, <1>1, <1>2 DEF PubsGo

LEMMA OfflineGoes ==
  ASSUME NEW ps \in Seq(PubType), NEW i \in DOMAIN ps
  PROVE  /\ PubsGo(ps, Offline(ps, i)) /\ DOMAIN Offline(ps, i) = DOMAIN ps
         /\ \A j \in DOMAIN ps : Offline(ps, i)[j].task = ps[j].task
<1> DEFINE p == [ps[i] EXCEPT !.client = None, !.connected = FALSE]
<1>1. ps[i] \in PubType
  BY Zenon, SeqDomain
<1>2. p \in PubType /\ p.config = ps[i].config /\ p.ver = ps[i].ver /\ p.task = ps[i].task
  BY Zenon, <1>1 DEF PubType, NatOrNone
<1>3. Offline(ps, i) = [ps EXCEPT ![i] = p]
  BY Zenon DEF Offline
<1> HIDE DEF p
<1>4. /\ PubsGo(ps, [ps EXCEPT ![i] = p]) /\ DOMAIN [ps EXCEPT ![i] = p] = DOMAIN ps
      /\ \A j \in DOMAIN ps : [ps EXCEPT ![i] = p][j] = IF j = i THEN p ELSE ps[j]
  BY Zenon, <1>2, SetPub
<1> QED BY Zenon, <1>2, <1>3, <1>4

\* Two steps in a row.
LEMMA LoopsGoOn ==
  ASSUME NEW ls, NEW ms, NEW ns, LoopsGo(ls, ms), LoopsGo(ms, ns)
  PROVE  LoopsGo(ls, ns)
BY Zenon DEF LoopsGo

\* One loop changes.
LEMMA SetLoop ==
  ASSUME NEW ls \in Seq(LoopType), NEW l \in DOMAIN ls, NEW r \in LoopType,
         r.pub = ls[l].pub, ls[l].pc = "ended" => r.pc = "ended"
  PROVE  /\ LoopsGo(ls, [ls EXCEPT ![l] = r]) /\ DOMAIN [ls EXCEPT ![l] = r] = DOMAIN ls
         /\ \A m \in DOMAIN ls : [ls EXCEPT ![l] = r][m] = IF m = l THEN r ELSE ls[m]
         /\ \A who : r.waits = ls[l].waits => WaitsGo(ls, [ls EXCEPT ![l] = r], who)
         /\ (r.pc = "wait" => ~r.stale) /\ Awake(ls) => Awake([ls EXCEPT ![l] = r])
<1>1. l \in 1..Len(ls) /\ DOMAIN ls = 1..Len(ls)
  BY Zenon, SeqDomain
<1>2. [ls EXCEPT ![l] = r] \in Seq(LoopType)
  BY Zenon, <1>1, SeqReplace
<1>3. \A m \in DOMAIN ls : [ls EXCEPT ![l] = r][m] = IF m = l THEN r ELSE ls[m]
  BY Zenon
<1>4. LoopsGo(ls, [ls EXCEPT ![l] = r])
  BY Zenon, <1>2, <1>3 DEF LoopsGo
<1>5. ASSUME NEW who, r.waits = ls[l].waits PROVE WaitsGo(ls, [ls EXCEPT ![l] = r], who)
  BY Zenon, <1>3, <1>5 DEF WaitsGo, Waits
<1>6. ASSUME r.pc = "wait" => ~r.stale, Awake(ls) PROVE Awake([ls EXCEPT ![l] = r])
  BY Zenon, <1>3, <1>6 DEF Awake
<1> QED BY Zenon, <1>3, <1>4, <1>5, <1>6

LEMMA BumpedGoes ==
  ASSUME NEW ls \in Seq(LoopType), NEW i
  PROVE  /\ LoopsGo(ls, Bumped(ls, i)) /\ DOMAIN Bumped(ls, i) = DOMAIN ls
         /\ \A who : WaitsGo(ls, Bumped(ls, i), who)
         /\ Awake(ls) => Awake(Bumped(ls, i))
         /\ \A l \in DOMAIN ls : /\ Bumped(ls, i)[l].waits = ls[l].waits
                                 /\ Bumped(ls, i)[l].pc = "ended" => ls[l].pc = "ended"
<1> DEFINE ms == Bumped(ls, i)
<1>1. DOMAIN ls = 1..Len(ls) /\ Len(ls) \in Nat
  BY Zenon, SeqDomain
<1>2. DOMAIN ms = DOMAIN ls
  BY Zenon DEF Bumped
<1>3. ASSUME NEW l \in DOMAIN ls
      PROVE  /\ ms[l] \in LoopType /\ ms[l].pub = ls[l].pub /\ ms[l].waits = ls[l].waits
             /\ ls[l].pc = "ended" <=> ms[l].pc = "ended"
             /\ (ls[l].pc = "wait" => ~ls[l].stale) => (ms[l].pc = "wait" => ~ms[l].stale)
  <2>1. ls[l] \in LoopType
    BY Zenon, <1>1, SeqDomain
  <2>2. CASE ls[l].pub # i \/ ls[l].pc = "ended"
    <3>1. ms[l] = ls[l]
      BY Zenon, <2>2 DEF Bumped
    <3> QED BY Zenon, <2>1, <3>1
  <2>3. CASE ~(ls[l].pub # i \/ ls[l].pc = "ended")
    <3> DEFINE to == CASE ls[l].pc = "wait" -> "closing" [] ls[l].pc = "unconfigured" -> "top"
                       [] OTHER -> ls[l].pc
    <3>1. ms[l] = [ls[l] EXCEPT !.stale = TRUE, !.pc = to]
      BY Zenon, <2>1, <2>3 DEF Bumped, LoopType
    <3>2. to # "wait" /\ to # "ended" /\ to \in {"top", "unconfigured", "dialing", "hello", "periodic",
                              "closing", "backoff"}
      BY Zenon, <2>1, <2>3 DEF LoopType
    <3> HIDE DEF to, ms
    <3> QED BY ZenonT(30), <2>1, <2>3, <3>1, <3>2 DEF LoopType
  <2> QED BY Zenon, <2>2, <2>3
<1>4. ms \in Seq(LoopType)
  <2>1. ms = [l \in 1..Len(ls) |-> ms[l]]
    BY Zenon, <1>1 DEF Bumped
  <2>2. ms \in [1..Len(ls) -> LoopType]
    BY Zenon, <1>1, <1>3, <2>1
  <2> QED BY Zenon, <1>1, <2>2, SeqFunction
<1> HIDE DEF ms
<1>5. LoopsGo(ls, ms)
  BY Zenon, <1>2, <1>3, <1>4 DEF LoopsGo
<1>6. ASSUME NEW who PROVE WaitsGo(ls, ms, who)
  BY Zenon, <1>3 DEF WaitsGo, Waits
<1>7. Awake(ls) => Awake(ms)
  BY Zenon, <1>2, <1>3 DEF Awake
<1> QED BY Zenon, <1>2, <1>3, <1>5, <1>6, <1>7 DEF ms

\* A publisher that has no loop gets a new one, n.
Started(ps, ls, i, n) ==
  /\ PubsGo(ps, pubs') /\ DOMAIN pubs' = DOMAIN ps
  /\ \A j \in DOMAIN ps : pubs'[j].task = IF j = i THEN n ELSE ps[j].task
  /\ LoopsGo(ls, loops') /\ DOMAIN loops' = DOMAIN ls \cup {n} /\ n \notin DOMAIN ls
  /\ loops'[n].pub = i
  /\ \A who : WaitsGo(ls, loops', who)
  /\ Awake(ls) => Awake(loops')

LEMMA StartGoes ==
  ASSUME NEW ps \in Seq(PubType), NEW ls \in Seq(LoopType), NEW i \in DOMAIN ps,
         ps[i].task = None, StartPublisher(ps, ls, i)
  PROVE  Started(ps, ls, i, Len(ls) + 1)
<1> DEFINE n == Len(ls) + 1
           p == [ps[i] EXCEPT !.task = n]
           ms == Bumped(ls, i)
<1>0. /\ DOMAIN ls = 1..Len(ls) /\ Len(ls) \in Nat /\ DOMAIN ps = 1..Len(ps) /\ Len(ps) \in Nat
      /\ ps[i] \in PubType /\ i \in Nat
  BY SeqDomain
<1>1. pubs' = [ps EXCEPT ![i] = p] /\ loops' = Append(ms, NewLoop(i))
  BY Zenon DEF StartPublisher
<1>2. p \in PubType /\ p.config = ps[i].config /\ p.ver = ps[i].ver /\ p.task = n
  <2>1. n \in NatOrNone
    BY <1>0 DEF NatOrNone
  <2> HIDE DEF n
  <2> QED BY Zenon, <1>0, <2>1 DEF PubType
<1> HIDE DEF p
<1>3. /\ PubsGo(ps, pubs') /\ DOMAIN pubs' = DOMAIN ps
      /\ \A j \in DOMAIN ps : pubs'[j] = IF j = i THEN p ELSE ps[j]
  BY Zenon, <1>1, <1>2, SetPub
<1>4. NewLoop(i) \in LoopType
  BY <1>0 DEF NewLoop, LoopType
<1>5. LoopsGo(ls, ms) /\ DOMAIN ms = DOMAIN ls /\ (\A who : WaitsGo(ls, ms, who))
      /\ (Awake(ls) => Awake(ms))
  BY Zenon, BumpedGoes
<1>6. ms \in Seq(LoopType) /\ Len(ms) = Len(ls)
  <2>1. ms \in Seq(LoopType)
    BY Zenon, <1>5 DEF LoopsGo
  <2> QED BY <1>0, <1>5, <2>1, SeqDomain
<1> HIDE DEF ms
<1>7. /\ loops' \in Seq(LoopType) /\ Len(loops') = n
      /\ \A l \in DOMAIN ls : loops'[l] = ms[l]
      /\ loops'[n] = NewLoop(i)
  BY <1>0, <1>1, <1>4, <1>6, SeqAppend
<1>8. DOMAIN loops' = DOMAIN ls \cup {n} /\ n \notin DOMAIN ls
  BY <1>0, <1>7, SeqDomain
<1> HIDE DEF n
<1>9. LoopsGo(ls, loops')
  BY Zenon, <1>5, <1>7, <1>8 DEF LoopsGo
<1>10. ASSUME NEW who PROVE WaitsGo(ls, loops', who)
  <2>1. WaitsGo(ls, ms, who)
    BY Zenon, <1>5
  <2> QED BY <1>7, <2>1 DEF WaitsGo, Waits
<1>11. Awake(ls) => Awake(loops')
  <2>1. loops'[n].pc # "wait"
    BY <1>7 DEF NewLoop
  <2> QED BY Zenon, <1>5, <1>7, <1>8, <2>1 DEF Awake
<1>12. \A j \in DOMAIN ps : pubs'[j].task = IF j = i THEN n ELSE ps[j].task
  BY Zenon, <1>2, <1>3
<1>13. loops'[n].pub = i
  BY <1>7 DEF NewLoop
<1>14. Started(ps, ls, i, n)
  BY Zenon, <1>3, <1>8, <1>9, <1>10, <1>11, <1>12, <1>13 DEF Started
<1> QED BY Zenon, <1>14 DEF n

\* stop up to its await: the loop is cancelled, and who waits for its end.
LEMMA StopGoes ==
  ASSUME TypeOK, NEW i \in DOMAIN pubs, NEW who \in Actors, StopBegins(who, i)
  PROVE  /\ LoopsGo(loops, loops') /\ DOMAIN loops' = DOMAIN loops
         /\ \A b : WaitsGo(loops, loops', b)
         /\ Awaited(i) # None => Awaited(i) \in DOMAIN loops /\ Waits(loops', Awaited(i), who)
         /\ Awaited(i) \in NatOrNone
         /\ Awake(loops) => Awake(loops')
<1> DEFINE l == Awaited(i)
<1>1. CASE l = None
  <2>1. loops' = loops
    BY Zenon, <1>1 DEF StopBegins
  <2> QED BY Zenon, <1>1, <2>1 DEF LoopsGo, WaitsGo, TypeOK, NatOrNone
<1>2. CASE l # None
  <2>1. l = pubs[i].task /\ l \in DOMAIN loops
    BY Zenon, <1>2 DEF Awaited, TypeOK
  <2> DEFINE w == Append(loops[l].waits, who)
             r == [loops[l] EXCEPT !.cancelled = TRUE, !.waits = w]
  <2>2. loops[l] \in LoopType /\ l \in Nat
    BY <2>1, SeqDomain DEF TypeOK
  <2>3. loops[l].waits \in Seq(Actors)
    BY Zenon, <2>2 DEF LoopType
  <2>4. /\ w \in Seq(Actors) /\ DOMAIN loops[l].waits \subseteq DOMAIN w
        /\ \A k \in DOMAIN loops[l].waits : w[k] = loops[l].waits[k]
        /\ \E k \in DOMAIN w : w[k] = who
    <3> DEFINE v == loops[l].waits
    <3>1. v \in Seq(Actors)
      BY Zenon, <2>3
    <3> HIDE DEF v
    <3>2. /\ Append(v, who) \in Seq(Actors) /\ DOMAIN v \subseteq DOMAIN Append(v, who)
          /\ \A k \in DOMAIN v : Append(v, who)[k] = v[k]
          /\ \E k \in DOMAIN Append(v, who) : Append(v, who)[k] = who
      BY <3>1, SeqAppend, SeqDomain
    <3> QED BY Zenon, <3>2 DEF v
  <2>5. loops' = [loops EXCEPT ![l] = r]
    BY Zenon, <1>2, <2>1 DEF StopBegins
  <2> HIDE DEF w
  <2>6. /\ r \in LoopType /\ r.pub = loops[l].pub /\ r.pc = loops[l].pc /\ r.waits = w
        /\ r.stale = loops[l].stale
    BY Zenon, <2>2, <2>4 DEF LoopType
  <2> HIDE DEF r, l
  <2>7. /\ LoopsGo(loops, loops') /\ DOMAIN loops' = DOMAIN loops
        /\ \A m \in DOMAIN loops : loops'[m] = IF m = l THEN r ELSE loops[m]
    BY Zenon, <2>1, <2>5, <2>6, SetLoop DEF TypeOK
  <2>8. ASSUME NEW b PROVE WaitsGo(loops, loops', b)
    BY <2>4, <2>6, <2>7 DEF WaitsGo, Waits
  <2>9. Waits(loops', l, who)
    BY Zenon, <2>1, <2>4, <2>6, <2>7 DEF Waits
  <2>10. Awake(loops) => Awake(loops')
    BY <2>1, <2>6, <2>7 DEF Awake
  <2> QED BY Zenon, <2>1, <2>2, <2>7, <2>8, <2>9, <2>10 DEF l, NatOrNone
<1> QED BY Zenon, <1>1, <1>2

\* stop after its await: who no longer waits.
LEMMA NoLongerGoes ==
  ASSUME TypeOK, NEW l, NEW who \in Actors,
         l # None => l \in DOMAIN loops /\ Waits(loops, l, who) /\ Head(loops[l].waits) = who
  PROVE  /\ LoopsGo(loops, NoLongerWaits(l)) /\ DOMAIN NoLongerWaits(l) = DOMAIN loops
         /\ WaitsGo(loops, NoLongerWaits(l), who)
         /\ Awake(loops) => Awake(NoLongerWaits(l))
<1>1. CASE l = None
  <2>1. NoLongerWaits(l) = loops
    BY Zenon, <1>1 DEF NoLongerWaits
  <2> QED BY Zenon, <2>1 DEF LoopsGo, WaitsGo, TypeOK
<1>2. CASE l # None
  <2> DEFINE w == Tail(loops[l].waits)
             r == [loops[l] EXCEPT !.waits = w]
  <2>1. loops[l] \in LoopType
    BY Zenon, <1>2, SeqDomain DEF TypeOK
  <2>2. loops[l].waits \in Seq(Actors) /\ loops[l].waits # << >>
    BY <1>2, <2>1 DEF LoopType, Waits
  <2>3. w \in Seq(Actors) /\ Len(w) = Len(loops[l].waits) - 1
        /\ \A k \in 1..Len(w) : w[k] = loops[l].waits[k + 1]
    BY <2>2, SeqTail
  <2>4. ASSUME NEW k \in DOMAIN loops[l].waits, loops[l].waits[k] # who
        PROVE  k - 1 \in DOMAIN w /\ w[k - 1] = loops[l].waits[k]
    <3>1. loops[l].waits[1] = who
      BY <1>2, <2>2, SeqTail
    <3>2. k \in 1..Len(loops[l].waits) /\ k # 1 /\ Len(loops[l].waits) \in Nat
      BY Zenon, <2>2, <2>4, <3>1, SeqDomain
    <3>3. k - 1 \in 1..Len(w)
      BY <2>3, <3>2
    <3> QED BY <2>3, <3>2, <3>3, SeqDomain
  <2>5. NoLongerWaits(l) = [loops EXCEPT ![l] = r]
    BY Zenon, <1>2 DEF NoLongerWaits
  <2> HIDE DEF w
  <2>6. /\ r \in LoopType /\ r.pub = loops[l].pub /\ r.pc = loops[l].pc /\ r.waits = w
        /\ r.stale = loops[l].stale
    BY Zenon, <2>1, <2>3 DEF LoopType
  <2> HIDE DEF r
  <2>7. /\ LoopsGo(loops, NoLongerWaits(l)) /\ DOMAIN NoLongerWaits(l) = DOMAIN loops
        /\ \A m \in DOMAIN loops : NoLongerWaits(l)[m] = IF m = l THEN r ELSE loops[m]
    <3>1. l \in DOMAIN loops /\ loops \in Seq(LoopType)
      BY Zenon, <1>2 DEF TypeOK
    <3>2. r.pub = loops[l].pub /\ (loops[l].pc = "ended" => r.pc = "ended")
      BY Zenon, <2>6
    <3>3. /\ LoopsGo(loops, [loops EXCEPT ![l] = r]) /\ DOMAIN [loops EXCEPT ![l] = r] = DOMAIN loops
          /\ \A m \in DOMAIN loops : [loops EXCEPT ![l] = r][m] = IF m = l THEN r ELSE loops[m]
      BY Zenon, <2>6, <3>1, <3>2, SetLoop
    <3> QED BY Zenon, <2>5, <3>3
  <2>8. WaitsGo(loops, NoLongerWaits(l), who)
    BY <2>4, <2>6, <2>7 DEF WaitsGo, Waits
  <2>9. Awake(loops) => Awake(NoLongerWaits(l))
    BY Zenon, <2>6, <2>7 DEF Awake
  <2> QED BY Zenon, <2>7, <2>8, <2>9
<1> QED BY Zenon, <1>1, <1>2

-----------------------------------------------------------------------------
(* The inductive invariant.  x is what a request or handler is doing.          *)

\* x holds the lock of its configuration or waits for it; it acts under the lock.
InLock(x) ==
  x.pc \in {"reload", "read", "restart"} \/ (x.pc = "stopping" /\ x.kind # "delete")
Owns(x) == x.pc = "read" \/ (x.pc = "stopping" /\ x.kind # "delete")

RequestOK(x) ==
  \/ x.pc \in {"write", "reload", "read"} /\ x.kind \in {"edit", "toggle"}
  \/ x.pc = "stopping" /\ x.kind \in {"edit", "toggle", "delete"}
  \/ x.pc = "drop" /\ x.kind = "delete"
HandlerOK(x) ==
  x.pc \in {"publish", "restart", "stopping"} /\ x.kind = "handle" /\ x.pub # None

\* An actor that stops a publisher is among those that await the loop it waits for.
ActorOK(a, x, ps, ls) ==
  \/ x = Idle
  \/ /\ x.config \in Configs
     /\ IF a \in Requests THEN RequestOK(x) ELSE HandlerOK(x)
     /\ x.pc = "write" => x.arg # None
     /\ x.pub # None => x.pub \in DOMAIN ps /\ ps[x.pub].config = x.config
     /\ x.pc = "stopping" =>
          /\ x.pub # None
          /\ x.awaits # None => x.awaits \in DOMAIN ls /\ Waits(ls, x.awaits, a)
ActorsOK == \A a \in Actors : ActorOK(a, act[a], pubs, loops)

\* The queue of a lock holds those that are in it, once each, and first its owner.
QueueOK(c, q, ac) ==
  /\ \A k \in DOMAIN q : InLock(ac[q[k]]) /\ ac[q[k]].config = c
  /\ \A j, k \in DOMAIN q : q[j] = q[k] => j = k
  /\ \A a \in Actors : InLock(ac[a]) /\ ac[a].config = c =>
       /\ \E k \in DOMAIN q : q[k] = a
       /\ Owns(ac[a]) => q[1] = a
LocksOK == \A c \in Configs : QueueOK(c, locks[c], act)

TableOK == \A c \in Configs : table[c] # None => pubs[table[c]].config = c

\* Nothing is in charge of a configuration that goes, and only restarts that will find
\* nothing to do are under way; the owner of the lock knows what is in charge; and
\* what is in charge is what is stored, or a reload will see to it.
Gone(c) ==
  rows[c] = None \/ Deleting(c) =>
    /\ table[c] = None
    /\ \A a \in Actors : InLock(act[a]) /\ act[a].config = c => act[a].pc = "restart"
Serve(c) ==
  \A a \in Actors : Owns(act[a]) /\ act[a].config = c =>
    table[c] = IF a \in Requests THEN None ELSE act[a].pub
Fresh(c) ==
  table[c] # None => \/ Enabled(c) /\ pubs[table[c]].ver = rows[c].ver
                     \/ \E r \in Requests : act[r].pc = "reload" /\ act[r].config = c
Good(c) == Gone(c) /\ Serve(c) /\ Fresh(c)

\* Whoever stops a publisher awaits the only loop of it that may run.
StopOK ==
  \A a \in Actors : act[a].pc = "stopping" /\ act[a].config \notin raced =>
    \A l \in DOMAIN loops : loops[l].pub = act[a].pub /\ Runs(l) => act[a].awaits = l

LoopsOK == StopOK /\ LoopsAccounted

Inv ==
  /\ TypeOK /\ ActorsOK /\ LocksOK /\ TableOK /\ LoopsOK
  /\ \A c \in Configs \ raced : Good(c)

-----------------------------------------------------------------------------
(* Steps of one actor: what the others keep.                                   *)

\* Only a goes on: x is what it does next.
Moves(a, x) ==
  /\ x \in ActType /\ act' \in [Actors -> ActType] /\ act'[a] = x
  /\ \A b \in Actors \ {a} : act'[b] = act[b]

LEMMA Moved ==
  ASSUME TypeOK, NEW a \in Actors, NEW x \in ActType, act' = [act EXCEPT ![a] = x]
  PROVE  Moves(a, x)
BY Zenon DEF Moves, TypeOK

LEMMA IdleType == Idle \in ActType /\ Idle.pc = "idle" /\ Idle.config = None /\ Idle.kind = "none"
BY Zenon DEF Idle, ActType, NatOrNone

LEMMA NoneApart == None \notin Configs /\ None \notin Nat
BY FanoutAssumption DEF Configs

LEMMA ActorKinds == \A a \in Handlers : a \notin Requests
BY Zenon, FanoutAssumption

\* Sequences of publishers and of loops hold what they should.
LEMMA Elements ==
  ASSUME TypeOK
  PROVE  /\ \A i \in DOMAIN pubs : pubs[i] \in PubType /\ i \in Nat
         /\ \A l \in DOMAIN loops : loops[l] \in LoopType /\ l \in Nat
<1>1. /\ pubs \in Seq(PubType) /\ loops \in Seq(LoopType)
  BY Zenon DEF TypeOK
<1>2. DOMAIN pubs = 1..Len(pubs) /\ DOMAIN loops = 1..Len(loops) /\ Len(pubs) \in Nat /\ Len(loops) \in Nat
  BY Zenon, <1>1, SeqDomain
<1>3. DOMAIN pubs \subseteq Nat /\ DOMAIN loops \subseteq Nat
  BY <1>2
<1> QED BY Zenon, <1>1, <1>2, <1>3, SeqDomain

\* Publishers and loops go on, and nobody but a stops to wait.
Step(a) == PubsGo(pubs, pubs') /\ LoopsGo(loops, loops') /\ WaitsGo(loops, loops', a)

LEMMA StepStays ==
  ASSUME TypeOK, NEW a, pubs' = pubs, loops' = loops
  PROVE  Step(a)
BY Zenon DEF Step, PubsGo, LoopsGo, WaitsGo, TypeOK

LEMMA OthersOK ==
  ASSUME TypeOK, ActorsOK, NEW a \in Actors, NEW x, Moves(a, x), Step(a),
         ActorOK(a, x, pubs', loops')
  PROVE  ActorsOK'
<1>1. ASSUME NEW b \in Actors \ {a} PROVE ActorOK(b, act[b], pubs', loops')
  <2>1. ActorOK(b, act[b], pubs, loops)
    BY Zenon DEF ActorsOK
  <2>2. act[b].pub \in DOMAIN pubs =>
          act[b].pub \in DOMAIN pubs' /\ pubs'[act[b].pub].config = pubs[act[b].pub].config
    BY Zenon DEF Step, PubsGo
  <2>3. act[b].awaits \in DOMAIN loops =>
          /\ act[b].awaits \in DOMAIN loops'
          /\ Waits(loops, act[b].awaits, b) => Waits(loops', act[b].awaits, b)
    BY Zenon DEF Step, LoopsGo, WaitsGo
  <2> QED BY Zenon, <2>1, <2>2, <2>3 DEF ActorOK
<1> QED BY Zenon, <1>1 DEF ActorsOK, Moves

\* What is in charge stays in charge of its configuration.
LEMMA TableKept ==
  ASSUME TypeOK, TableOK, NEW a, Step(a),
         \A c \in Configs : table'[c] \in {table[c], None}
  PROVE  TableOK'
<1> SUFFICES ASSUME NEW c \in Configs, table'[c] # None PROVE pubs'[table'[c]].config = c
  BY Zenon DEF TableOK
<1>1. table'[c] = table[c] /\ table[c] \in DOMAIN pubs /\ pubs[table[c]].config = c
  BY Zenon DEF TableOK, TypeOK
<1> QED BY Zenon, <1>1 DEF Step, PubsGo

\* The types, when nothing is made.
LEMMA TypesKept ==
  ASSUME TypeOK, NEW a, NEW x, Moves(a, x), Step(a),
         DOMAIN pubs' = DOMAIN pubs, DOMAIN loops' = DOMAIN loops,
         \A i \in DOMAIN pubs : pubs'[i].task \in {pubs[i].task, None},
         table' \in [Configs -> DOMAIN pubs \cup {None}],
         rows' \in [Configs -> Row \cup {None}],
         locks' \in [Configs -> Seq(Actors)],
         asks' \in Nat, raced' \subseteq Configs
  PROVE  TypeOK'
<1>1. pubs' \in Seq(PubType) /\ loops' \in Seq(LoopType)
  BY Zenon DEF Step, PubsGo, LoopsGo
<1>2. \A l \in DOMAIN loops' : loops'[l].pub \in DOMAIN pubs'
  BY Zenon DEF Step, LoopsGo, TypeOK
<1>3. \A i \in DOMAIN pubs' : pubs'[i].task # None => pubs'[i].task \in DOMAIN loops'
  BY Zenon DEF TypeOK
<1>4. act' \in [Actors -> ActType]
  BY Zenon DEF Moves
<1> QED BY Zenon, <1>1, <1>2, <1>3, <1>4 DEF TypeOK

-----------------------------------------------------------------------------
(* The locks.                                                                  *)

LEMMA Members ==
  ASSUME TypeOK, NEW c \in Configs
  PROVE  locks[c] \in Seq(Actors) /\ \A k \in DOMAIN locks[c] : locks[c][k] \in Actors
<1>1. locks[c] \in Seq(Actors)
  BY Zenon DEF TypeOK
<1> QED BY Zenon, <1>1, SeqDomain

\* An actor goes on where it is, in the lock or out of it.
LEMMA LockStays ==
  ASSUME TypeOK, LocksOK, NEW a \in Actors, NEW x, Moves(a, x), locks' = locks,
         InLock(x) <=> InLock(act[a]), InLock(x) => x.config = act[a].config,
         InLock(x) /\ Owns(x) => locks[x.config][1] = a
  PROVE  LocksOK'
<1> SUFFICES ASSUME NEW c \in Configs PROVE QueueOK(c, locks[c], act')
  BY Zenon DEF LocksOK
<1>1. QueueOK(c, locks[c], act)
  BY Zenon DEF LocksOK
<1>2. \A k \in DOMAIN locks[c] : locks[c][k] \in Actors
  BY Zenon, Members
<1>3. \A b \in Actors : /\ InLock(act'[b]) <=> InLock(act[b])
                        /\ InLock(act[b]) => act'[b].config = act[b].config
                        /\ b # a => act'[b] = act[b]
  BY Zenon DEF Moves
<1>4. \A k \in DOMAIN locks[c] : InLock(act'[locks[c][k]]) /\ act'[locks[c][k]].config = c
  BY Zenon, <1>1, <1>2, <1>3 DEF QueueOK
<1>5. ASSUME NEW b \in Actors, InLock(act'[b]), act'[b].config = c
      PROVE  (\E k \in DOMAIN locks[c] : locks[c][k] = b) /\ (Owns(act'[b]) => locks[c][1] = b)
  <2>1. InLock(act[b]) /\ act[b].config = c
    BY Zenon, <1>3, <1>5
  <2>2. CASE b = a
    BY Zenon, <1>1, <1>5, <2>1, <2>2 DEF QueueOK, Moves
  <2>3. CASE b # a
    BY Zenon, <1>1, <1>3, <1>5, <2>1, <2>3 DEF QueueOK
  <2> QED BY Zenon, <2>2, <2>3
<1> QED BY Zenon, <1>1, <1>4, <1>5 DEF QueueOK

\* The queues of other locks stay as they are.
LEMMA OtherLocks ==
  ASSUME TypeOK, LocksOK, NEW a \in Actors, NEW x, NEW c \in Configs, Moves(a, x),
         InLock(act[a]) => act[a].config = c, InLock(x) => x.config = c,
         NEW d \in Configs, d # c
  PROVE  QueueOK(d, locks[d], act')
<1>1. QueueOK(d, locks[d], act) /\ \A k \in DOMAIN locks[d] : locks[d][k] \in Actors
  BY Zenon, Members DEF LocksOK
<1>2. \A k \in DOMAIN locks[d] : locks[d][k] # a
  BY Zenon, <1>1 DEF QueueOK
<1>3. \A b \in Actors : b # a => act'[b] = act[b]
  BY Zenon DEF Moves
<1>4. \A k \in DOMAIN locks[d] : InLock(act'[locks[d][k]]) /\ act'[locks[d][k]].config = d
  BY Zenon, <1>1, <1>2, <1>3 DEF QueueOK
<1>5. \A b \in Actors : InLock(act'[b]) /\ act'[b].config = d => b # a
  BY Zenon DEF Moves
<1> QED BY Zenon, <1>1, <1>3, <1>4, <1>5 DEF QueueOK

\* An actor asks for the lock and is the last to get it.
LEMMA LockEnters ==
  ASSUME TypeOK, LocksOK, NEW a \in Actors, NEW x, NEW c \in Configs, Moves(a, x),
         ~InLock(act[a]), InLock(x), ~Owns(x), x.config = c, Queued(a, c)
  PROVE  LocksOK' /\ locks' \in [Configs -> Seq(Actors)]
<1> DEFINE q == locks[c]
           p == Append(q, a)
<1>1. /\ locks' = [locks EXCEPT ![c] = p] /\ q \in Seq(Actors)
      /\ locks'[c] = p /\ \A d \in Configs \ {c} : locks'[d] = locks[d]
  BY Zenon DEF Queued, TypeOK
<1>2. QueueOK(c, q, act) /\ \A k \in DOMAIN q : q[k] \in Actors
  BY Zenon, Members DEF LocksOK
<1> HIDE DEF q
<1>0. /\ \A k \in DOMAIN q : InLock(act[q[k]]) /\ act[q[k]].config = c
      /\ \A j, k \in DOMAIN q : q[j] = q[k] => j = k
  BY Zenon, <1>2 DEF QueueOK
<1>3. /\ p \in Seq(Actors) /\ DOMAIN q \subseteq DOMAIN p
      /\ \A k \in DOMAIN q : p[k] = q[k]
      /\ \E n \in DOMAIN p : p[n] = a /\ \A k \in DOMAIN p : k # n => k \in DOMAIN q
      /\ DOMAIN q # {} => 1 \in DOMAIN q
  BY <1>1, SeqAppend, SeqDomain
<1>4. locks' \in [Configs -> Seq(Actors)]
  BY Zenon, <1>1, <1>3 DEF TypeOK
<1> HIDE DEF p
<1>5. PICK n \in DOMAIN p : p[n] = a /\ \A k \in DOMAIN p : k # n => k \in DOMAIN q
  BY Zenon, <1>3
<1>6. (\A b \in Actors : b # a => act'[b] = act[b]) /\ act'[a] = x
  BY Zenon DEF Moves
<1>7. \A k \in DOMAIN q : q[k] # a
  BY Zenon, <1>2 DEF QueueOK
<1>8. QueueOK(c, p, act')
  <2>1. ASSUME NEW k \in DOMAIN p PROVE InLock(act'[p[k]]) /\ act'[p[k]].config = c
    <3>1. CASE k = n
      BY Zenon, <1>5, <1>6, <3>1
    <3>2. CASE k # n
      <4>1. k \in DOMAIN q /\ p[k] = q[k] /\ act'[q[k]] = act[q[k]]
        BY Zenon, <1>2, <1>3, <1>5, <1>6, <1>7, <3>2
      <4> QED BY <1>0, <4>1
    <3> QED BY Zenon, <3>1, <3>2
  <2>2. ASSUME NEW j \in DOMAIN p, NEW k \in DOMAIN p, p[j] = p[k] PROVE j = k
    <3>1. CASE j # n /\ k # n
      BY <1>0, <1>3, <1>5, <2>2, <3>1
    <3>2. CASE j = n \/ k = n
      BY Zenon, <1>3, <1>5, <1>7, <2>2, <3>2
    <3> QED BY Zenon, <3>1, <3>2
  <2>3. ASSUME NEW b \in Actors, InLock(act'[b]), act'[b].config = c
        PROVE  (\E k \in DOMAIN p : p[k] = b) /\ (Owns(act'[b]) => p[1] = b)
    <3>1. CASE b = a
      BY Zenon, <1>5, <1>6, <3>1
    <3>2. CASE b # a
      <4>1. (\E k \in DOMAIN q : q[k] = b) /\ (Owns(act[b]) => q[1] = b)
        BY Zenon, <1>2, <1>6, <2>3, <3>2 DEF QueueOK
      <4>2. p[1] = q[1]
        BY Zenon, <1>3, <4>1
      <4> QED BY Zenon, <1>3, <1>6, <3>2, <4>1, <4>2
    <3> QED BY Zenon, <3>1, <3>2
  <2> QED BY Zenon, <2>1, <2>2, <2>3 DEF QueueOK
<1>9. ASSUME NEW d \in Configs, d # c PROVE QueueOK(d, locks'[d], act')
  BY Zenon, <1>1, <1>9, OtherLocks
<1> QED BY Zenon, <1>1, <1>4, <1>8, <1>9 DEF LocksOK

\* The owner of the lock leaves it to the next.
LEMMA LockLeaves ==
  ASSUME TypeOK, LocksOK, NEW a \in Actors, NEW x, NEW c \in Configs, Moves(a, x),
         InLock(act[a]), act[a].config = c, locks[c][1] = a, ~InLock(x), Released(c)
  PROVE  LocksOK' /\ locks' \in [Configs -> Seq(Actors)]
<1> DEFINE q == locks[c]
           p == Tail(q)
<1>1. /\ locks' = [locks EXCEPT ![c] = p] /\ q \in Seq(Actors)
      /\ locks'[c] = p /\ \A d \in Configs \ {c} : locks'[d] = locks[d]
  BY Zenon DEF Released, TypeOK
<1>2. QueueOK(c, q, act) /\ (\A k \in DOMAIN q : q[k] \in Actors) /\ q[1] = a
  BY Zenon, Members DEF LocksOK
<1> HIDE DEF q
<1>0. /\ \A k \in DOMAIN q : InLock(act[q[k]]) /\ act[q[k]].config = c
      /\ \A j, k \in DOMAIN q : q[j] = q[k] => j = k
  BY Zenon, <1>2 DEF QueueOK
<1>3. q # << >>
  <2>1. \E k \in DOMAIN q : q[k] = a
    BY Zenon, <1>2 DEF QueueOK
  <2> QED BY <1>1, <2>1, SeqDomain
<1>4. /\ p \in Seq(Actors) /\ 1 \in DOMAIN q
      /\ \A k \in DOMAIN p : k + 1 \in DOMAIN q /\ p[k] = q[k + 1] /\ k + 1 # 1
      /\ \A k \in DOMAIN q : k # 1 => k - 1 \in DOMAIN p /\ p[k - 1] = q[k]
      /\ \A j, k \in DOMAIN p : j + 1 = k + 1 => j = k
  BY <1>1, <1>3, SeqTail, SeqDomain
<1>5. locks' \in [Configs -> Seq(Actors)]
  BY Zenon, <1>1, <1>4 DEF TypeOK
<1> HIDE DEF p
<1>6. (\A b \in Actors : b # a => act'[b] = act[b]) /\ act'[a] = x
  BY Zenon DEF Moves
<1>7. \A k \in DOMAIN p : p[k] \in Actors /\ p[k] # a
  BY <1>0, <1>2, <1>4
<1>8. QueueOK(c, p, act')
  <2>1. ASSUME NEW k \in DOMAIN p PROVE InLock(act'[p[k]]) /\ act'[p[k]].config = c
    <3>1. act'[p[k]] = act[q[k + 1]] /\ k + 1 \in DOMAIN q
      BY ZenonT(30), <1>4, <1>6, <1>7
    <3> QED BY <1>0, <3>1
  <2>2. ASSUME NEW j \in DOMAIN p, NEW k \in DOMAIN p, p[j] = p[k] PROVE j = k
    BY <1>0, <1>4, <2>2
  <2>3. ASSUME NEW b \in Actors, InLock(act'[b]), act'[b].config = c
        PROVE  (\E k \in DOMAIN p : p[k] = b) /\ (Owns(act'[b]) => p[1] = b)
    <3>1. b # a
      BY Zenon, <1>6, <2>3
    <3>2. (\E k \in DOMAIN q : q[k] = b) /\ ~Owns(act[b])
      BY Zenon, <1>2, <1>6, <2>3, <3>1 DEF QueueOK
    <3> QED BY <1>2, <1>4, <1>6, <3>1, <3>2
  <2> QED BY Zenon, <2>1, <2>2, <2>3 DEF QueueOK
<1>9. ASSUME NEW d \in Configs, d # c PROVE QueueOK(d, locks'[d], act')
  BY Zenon, <1>1, <1>9, OtherLocks
<1> QED BY Zenon, <1>1, <1>5, <1>8, <1>9 DEF LocksOK

-----------------------------------------------------------------------------
(* Configurations and loops.                                                   *)

\* A step that concerns configuration c leaves the others as they are.
LEMMA OtherConfigs ==
  ASSUME TypeOK, NEW a \in Actors, NEW x, Moves(a, x), Step(a), NEW c,
         act[a].config \in {c, None}, x.config \in {c, None},
         \A d \in Configs : d # c => table'[d] = table[d] /\ rows'[d] = rows[d],
         raced \subseteq raced', \A d \in Configs \ raced : Good(d),
         c \in Configs \ raced' => Good(c)'
  PROVE  \A d \in Configs \ raced' : Good(d)'
<1> SUFFICES ASSUME NEW d \in Configs, d \notin raced', d # c PROVE Good(d)'
  BY Zenon
<1>1. Good(d) /\ d # None /\ table'[d] = table[d] /\ rows'[d] = rows[d]
  BY Zenon, NoneApart
<1>2. \A b \in Actors : /\ act'[b].config = d => act'[b] = act[b]
                        /\ act[b].config = d => act'[b] = act[b]
  BY Zenon, <1>1 DEF Moves
<1>3. Requests \subseteq Actors
  BY Zenon DEF Actors
<1>4. Gone(d)'
  <2>1. Deleting(d)' => Deleting(d)
    BY Zenon, <1>2, <1>3 DEF Deleting
  <2> QED BY Zenon, <1>1, <1>2, <2>1 DEF Good, Gone
<1>5. Serve(d)'
  BY Zenon, <1>1, <1>2 DEF Good, Serve
<1>6. Fresh(d)'
  <2>1. table[d] # None => pubs'[table[d]].ver = pubs[table[d]].ver
    BY Zenon DEF TypeOK, Step, PubsGo
  <2>2. Enabled(d)' = Enabled(d)
    BY Zenon, <1>1 DEF Enabled
  <2>3. (\E r \in Requests : act[r].pc = "reload" /\ act[r].config = d)
          => \E r \in Requests : act'[r].pc = "reload" /\ act'[r].config = d
    BY Zenon, <1>2, <1>3
  <2> QED BY Zenon, <1>1, <2>1, <2>2, <2>3 DEF Good, Fresh
<1> QED BY Zenon, <1>4, <1>5, <1>6 DEF Good

LEMMA StopsPub ==
  ASSUME ActorsOK, NEW a \in Actors, act[a].pc = "stopping"
  PROVE  /\ act[a].config \in Configs /\ act[a].pub # None /\ act[a].pub \in DOMAIN pubs
         /\ pubs[act[a].pub].config = act[a].config
<1>1. ActorOK(a, act[a], pubs, loops) /\ act[a] # Idle
  BY Zenon, IdleType DEF ActorsOK
<1> QED BY Zenon, <1>1 DEF ActorOK

\* No loop that runs is the one a stop awaited that goes on now.
LEMMA StopOver ==
  ASSUME TypeOK, ActorsOK, LoopsOK, NEW a \in Actors, act[a].pc = "stopping",
         MayGoOn(a, act[a].awaits), NEW l \in DOMAIN loops, Runs(l)
  PROVE  /\ act[a].awaits # l
         /\ pubs[loops[l].pub].config \notin raced => loops[l].pub # act[a].pub
<1>1. l # None
  BY Zenon, Elements, NoneApart
<1>2. act[a].awaits # l
  BY Zenon, <1>1 DEF MayGoOn
<1>3. act[a].pub # None /\ pubs[act[a].pub].config = act[a].config
  BY Zenon, StopsPub
<1> QED BY Zenon, <1>2, <1>3 DEF LoopsOK, StopOK

\* When no loop is started, those that run stay accounted for: the step may begin the
\* stop of what is in charge, or be the end of a stop.
LEMMA LoopsKept ==
  ASSUME TypeOK, ActorsOK, LoopsOK, NEW a \in Actors, NEW x, Moves(a, x), Step(a),
         DOMAIN loops' = DOMAIN loops, raced \subseteq raced',
         \A i \in DOMAIN pubs : \/ pubs'[i].task = pubs[i].task
                                \/ act[a].pc = "stopping" /\ i = act[a].pub,
         act[a].pc = "stopping" => MayGoOn(a, act[a].awaits) /\ x.pc # "stopping",
         x.pc = "stopping" => x.awaits = Awaited(x.pub) /\ pubs[x.pub].config = x.config,
         \A c \in Configs \ raced' :
           \/ table'[c] = table[c]
           \/ x.pc = "stopping" /\ table[c] = x.pub
           \/ act[a].pc = "stopping" /\ table[c] = act[a].pub
  PROVE  LoopsOK'
<1>1. \A l \in DOMAIN loops : /\ loops'[l].pub = loops[l].pub /\ loops[l].pub \in DOMAIN pubs
                              /\ Runs(l)' => Runs(l)
                              /\ pubs'[loops[l].pub].config = pubs[loops[l].pub].config
                              /\ pubs[loops[l].pub].config \in Configs
  <2>1. \A l \in DOMAIN loops : /\ loops'[l].pub = loops[l].pub /\ loops[l].pub \in DOMAIN pubs
                                /\ Runs(l)' => Runs(l)
    BY Zenon DEF Step, LoopsGo, Runs, TypeOK
  <2>2. \A i \in DOMAIN pubs : pubs'[i].config = pubs[i].config /\ pubs[i].config \in Configs
    BY Zenon, Elements DEF Step, PubsGo, PubType
  <2> QED BY Zenon, <2>1, <2>2
<1>2. act'[a] = x /\ \A b \in Actors : b # a => act'[b] = act[b]
  BY Zenon DEF Moves
<1>3. ASSUME NEW l \in DOMAIN loops, Runs(l), pubs[loops[l].pub].config \notin raced,
             x.pc = "stopping", x.pub = loops[l].pub
      PROVE  x.awaits = l
  <2>1. l # None
    BY Zenon, Elements, NoneApart
  <2> QED BY Zenon, <1>3, <2>1 DEF LoopsOK, LoopsAccounted, Accounted, Awaited
<1>4. StopOK'
  <2> SUFFICES ASSUME NEW b \in Actors, act'[b].pc = "stopping", act'[b].config \notin raced',
                      NEW l \in DOMAIN loops, loops'[l].pub = act'[b].pub, Runs(l)'
               PROVE  act'[b].awaits = l
    BY Zenon DEF StopOK
  <2>1. CASE b = a
    BY ZenonT(30), <1>1, <1>2, <1>3, <2>1
  <2>2. CASE b # a
    <3>1. /\ act[b].pc = "stopping" /\ act[b].config \notin raced
          /\ loops[l].pub = act[b].pub /\ Runs(l) /\ act'[b].awaits = act[b].awaits
      BY Zenon, <1>1, <1>2, <2>2
    <3> QED BY Zenon, <3>1 DEF LoopsOK, StopOK
  <2> QED BY Zenon, <2>1, <2>2
<1>5. LoopsAccounted'
  <2> SUFFICES ASSUME NEW l \in DOMAIN loops, Runs(l)', pubs'[loops'[l].pub].config \notin raced'
               PROVE  Accounted(l)'
    BY Zenon DEF LoopsAccounted
  <2> DEFINE i == loops[l].pub
             c == pubs[i].config
  <2>1. Runs(l) /\ i \in DOMAIN pubs /\ c \in Configs /\ c \notin raced /\ c \notin raced'
        /\ loops'[l].pub = i /\ pubs'[i].config = c
    BY Zenon, <1>1
  <2>2. pubs[i].task = l /\ (table[c] = i \/ Stopping(l))
    BY Zenon, <2>1 DEF LoopsOK, LoopsAccounted, Accounted
  <2>3. act[a].pc = "stopping" => i # act[a].pub /\ act[a].awaits # l
    BY Zenon, <2>1, StopOver
  <2>4. pubs'[i].task = l
    BY Zenon, <2>1, <2>2, <2>3
  <2>5. Stopping(l) => Stopping(l)'
    BY Zenon, <1>2, <2>3 DEF Stopping
  <2>6. table[c] = i => table'[c] = i \/ Stopping(l)'
    <3>1. x.pc = "stopping" /\ x.pub = i => Stopping(l)'
      BY Zenon, <1>2, <1>3, <2>1 DEF Stopping
    <3> QED BY Zenon, <2>1, <2>3, <3>1
  <2> QED BY Zenon, <2>1, <2>2, <2>4, <2>5, <2>6 DEF Accounted
<1> QED BY Zenon, <1>4, <1>5 DEF LoopsOK

\* A loop is started for the publisher in charge of a configuration, of which no loop
\* runs and that nobody else stops.
LEMMA LoopStarts ==
  ASSUME TypeOK, TypeOK', ActorsOK, LoopsOK, NEW a \in Actors, NEW x, Moves(a, x), Step(a),
         raced' = raced, NEW i \in DOMAIN pubs', NEW n, n \notin DOMAIN loops,
         DOMAIN loops' = DOMAIN loops \cup {n}, loops'[n].pub = i, pubs'[i].task = n,
         \A j \in DOMAIN pubs : j # i => pubs'[j].task = pubs[j].task,
         x.pc # "stopping", act[a].pc = "stopping" => MayGoOn(a, act[a].awaits),
         NEW c \in Configs, pubs'[i].config = c,
         \A d \in Configs : d # c => table'[d] = table[d],
         c \notin raced =>
           /\ table'[c] = i /\ table[c] \in {i, None}
           /\ \A l \in DOMAIN loops : Runs(l) => loops[l].pub # i
           /\ \A b \in Actors : b # a /\ act[b].pc = "stopping" => act[b].pub # i
  PROVE  LoopsOK'
<1>1. \A l \in DOMAIN loops : /\ loops'[l].pub = loops[l].pub /\ loops[l].pub \in DOMAIN pubs
                              /\ Runs(l)' => Runs(l)
                              /\ pubs'[loops[l].pub].config = pubs[loops[l].pub].config
                              /\ pubs[loops[l].pub].config \in Configs
  <2>1. \A l \in DOMAIN loops : /\ loops'[l].pub = loops[l].pub /\ loops[l].pub \in DOMAIN pubs
                                /\ Runs(l)' => Runs(l)
    BY Zenon DEF Step, LoopsGo, Runs, TypeOK
  <2>2. \A j \in DOMAIN pubs : pubs'[j].config = pubs[j].config /\ pubs[j].config \in Configs
    BY Zenon, Elements DEF Step, PubsGo, PubType
  <2> QED BY Zenon, <2>1, <2>2
<1>2. act'[a] = x /\ \A b \in Actors : b # a => act'[b] = act[b]
  BY Zenon DEF Moves
<1>3. StopOK'
  <2> SUFFICES ASSUME NEW b \in Actors, act'[b].pc = "stopping", act'[b].config \notin raced,
                      NEW l \in DOMAIN loops', loops'[l].pub = act'[b].pub, Runs(l)'
               PROVE  act'[b].awaits = l
    BY Zenon DEF StopOK
  <2>1. b # a /\ act'[b] = act[b]
    BY Zenon, <1>2
  <2>2. CASE l \in DOMAIN loops
    <3>1. /\ act[b].pc = "stopping" /\ act[b].config \notin raced
          /\ loops[l].pub = act[b].pub /\ Runs(l) /\ act'[b].awaits = act[b].awaits
      BY Zenon, <1>1, <2>1, <2>2
    <3> QED BY Zenon, <2>2, <3>1 DEF LoopsOK, StopOK
  <2>3. CASE l = n
    <3>1. act[b].pub = i
      BY Zenon, <2>1, <2>3
    <3>2. /\ act[b].config \in Configs /\ act[b].pub \in DOMAIN pubs
          /\ pubs[act[b].pub].config = act[b].config
      BY Zenon, <2>1, StopsPub
    <3>3. act[b].config = c
      BY ZenonT(30), <3>1, <3>2 DEF Step, PubsGo
    <3> QED BY Zenon, <2>1, <3>1, <3>3
  <2> QED BY Zenon, <2>2, <2>3
<1>4. LoopsAccounted'
  <2> SUFFICES ASSUME NEW l \in DOMAIN loops', Runs(l)', pubs'[loops'[l].pub].config \notin raced
               PROVE  Accounted(l)'
    BY Zenon DEF LoopsAccounted
  <2>1. CASE l = n
    BY Zenon, <2>1 DEF Accounted
  <2>2. CASE l \in DOMAIN loops
    <3> DEFINE j == loops[l].pub
               d == pubs[j].config
    <3>1. Runs(l) /\ j \in DOMAIN pubs /\ d \in Configs /\ d \notin raced
          /\ loops'[l].pub = j /\ pubs'[j].config = d
      BY Zenon, <1>1, <2>2
    <3>2. pubs[j].task = l /\ (table[d] = j \/ Stopping(l))
      BY Zenon, <2>2, <3>1 DEF LoopsOK, LoopsAccounted, Accounted
    <3>3. j # i
      BY Zenon, <2>2, <3>1
    <3>4. Stopping(l) => Stopping(l)'
      BY ZenonT(30), <1>2, <2>2, <3>1, StopOver DEF Stopping
    <3>5. j # None
      BY Zenon, <3>1, Elements, NoneApart
    <3>6. table[d] = j => table'[d] = j
      BY Zenon, <3>1, <3>3, <3>5
    <3> QED BY Zenon, <3>1, <3>2, <3>3, <3>4, <3>6 DEF Accounted
  <2> QED BY Zenon, <2>1, <2>2
<1> QED BY Zenon, <1>3, <1>4 DEF LoopsOK

-----------------------------------------------------------------------------
(* The steps of requests and handlers.                                         *)

LEMMA ActorFacts ==
  ASSUME TypeOK, ActorsOK, NEW a \in Actors, act[a].pc # "idle"
  PROVE  /\ act[a] \in ActType /\ act[a].config \in Configs
         /\ ActorOK(a, act[a], pubs, loops) /\ act[a] # Idle
         /\ a \in Requests => RequestOK(act[a])
         /\ a \in Handlers => HandlerOK(act[a]) /\ a \notin Requests
<1>1. ActorOK(a, act[a], pubs, loops) /\ act[a] # Idle /\ act[a] \in ActType
  BY Zenon, IdleType DEF ActorsOK, TypeOK
<1> QED BY Zenon, <1>1, ActorKinds DEF ActorOK

LEMMA IdleFacts ==
  ASSUME ActorsOK, NEW a \in Actors, act[a].pc = "idle"
  PROVE  act[a] = Idle /\ ~InLock(act[a])
<1>1. ~RequestOK(act[a]) /\ ~HandlerOK(act[a])
  BY Zenon DEF RequestOK, HandlerOK
<1>2. act[a] = Idle
  BY Zenon, <1>1 DEF ActorsOK, ActorOK
<1> QED BY Zenon, <1>2, IdleType DEF InLock

LEMMA IdleOut == ~InLock(Idle) /\ ~Owns(Idle) /\ Idle.pc # "stopping" /\ Idle.kind # "delete"
BY Zenon, IdleType DEF InLock, Owns

\* Nobody is in a lock or at a stop: only what is stored may change, for a delete.
LEMMA OutsideStep ==
  ASSUME Inv, NEW a \in Actors, NEW x, Moves(a, x), Step(a), ActorOK(a, x, pubs', loops'),
         DOMAIN pubs' = DOMAIN pubs, DOMAIN loops' = DOMAIN loops,
         \A i \in DOMAIN pubs : pubs'[i].task = pubs[i].task,
         UNCHANGED <<table, locks, raced>>, asks' \in Nat,
         ~InLock(act[a]), ~InLock(x), act[a].pc # "stopping", x.pc # "stopping",
         x.kind # "delete",
         NEW c \in Configs, act[a].config \in {c, None}, x.config \in {c, None},
         \/ rows' = rows
         \/ rows' = [rows EXCEPT ![c] = None] /\ Deleting(c)
  PROVE  Inv'
<1>1. TypeOK /\ ActorsOK /\ LocksOK /\ TableOK /\ LoopsOK /\ \A d \in Configs \ raced : Good(d)
  BY Zenon DEF Inv
<1>2. rows' \in [Configs -> Row \cup {None}] /\ \A d \in Configs : d # c => rows'[d] = rows[d]
  BY Zenon, <1>1 DEF TypeOK
<1>3. TypeOK'
  <2>1. /\ table' \in [Configs -> DOMAIN pubs \cup {None}] /\ locks' \in [Configs -> Seq(Actors)]
        /\ raced' \subseteq Configs
    BY Zenon, <1>1 DEF TypeOK
  <2> QED BY Zenon, <1>1, <1>2, <2>1, TypesKept
<1>4. ActorsOK'
  BY Zenon, <1>1, OthersOK
<1>5. LocksOK'
  BY Zenon, <1>1, LockStays
<1>6. TableOK'
  BY Zenon, <1>1, TableKept
<1>7. LoopsOK'
  BY Zenon, <1>1, LoopsKept
<1>8. ASSUME c \notin raced PROVE Good(c)'
  <2>1. Gone(c) /\ Serve(c) /\ Fresh(c) /\ table' = table
    BY Zenon, <1>1, <1>8 DEF Good
  <2>2. \A b \in Actors : /\ InLock(act'[b]) => act'[b] = act[b]
                          /\ Owns(act'[b]) => act'[b] = act[b]
                          /\ act[b].pc = "reload" => act'[b] = act[b]
                          /\ act'[b].kind = "delete" => act'[b] = act[b]
    BY Zenon DEF Moves, InLock, Owns
  <2>3. Requests \subseteq Actors
    BY Zenon DEF Actors
  <2>4. Deleting(c)' => Deleting(c)
    BY Zenon, <2>2, <2>3 DEF Deleting
  <2>5. rows'[c] = rows[c] \/ Deleting(c)
    BY Zenon
  <2>6. Gone(c)'
    BY Zenon, <2>1, <2>2, <2>4, <2>5 DEF Gone
  <2>7. Serve(c)'
    BY Zenon, <2>1, <2>2 DEF Serve
  <2>8. Fresh(c)'
    <3> SUFFICES ASSUME table[c] # None
                 PROVE  \/ Enabled(c)' /\ pubs'[table[c]].ver = rows'[c].ver
                        \/ \E r \in Requests : act'[r].pc = "reload" /\ act'[r].config = c
      BY Zenon, <2>1 DEF Fresh
    <3>1. rows'[c] = rows[c]
      BY Zenon, <2>1, <2>5 DEF Gone
    <3>2. pubs'[table[c]].ver = pubs[table[c]].ver
      BY Zenon, <1>1 DEF TypeOK, Step, PubsGo
    <3>3. (\E r \in Requests : act[r].pc = "reload" /\ act[r].config = c)
            => \E r \in Requests : act'[r].pc = "reload" /\ act'[r].config = c
      BY Zenon, <2>2, <2>3
    <3> QED BY Zenon, <2>1, <3>1, <3>2, <3>3 DEF Fresh, Enabled
  <2> QED BY Zenon, <2>6, <2>7, <2>8 DEF Good
<1>9. \A d \in Configs \ raced' : Good(d)'
  <2>1. /\ \A d \in Configs : d # c => table'[d] = table[d] /\ rows'[d] = rows[d]
        /\ raced \subseteq raced' /\ (c \in Configs \ raced' => Good(c)')
    BY Zenon, <1>2, <1>8
  <2> QED BY <1>1, <2>1, OtherConfigs
<1> QED BY Zenon, <1>3, <1>4, <1>5, <1>6, <1>7, <1>9 DEF Inv

LEMMA AskUpdateInv ==
  ASSUME Inv, NEW r \in Requests, NEW c \in Configs, NEW kind \in {"edit", "toggle"},
         AskUpdate(r, c, kind)
  PROVE  Inv'
<1> DEFINE new == IF kind = "edit" THEN [enabled |-> None, ver |-> asks + 1]
                  ELSE [rows[c] EXCEPT !.enabled = ~@]
           x == [Idle EXCEPT !.pc = "write", !.kind = kind, !.config = c, !.arg = new]
<1>1. TypeOK /\ ActorsOK /\ r \in Actors
  BY Zenon DEF Inv, Actors
<1>2. act[r] = Idle /\ ~InLock(act[r])
  BY Zenon, <1>1, IdleFacts DEF AskUpdate
<1>3. new \in [enabled : BOOLEAN \cup {None}, ver : Nat] /\ new # None
  <2>1. asks + 1 \in Nat /\ None \notin [enabled : BOOLEAN \cup {None}, ver : Nat]
    BY <1>1, FanoutAssumption DEF TypeOK
  <2>2. rows[c] \in [enabled : BOOLEAN, ver : Nat]
    BY Zenon, <1>1 DEF TypeOK, AskUpdate, Row
  <2>3. CASE kind = "edit"
    <3>1. new = [enabled |-> None, ver |-> asks + 1]
      BY Zenon, <2>3
    <3> QED BY <2>1, <3>1
  <2>4. CASE kind # "edit"
    <3>1. new = [rows[c] EXCEPT !.enabled = ~@]
      BY Zenon, <2>4
    <3> QED BY Zenon, <2>1, <2>2, <3>1
  <2> QED BY Zenon, <2>3, <2>4
<1> HIDE DEF new
<1>4. x \in ActType /\ x.pc = "write" /\ x.kind = kind /\ x.config = c /\ x.arg = new /\ x.pub = None
  BY Zenon, <1>3 DEF ActType, Idle, NatOrNone
<1>5. act' = [act EXCEPT ![r] = x] /\ asks' = asks + 1
  BY Zenon DEF AskUpdate, new
<1>6. UNCHANGED <<pubs, loops, rows, table, locks, raced>>
  BY Zenon DEF AskUpdate
<1> HIDE DEF x
<1>7. Moves(r, x) /\ Step(r)
  BY Zenon, <1>1, <1>4, <1>5, <1>6, Moved, StepStays
<1>8. ActorOK(r, x, pubs', loops') /\ ~InLock(x)
  BY Zenon, <1>3, <1>4 DEF ActorOK, RequestOK, InLock
<1>9. asks' \in Nat
  BY <1>1, <1>5 DEF TypeOK
<1> QED BY Zenon, <1>1, <1>2, <1>4, <1>6, <1>7, <1>8, <1>9, IdleType, OutsideStep

\* An actor is done, and only publishers and loops may have changed.
LEMMA DoneInv ==
  ASSUME Inv, NEW a \in Actors, act[a].pc \in {"write", "publish"}, Done(a), Step(a),
         DOMAIN pubs' = DOMAIN pubs, DOMAIN loops' = DOMAIN loops,
         \A i \in DOMAIN pubs : pubs'[i].task = pubs[i].task,
         UNCHANGED <<rows, table, locks, asks, raced>>
  PROVE  Inv'
<1>1. TypeOK /\ ActorsOK /\ asks' \in Nat
  BY Zenon DEF Inv, TypeOK
<1>2. act[a].config \in Configs /\ ~InLock(act[a]) /\ act[a].pc # "stopping"
  BY Zenon, <1>1, ActorFacts DEF InLock
<1>3. Moves(a, Idle) /\ ActorOK(a, Idle, pubs', loops')
  BY Zenon, <1>1, IdleType, Moved DEF Done, ActorOK
<1> QED BY SMTT(30), <1>1, <1>2, <1>3, IdleType, IdleOut, OutsideStep

LEMMA DispatchInv ==
  ASSUME Inv, NEW h \in Handlers, NEW c \in Configs, Dispatch(h, c)
  PROVE  Inv'
<1> DEFINE i == table[c]
           x == [Idle EXCEPT !.pc = "publish", !.kind = "handle", !.config = c, !.pub = i,
                             !.awaits = pubs[i].client]
<1>1. TypeOK /\ ActorsOK /\ TableOK /\ h \in Actors /\ asks \in Nat
  BY Zenon DEF Inv, Actors, TypeOK
<1>2. act[h] = Idle /\ ~InLock(act[h])
  BY Zenon, <1>1, IdleFacts DEF Dispatch
<1>3. i \in DOMAIN pubs /\ i # None /\ pubs[i].config = c /\ i \in Nat /\ pubs[i].client \in NatOrNone
  BY Zenon, <1>1, Elements DEF Dispatch, TypeOK, TableOK, PubType
<1>4. /\ x \in ActType /\ x.pc = "publish" /\ x.kind = "handle" /\ x.config = c /\ x.pub = i
  BY Zenon, <1>3 DEF ActType, Idle, NatOrNone
<1>5. act' = [act EXCEPT ![h] = x] /\ UNCHANGED <<pubs, loops, rows, table, locks, asks, raced>>
  BY Zenon DEF Dispatch
<1> HIDE DEF x, i
<1>6. Moves(h, x) /\ Step(h)
  BY Zenon, <1>1, <1>4, <1>5, Moved, StepStays
<1>7. ActorOK(h, x, pubs', loops') /\ ~InLock(x)
  BY Zenon, <1>3, <1>4, <1>5, ActorKinds DEF ActorOK, HandlerOK, InLock
<1> QED BY SMTT(30), <1>1, <1>2, <1>4, <1>5, <1>6, <1>7, IdleType, OutsideStep

LEMMA PublishFailsInv ==
  ASSUME Inv, NEW h \in Handlers, PublishFails(h)
  PROVE  Inv'
<1> DEFINE i == act[h].pub
           p == [pubs[i] EXCEPT !.connected = FALSE]
<1>1. TypeOK /\ ActorsOK /\ h \in Actors /\ act[h].pc = "publish"
  BY Zenon DEF Inv, Actors, PublishFails
<1>2. i \in DOMAIN pubs /\ pubs[i] \in PubType /\ pubs \in Seq(PubType) /\ loops \in Seq(LoopType)
  BY Zenon, <1>1, ActorFacts, Elements DEF ActorOK, HandlerOK, TypeOK
<1>3. p \in PubType /\ p.config = pubs[i].config /\ p.ver = pubs[i].ver /\ p.task = pubs[i].task
  BY Zenon, <1>2 DEF PubType
<1>4. pubs' = [pubs EXCEPT ![i] = p] /\ loops' = Bumped(loops, i) /\ Done(h)
      /\ UNCHANGED <<rows, table, locks, asks, raced>>
  BY Zenon DEF PublishFails, PublishFailed
<1> HIDE DEF i, p
<1>5. /\ PubsGo(pubs, pubs') /\ DOMAIN pubs' = DOMAIN pubs
      /\ \A j \in DOMAIN pubs : pubs'[j] = IF j = i THEN p ELSE pubs[j]
  BY Zenon, <1>2, <1>3, <1>4, SetPub
<1>6. LoopsGo(loops, loops') /\ DOMAIN loops' = DOMAIN loops /\ WaitsGo(loops, loops', h)
  BY Zenon, <1>2, <1>4, BumpedGoes
<1>7. \A j \in DOMAIN pubs : pubs'[j].task = pubs[j].task
  BY Zenon, <1>3, <1>5
<1> QED BY Zenon, <1>1, <1>4, <1>5, <1>6, <1>7, DoneInv DEF Step

LEMMA DropRowInv ==
  ASSUME Inv, NEW r \in Requests, DropRow(r)
  PROVE  Inv'
<1> DEFINE c == act[r].config
<1>1. TypeOK /\ ActorsOK /\ r \in Actors /\ act[r].pc = "drop" /\ asks' \in Nat
  BY Zenon DEF Inv, Actors, DropRow, TypeOK
<1>2. /\ c \in Configs /\ act[r].config = c /\ act[r].kind = "delete"
      /\ ~InLock(act[r]) /\ act[r].pc # "stopping"
  BY Zenon, <1>1, ActorFacts DEF InLock, RequestOK
<1>3. rows' = [rows EXCEPT ![c] = None] /\ Deleting(c)
  BY Zenon, <1>2 DEF DropRow, Deleting
<1>4. Moves(r, Idle) /\ ActorOK(r, Idle, pubs', loops')
  BY Zenon, <1>1, IdleType, Moved DEF Done, ActorOK, DropRow
<1>5. Step(r) /\ UNCHANGED <<pubs, loops, table, locks, raced>>
  BY Zenon, <1>1, StepStays DEF DropRow
<1>6. /\ DOMAIN pubs' = DOMAIN pubs /\ DOMAIN loops' = DOMAIN loops
      /\ \A i \in DOMAIN pubs : pubs'[i].task = pubs[i].task
  BY Zenon, <1>5
<1> HIDE DEF c
<1> QED BY Zenon, <1>1, <1>2, <1>3, <1>4, <1>5, <1>6, IdleType, IdleOut, OutsideStep

\* An actor asks for the lock.
LEMMA EnterStep ==
  ASSUME Inv, NEW a \in Actors, NEW c \in Configs, act[a].config = c, NEW label,
         \/ label = "reload" /\ act[a].pc = "write" /\ a \in Requests
         \/ label = "restart" /\ act[a].pc = "publish" /\ a \in Handlers,
         ToPc(a, label), Queued(a, c), UNCHANGED <<pubs, loops, table, asks>>,
         rows' \in [Configs -> Row \cup {None}], \A d \in Configs : d # c => rows'[d] = rows[d],
         raced \subseteq raced', raced' \subseteq Configs,
         c \notin raced' => Good(c)'
  PROVE  Inv'
<1> DEFINE x == [act[a] EXCEPT !.pc = label]
<1>1. TypeOK /\ ActorsOK /\ LocksOK /\ TableOK /\ LoopsOK /\ \A d \in Configs \ raced : Good(d)
  BY Zenon DEF Inv
<1>2. /\ act[a] \in ActType /\ ActorOK(a, act[a], pubs, loops) /\ act[a] # Idle
      /\ a \in Requests => RequestOK(act[a])
      /\ a \in Handlers => HandlerOK(act[a]) /\ a \notin Requests
  BY Zenon, <1>1, ActorFacts
<1>3. /\ x \in ActType /\ x.pc = label /\ x.kind = act[a].kind /\ x.config = c
      /\ x.pub = act[a].pub
  BY Zenon, <1>2 DEF ActType
<1>4. act' = [act EXCEPT ![a] = x]
  BY Zenon DEF ToPc
<1> HIDE DEF x
<1>5. Moves(a, x) /\ Step(a)
  BY Zenon, <1>1, <1>3, <1>4, Moved, StepStays
<1>6. ~InLock(act[a]) /\ InLock(x) /\ ~Owns(x) /\ x.pc # "stopping" /\ act[a].pc # "stopping"
  BY Zenon, <1>3 DEF InLock, Owns
<1>7. LocksOK' /\ locks' \in [Configs -> Seq(Actors)]
  BY Zenon, <1>1, <1>3, <1>5, <1>6, LockEnters
<1>8. ActorOK(a, x, pubs', loops')
  BY Zenon, <1>2, <1>3 DEF ActorOK, RequestOK, HandlerOK
<1>9. ActorsOK'
  BY Zenon, <1>1, <1>5, <1>8, OthersOK
<1>10. TypeOK'
  <2>1. table' \in [Configs -> DOMAIN pubs \cup {None}] /\ asks' \in Nat
    BY Zenon, <1>1 DEF TypeOK
  <2>2. /\ DOMAIN pubs' = DOMAIN pubs /\ DOMAIN loops' = DOMAIN loops
        /\ \A i \in DOMAIN pubs : pubs'[i].task \in {pubs[i].task, None}
    BY Zenon
  <2> QED BY Zenon, <1>1, <1>5, <1>7, <2>1, <2>2, TypesKept
<1>11. TableOK' /\ LoopsOK'
  <2>1. TableOK'
    BY Zenon, <1>1, <1>5, TableKept
  <2>2. DOMAIN loops' = DOMAIN loops /\ \A i \in DOMAIN pubs : pubs'[i].task = pubs[i].task
    BY Zenon
  <2> QED BY Zenon, <1>1, <1>5, <1>6, <2>1, <2>2, LoopsKept
<1>12. \A d \in Configs \ raced' : Good(d)'
  <2>1. /\ \A d \in Configs : d # c => table'[d] = table[d] /\ rows'[d] = rows[d]
        /\ (c \in Configs \ raced' => Good(c)')
    BY Zenon
  <2> QED BY SMTT(30), <1>1, <1>3, <1>5, <2>1, OtherConfigs
<1> QED BY Zenon, <1>7, <1>9, <1>10, <1>11, <1>12 DEF Inv

LEMMA WriteRowInv ==
  ASSUME Inv, NEW r \in Requests, WriteRow(r)
  PROVE  Inv'
<1>0. PICK c : c = act[r].config
  BY Zenon
<1> DEFINE new == act[r].arg
           row == IF new.enabled = None THEN [rows[c] EXCEPT !.ver = new.ver] ELSE new
<1>1. /\ TypeOK /\ ActorsOK /\ r \in Actors /\ act[r].pc = "write" /\ \A d \in Configs \ raced : Good(d)
      /\ UNCHANGED <<pubs, loops, table, asks>>
  BY Zenon DEF Inv, Actors, WriteRow
<1>2. c \in Configs /\ act[r].kind # "delete" /\ act[r] \in ActType /\ new # None
  BY Zenon, <1>0, <1>1, ActorFacts DEF RequestOK, ActorOK
<1>3. CASE rows[c] = None
  <2>1. Done(r) /\ UNCHANGED <<rows, table, locks, asks, raced>>
    BY Zenon, <1>0, <1>1, <1>3 DEF WriteRow
  <2>2. /\ Step(r) /\ DOMAIN pubs' = DOMAIN pubs /\ DOMAIN loops' = DOMAIN loops
        /\ \A i \in DOMAIN pubs : pubs'[i].task = pubs[i].task
    BY Zenon, <1>1, StepStays
  <2> QED BY Zenon, <1>1, <2>1, <2>2, DoneInv
<1>4. CASE rows[c] # None
  <2>1. /\ rows' = [rows EXCEPT ![c] = row] /\ Queued(r, c) /\ ToPc(r, "reload")
        /\ raced' = IF Deleting(c) THEN raced \cup {c} ELSE raced
    BY Zenon, <1>0, <1>4 DEF WriteRow
  <2>2. row \in Row /\ row # None
    <3>1. rows[c] \in Row /\ new \in [enabled : BOOLEAN \cup {None}, ver : Nat]
      BY Zenon, <1>1, <1>2, <1>4 DEF TypeOK, ActType
    <3>2. row \in Row
      BY Zenon, <3>1 DEF Row
    <3>3. None \notin Row
      BY Zenon, FanoutAssumption DEF Row
    <3> QED BY Zenon, <3>2, <3>3
  <2> HIDE DEF row
  <2>3. rows' \in [Configs -> Row \cup {None}] /\ rows'[c] # None /\ \A d \in Configs : d # c => rows'[d] = rows[d]
    BY Zenon, <1>1, <1>2, <2>1, <2>2 DEF TypeOK
  <2>4. raced \subseteq raced' /\ raced' \subseteq Configs /\ (c \notin raced' => c \notin raced /\ ~Deleting(c))
    BY Zenon, <1>1, <1>2, <2>1 DEF TypeOK
  <2>5. ASSUME c \notin raced' PROVE Good(c)'
    <3>1. Good(c) /\ table' = table
      BY Zenon, <1>1, <1>2, <2>4, <2>5
    <3>2. /\ act'[r] = [act[r] EXCEPT !.pc = "reload"]
          /\ \A b \in Actors : b # r => act'[b] = act[b]
      BY Zenon, <1>1, <2>1 DEF ToPc, TypeOK
    <3>3. act'[r].pc = "reload" /\ act'[r].config = c /\ act'[r].kind # "delete" /\ ~Owns(act'[r])
      BY Zenon, <1>0, <1>2, <3>2 DEF ActType, Owns
    <3>4. Requests \subseteq Actors
      BY Zenon DEF Actors
    <3>5. ~Deleting(c)'
      BY Zenon, <2>4, <2>5, <3>2, <3>3, <3>4 DEF Deleting
    <3>6. Gone(c)'
      BY Zenon, <2>3, <3>5 DEF Gone
    <3>7. Serve(c)'
      BY ZenonT(30), <3>1, <3>2, <3>3 DEF Good, Serve
    <3>8. Fresh(c)'
      BY Zenon, <3>3 DEF Fresh
    <3> QED BY Zenon, <3>6, <3>7, <3>8 DEF Good
  <2> QED BY ZenonT(30), <1>0, <1>1, <1>2, <2>1, <2>3, <2>4, <2>5, EnterStep
<1> QED BY Zenon, <1>3, <1>4

LEMMA HandlerTimesOutInv ==
  ASSUME Inv, NEW h \in Handlers, HandlerTimesOut(h)
  PROVE  Inv'
<1>0. PICK c : c = act[h].config
  BY Zenon
<1>1. /\ TypeOK /\ ActorsOK /\ h \in Actors /\ act[h].pc = "publish"
      /\ \A d \in Configs \ raced : Good(d)
      /\ UNCHANGED <<pubs, loops, table, asks, rows, raced>> /\ Queued(h, c) /\ ToPc(h, "restart")
  BY Zenon, <1>0 DEF Inv, Actors, HandlerTimesOut
<1>2. c \in Configs /\ act[h].kind # "delete" /\ act[h] \in ActType
  BY Zenon, <1>0, <1>1, ActorFacts DEF HandlerOK
<1>3. rows' \in [Configs -> Row \cup {None}] /\ raced' \subseteq Configs
  BY Zenon, <1>1 DEF TypeOK
<1>4. ASSUME c \notin raced PROVE Good(c)'
  <2>1. Good(c) /\ table' = table /\ rows' = rows /\ pubs' = pubs
    BY Zenon, <1>1, <1>2, <1>4
  <2>2. /\ act'[h] = [act[h] EXCEPT !.pc = "restart"]
        /\ \A b \in Actors : b # h => act'[b] = act[b]
    BY Zenon, <1>1 DEF ToPc, TypeOK
  <2>3. act'[h].pc = "restart" /\ act'[h].kind # "delete" /\ ~Owns(act'[h])
    BY Zenon, <1>2, <2>2 DEF ActType, Owns
  <2>4. Requests \subseteq Actors /\ \A r \in Requests : act[r].pc = "reload" => r # h
    BY Zenon, <1>1 DEF Actors
  <2>5. Deleting(c)' => Deleting(c)
    BY Zenon, <2>2, <2>3, <2>4 DEF Deleting
  <2>6. Gone(c)'
    BY Zenon, <2>1, <2>2, <2>3, <2>5 DEF Good, Gone
  <2>7. Serve(c)'
    BY Zenon, <2>1, <2>2, <2>3 DEF Good, Serve
  <2>8. Fresh(c)'
    <3>1. (\E r \in Requests : act[r].pc = "reload" /\ act[r].config = c)
            => \E r \in Requests : act'[r].pc = "reload" /\ act'[r].config = c
      BY Zenon, <2>2, <2>4
    <3> QED BY Zenon, <2>1, <3>1 DEF Good, Fresh, Enabled
  <2> QED BY Zenon, <2>6, <2>7, <2>8 DEF Good
<1> QED BY Zenon, <1>0, <1>1, <1>2, <1>3, <1>4, EnterStep

LEMMA HoldsFirst ==
  ASSUME NEW a, Holds(a)
  PROVE  locks[act[a].config][1] = a
BY DEF Holds

\* remove_config: what was in charge is no more, and a awaits its loop if it runs.
LEMMA RemoveGoes ==
  ASSUME Inv, NEW a \in Requests, act[a].pc # "stopping", NEW c \in Configs,
         NEW state \in ActType, state.config = c,
         state.pub # None => state.pub \in DOMAIN pubs /\ pubs[state.pub].config = c,
         NEW label, \/ label = "read" /\ state.kind \in {"edit", "toggle"}
                    \/ label = "drop" /\ state.kind = "delete",
         Remove(a, state, c, label), pubs' = pubs, raced \subseteq raced'
  PROVE  \E x : /\ Moves(a, x) /\ Step(a) /\ ActorOK(a, x, pubs', loops')
                /\ x.pc \in {label, "stopping"} /\ x.kind = state.kind /\ x.config = c
                /\ table' \in [Configs -> DOMAIN pubs \cup {None}] /\ table'[c] = None
                /\ \A d \in Configs : d # c => table'[d] = table[d]
                /\ DOMAIN loops' = DOMAIN loops /\ TableOK' /\ LoopsOK'
<1>0. TypeOK /\ ActorsOK /\ TableOK /\ LoopsOK /\ a \in Actors
  BY Zenon DEF Inv, Actors
<1>1. /\ table' \in [Configs -> DOMAIN pubs \cup {None}] /\ table'[c] = None
      /\ \A d \in Configs : d # c => table'[d] = table[d]
      /\ \A d \in Configs : table'[d] \in {table[d], None}
  BY Zenon, <1>0 DEF Remove, TypeOK
<1>2. CASE table[c] = None
  <2> DEFINE x == [state EXCEPT !.pc = label]
  <2>1. act' = [act EXCEPT ![a] = x] /\ loops' = loops
    BY Zenon, <1>2 DEF Remove
  <2>2. x \in ActType /\ x.pc = label /\ x.kind = state.kind /\ x.config = c /\ x.pub = state.pub
    BY Zenon DEF ActType
  <2> HIDE DEF x
  <2>3. Moves(a, x) /\ Step(a)
    BY Zenon, <1>0, <2>1, <2>2, Moved, StepStays
  <2>4. ActorOK(a, x, pubs', loops')
    BY Zenon, <2>2 DEF ActorOK, RequestOK
  <2>5. \A d \in Configs : table'[d] = table[d]
    BY Zenon, <1>1, <1>2
  <2>6. x.pc # "stopping" /\ DOMAIN loops' = DOMAIN loops /\ \A i \in DOMAIN pubs : pubs'[i].task = pubs[i].task
    BY Zenon, <2>1, <2>2
  <2>7. TableOK' /\ LoopsOK'
    <3>1. TableOK'
      BY Zenon, <1>0, <1>1, <2>3, TableKept
    <3> QED BY Zenon, <1>0, <2>3, <2>5, <2>6, <3>1, LoopsKept
  <2> QED BY Zenon, <1>1, <2>2, <2>3, <2>4, <2>6, <2>7
<1>3. CASE table[c] # None
  <2> DEFINE i == table[c]
             l == Awaited(i)
             x == [state EXCEPT !.pc = "stopping", !.pub = i, !.awaits = l]
  <2>1. act' = [act EXCEPT ![a] = x] /\ StopBegins(a, i)
    BY Zenon, <1>3 DEF Remove
  <2>2. i \in DOMAIN pubs /\ i \in Nat /\ i # None /\ pubs[i].config = c
    BY Zenon, <1>0, <1>3, Elements DEF TypeOK, TableOK
  <2>3. /\ LoopsGo(loops, loops') /\ DOMAIN loops' = DOMAIN loops /\ WaitsGo(loops, loops', a)
        /\ l # None => l \in DOMAIN loops /\ Waits(loops', l, a)
        /\ l \in NatOrNone
    BY Zenon, <1>0, <2>1, <2>2, StopGoes
  <2>4. /\ x \in ActType /\ x.pc = "stopping" /\ x.kind = state.kind /\ x.config = c
        /\ x.pub = i /\ x.awaits = l
    BY Zenon, <2>2, <2>3 DEF ActType, NatOrNone
  <2> HIDE DEF x
  <2>5. Moves(a, x) /\ Step(a)
    <3>1. PubsGo(pubs, pubs')
      BY Zenon, <1>0 DEF PubsGo, TypeOK
    <3> QED BY Zenon, <1>0, <2>1, <2>3, <2>4, <3>1, Moved DEF Step
  <2>6. ActorOK(a, x, pubs', loops')
    BY Zenon, <2>2, <2>3, <2>4 DEF ActorOK, RequestOK
  <2>7. TableOK' /\ LoopsOK'
    <3>1. TableOK'
      BY Zenon, <1>0, <1>1, <2>5, TableKept
    <3>2. \A j \in DOMAIN pubs : pubs'[j].task = pubs[j].task
      BY Zenon
    <3>3. \A d \in Configs : table'[d] = table[d] \/ (x.pc = "stopping" /\ table[d] = x.pub)
      BY Zenon, <1>1, <2>4
    <3>4. x.awaits = Awaited(x.pub) /\ pubs[x.pub].config = x.config
      BY Zenon, <2>2, <2>4
    <3> HIDE DEF i, l
    <3> QED BY Zenon, <1>0, <2>3, <2>5, <3>1, <3>2, <3>3, <3>4, LoopsKept
  <2> QED BY Zenon, <1>1, <2>3, <2>4, <2>5, <2>6, <2>7
<1> QED BY Zenon, <1>2, <1>3

LEMMA ReloadLockedInv ==
  ASSUME Inv, NEW r \in Requests, ReloadLocked(r)
  PROVE  Inv'
<1>0. PICK c : c = act[r].config
  BY Zenon
<1>1. /\ TypeOK /\ ActorsOK /\ LocksOK /\ TableOK /\ LoopsOK /\ r \in Actors
      /\ \A d \in Configs \ raced : Good(d)
      /\ act[r].pc = "reload" /\ Holds(r) /\ Remove(r, act[r], c, "read")
      /\ UNCHANGED <<pubs, rows, locks, asks, raced>>
  BY Zenon, <1>0 DEF Inv, Actors, ReloadLocked
<1>2. /\ act[r] \in ActType /\ c \in Configs /\ act[r].kind \in {"edit", "toggle"}
      /\ act[r].pub # None => act[r].pub \in DOMAIN pubs /\ pubs[act[r].pub].config = c
  BY Zenon, <1>0, <1>1, ActorFacts DEF RequestOK, ActorOK
<1>3. locks[c][1] = r /\ InLock(act[r]) /\ act[r].pc # "stopping"
  BY Zenon, <1>0, <1>1, HoldsFirst DEF InLock
<1>4. PICK x : /\ Moves(r, x) /\ Step(r) /\ ActorOK(r, x, pubs', loops')
               /\ x.pc \in {"read", "stopping"} /\ x.kind = act[r].kind /\ x.config = c
               /\ table' \in [Configs -> DOMAIN pubs \cup {None}] /\ table'[c] = None
               /\ \A d \in Configs : d # c => table'[d] = table[d]
               /\ DOMAIN loops' = DOMAIN loops /\ TableOK' /\ LoopsOK'
  <2>1. pubs' = pubs /\ raced \subseteq raced'
    BY Zenon, <1>1
  <2> QED BY SMTT(30), <1>0, <1>1, <1>2, <1>3, <2>1, RemoveGoes
<1>5. InLock(x) /\ x.kind # "delete"
  BY Zenon, <1>2, <1>4 DEF InLock
<1>6. LocksOK'
  BY Zenon, <1>0, <1>1, <1>3, <1>4, <1>5, LockStays
<1>7. ActorsOK'
  BY Zenon, <1>1, <1>4, OthersOK
<1>8. TypeOK'
  <2>1. /\ rows' \in [Configs -> Row \cup {None}] /\ locks' \in [Configs -> Seq(Actors)]
        /\ asks' \in Nat /\ raced' \subseteq Configs
        /\ DOMAIN pubs' = DOMAIN pubs /\ \A i \in DOMAIN pubs : pubs'[i].task \in {pubs[i].task, None}
    BY Zenon, <1>1 DEF TypeOK
  <2> QED BY Zenon, <1>1, <1>4, <2>1, TypesKept
<1>9. ASSUME c \notin raced PROVE Good(c)'
  <2>1. Good(c) /\ rows' = rows
    BY Zenon, <1>1, <1>2, <1>9
  <2>2. rows[c] # None /\ ~Deleting(c)
    BY Zenon, <1>0, <1>1, <1>3, <2>1 DEF Good, Gone
  <2>3. act'[r] = x /\ \A b \in Actors : b # r => act'[b] = act[b]
    BY Zenon, <1>4 DEF Moves
  <2>4. Gone(c)'
    <3>1. ~Deleting(c)'
      BY Zenon, <1>5, <2>2, <2>3 DEF Deleting, Actors
    <3> QED BY Zenon, <2>1, <2>2, <3>1 DEF Gone
  <2>5. ASSUME NEW b \in Actors, Owns(act'[b]), act'[b].config = c PROVE b = r
    <3>1. b # r => InLock(act[b]) /\ Owns(act[b]) /\ act[b].config = c
      BY Zenon, <2>3, <2>5 DEF Owns, InLock
    <3> QED BY Zenon, <1>1, <1>2, <1>3, <3>1 DEF LocksOK, QueueOK
  <2>6. Serve(c)'
    BY Zenon, <1>4, <2>5 DEF Serve
  <2>7. Fresh(c)'
    BY ZenonT(30), <1>4 DEF Fresh
  <2> QED BY Zenon, <2>4, <2>6, <2>7 DEF Good
<1>10. \A d \in Configs \ raced' : Good(d)'
  <2>1. /\ \A d \in Configs : d # c => table'[d] = table[d] /\ rows'[d] = rows[d]
        /\ raced \subseteq raced' /\ (c \in Configs \ raced' => Good(c)')
    BY Zenon, <1>1, <1>4, <1>9
  <2> QED BY SMTT(30), <1>0, <1>1, <1>4, <2>1, OtherConfigs
<1> QED BY Zenon, <1>4, <1>6, <1>7, <1>8, <1>10 DEF Inv

LEMMA AskDeleteInv ==
  ASSUME Inv, NEW r \in Requests, NEW c \in Configs, AskDelete(r, c)
  PROVE  Inv'
<1> DEFINE state == [Idle EXCEPT !.kind = "delete", !.config = c]
<1>1. /\ TypeOK /\ ActorsOK /\ LocksOK /\ TableOK /\ LoopsOK /\ r \in Actors
      /\ \A d \in Configs \ raced : Good(d)
      /\ act[r].pc = "idle" /\ Remove(r, state, c, "drop") /\ asks' = asks + 1
      /\ raced' = IF locks[c] # << >> THEN raced \cup {c} ELSE raced
      /\ UNCHANGED <<pubs, rows, locks>>
  BY Zenon DEF Inv, Actors, AskDelete
<1>2. act[r] = Idle /\ ~InLock(act[r]) /\ act[r].pc # "stopping"
  BY Zenon, <1>1, IdleFacts
<1>3. state \in ActType /\ state.kind = "delete" /\ state.config = c /\ state.pub = None
  BY Zenon DEF ActType, Idle, NatOrNone
<1>4. pubs' = pubs /\ raced \subseteq raced' /\ raced' \subseteq Configs
  BY Zenon, <1>1 DEF TypeOK
<1> HIDE DEF state
<1>5. PICK x : /\ Moves(r, x) /\ Step(r) /\ ActorOK(r, x, pubs', loops')
               /\ x.pc \in {"drop", "stopping"} /\ x.kind = "delete" /\ x.config = c
               /\ table' \in [Configs -> DOMAIN pubs \cup {None}] /\ table'[c] = None
               /\ \A d \in Configs : d # c => table'[d] = table[d]
               /\ DOMAIN loops' = DOMAIN loops /\ TableOK' /\ LoopsOK'
  BY SMTT(30), <1>1, <1>2, <1>3, <1>4, RemoveGoes
<1>6. ~InLock(x)
  BY Zenon, <1>5 DEF InLock
<1>7. LocksOK'
  BY Zenon, <1>1, <1>2, <1>5, <1>6, LockStays
<1>8. ActorsOK'
  BY Zenon, <1>1, <1>5, OthersOK
<1>9. TypeOK'
  <2>1. asks' \in Nat
    BY <1>1 DEF TypeOK
  <2>2. /\ rows' \in [Configs -> Row \cup {None}] /\ locks' \in [Configs -> Seq(Actors)]
        /\ DOMAIN pubs' = DOMAIN pubs /\ \A i \in DOMAIN pubs : pubs'[i].task \in {pubs[i].task, None}
    BY Zenon, <1>1 DEF TypeOK
  <2> QED BY ZenonT(30), <1>1, <1>4, <1>5, <2>1, <2>2, TypesKept
<1>10. ASSUME c \notin raced' PROVE Good(c)'
  <2>1. locks[c] = << >>
    BY Zenon, <1>1, <1>10
  <2>2. \A k \in DOMAIN locks[c] : FALSE
    BY <2>1
  <2>3. \A b \in Actors : ~(InLock(act[b]) /\ act[b].config = c)
    BY Zenon, <1>1, <2>2 DEF LocksOK, QueueOK
  <2>4. act'[r] = x /\ \A b \in Actors : b # r => act'[b] = act[b]
    BY Zenon, <1>5 DEF Moves
  <2>5. \A b \in Actors : ~(InLock(act'[b]) /\ act'[b].config = c)
    BY Zenon, <1>6, <2>3, <2>4
  <2>6. Gone(c)'
    BY Zenon, <1>5, <2>5 DEF Gone
  <2>7. Serve(c)'
    <3>1. \A b \in Actors : Owns(act'[b]) => InLock(act'[b])
      BY Zenon DEF Owns, InLock
    <3> QED BY Zenon, <2>5, <3>1 DEF Serve
  <2>8. Fresh(c)'
    BY Zenon, <1>5 DEF Fresh
  <2> QED BY Zenon, <2>6, <2>7, <2>8 DEF Good
<1>11. \A d \in Configs \ raced' : Good(d)'
  <2>1. /\ \A d \in Configs : d # c => table'[d] = table[d] /\ rows'[d] = rows[d]
        /\ (c \in Configs \ raced' => Good(c)') /\ act[r].config \in {c, None}
    BY Zenon, <1>1, <1>2, <1>5, <1>10, IdleType
  <2> QED BY SMTT(30), <1>1, <1>4, <1>5, <2>1, OtherConfigs
<1> QED BY Zenon, <1>5, <1>7, <1>8, <1>9, <1>11 DEF Inv

LEMMA PubsGoOn ==
  ASSUME NEW ps, NEW qs, NEW rs, PubsGo(ps, qs), PubsGo(qs, rs)
  PROVE  PubsGo(ps, rs)
BY Zenon DEF PubsGo

\* stop after its await: the publisher has no loop, and a no longer waits.
LEMMA StopEnds ==
  ASSUME TypeOK, ActorsOK, NEW a \in Actors, act[a].pc = "stopping",
         MayGoOn(a, act[a].awaits), NEW i, i = act[a].pub
  PROVE  /\ PubsGo(pubs, Stopped(i)) /\ DOMAIN Stopped(i) = DOMAIN pubs
         /\ \A j \in DOMAIN pubs : Stopped(i)[j].task = IF j = i THEN None ELSE pubs[j].task
         /\ LoopsGo(loops, NoLongerWaits(act[a].awaits))
         /\ DOMAIN NoLongerWaits(act[a].awaits) = DOMAIN loops
         /\ WaitsGo(loops, NoLongerWaits(act[a].awaits), a)
         /\ Awake(loops) => Awake(NoLongerWaits(act[a].awaits))
<1> DEFINE ps == Offline(pubs, i)
           p == [ps[i] EXCEPT !.task = None]
<1>1. i \in DOMAIN pubs /\ pubs \in Seq(PubType)
  BY Zenon, StopsPub DEF TypeOK
<1>2. /\ PubsGo(pubs, ps) /\ DOMAIN ps = DOMAIN pubs
      /\ \A j \in DOMAIN pubs : ps[j].task = pubs[j].task
  BY Zenon, <1>1, OfflineGoes
<1>3. ps \in Seq(PubType)
  BY Zenon, <1>2 DEF PubsGo
<1>4. Stopped(i) = [ps EXCEPT ![i] = p]
  BY Zenon DEF Stopped
<1> HIDE DEF ps
<1>5. ps[i] \in PubType
  BY Zenon, <1>1, <1>2, <1>3, SeqDomain
<1>6. p \in PubType /\ p.config = ps[i].config /\ p.ver = ps[i].ver /\ p.task = None
  BY Zenon, <1>5 DEF PubType, NatOrNone
<1> HIDE DEF p
<1>7. /\ PubsGo(ps, [ps EXCEPT ![i] = p]) /\ DOMAIN [ps EXCEPT ![i] = p] = DOMAIN ps
      /\ \A j \in DOMAIN ps : [ps EXCEPT ![i] = p][j] = IF j = i THEN p ELSE ps[j]
  BY Zenon, <1>1, <1>2, <1>3, <1>6, SetPub
<1>8. PubsGo(pubs, Stopped(i)) /\ DOMAIN Stopped(i) = DOMAIN pubs
  BY Zenon, <1>2, <1>4, <1>7, PubsGoOn
<1>9. \A j \in DOMAIN pubs : Stopped(i)[j].task = IF j = i THEN None ELSE pubs[j].task
  BY Zenon, <1>2, <1>4, <1>6, <1>7
<1>10. act[a].awaits # None => /\ act[a].awaits \in DOMAIN loops /\ Waits(loops, act[a].awaits, a)
                               /\ Head(loops[act[a].awaits].waits) = a
  <2>1. ActorOK(a, act[a], pubs, loops) /\ act[a] # Idle
    BY Zenon, IdleType DEF ActorsOK
  <2> QED BY Zenon, <2>1 DEF ActorOK, MayGoOn
<1>11. /\ LoopsGo(loops, NoLongerWaits(act[a].awaits))
       /\ DOMAIN NoLongerWaits(act[a].awaits) = DOMAIN loops
       /\ WaitsGo(loops, NoLongerWaits(act[a].awaits), a)
       /\ Awake(loops) => Awake(NoLongerWaits(act[a].awaits))
  BY Zenon, <1>10, NoLongerGoes
<1> QED BY Zenon, <1>8, <1>9, <1>11

LEMMA RemoveEndsInv ==
  ASSUME Inv, NEW r \in Requests, RemoveEnds(r)
  PROVE  Inv'
<1>0. PICK c, i, x : /\ c = act[r].config /\ i = act[r].pub
                     /\ x = [act[r] EXCEPT !.pc = IF act[r].kind = "delete" THEN "drop" ELSE "read"]
  BY Zenon
<1>1. /\ TypeOK /\ ActorsOK /\ LocksOK /\ TableOK /\ LoopsOK /\ r \in Actors
      /\ \A d \in Configs \ raced : Good(d)
      /\ act[r].pc = "stopping" /\ MayGoOn(r, act[r].awaits)
      /\ pubs' = Stopped(i) /\ loops' = NoLongerWaits(act[r].awaits)
      /\ rows' = rows /\ table' = table /\ locks' = locks /\ asks' = asks /\ raced' = raced
  BY Zenon, <1>0 DEF Inv, Actors, RemoveEnds
<1>2. act' = [act EXCEPT ![r] = x]
  BY Zenon, <1>0 DEF RemoveEnds, ToPc
<1>3. /\ act[r] \in ActType /\ c \in Configs /\ RequestOK(act[r])
      /\ ActorOK(r, act[r], pubs, loops) /\ act[r] # Idle
  BY Zenon, <1>0, <1>1, ActorFacts
<1>4. /\ x \in ActType /\ x.kind = act[r].kind /\ x.config = c /\ x.pub = i
      /\ x.pc = IF act[r].kind = "delete" THEN "drop" ELSE "read"
  BY Zenon, <1>0, <1>3 DEF ActType
<1>5. /\ PubsGo(pubs, pubs') /\ DOMAIN pubs' = DOMAIN pubs
      /\ \A j \in DOMAIN pubs : pubs'[j].task = IF j = i THEN None ELSE pubs[j].task
      /\ LoopsGo(loops, loops') /\ DOMAIN loops' = DOMAIN loops
      /\ WaitsGo(loops, loops', r)
  BY ZenonT(30), <1>0, <1>1, StopEnds
<1>6. Moves(r, x) /\ Step(r)
  BY Zenon, <1>1, <1>2, <1>4, <1>5, Moved DEF Step
<1>7. /\ i # None /\ i \in DOMAIN pubs /\ pubs[i].config = c /\ act[r].kind \in {"edit", "toggle", "delete"}
  BY Zenon, <1>0, <1>1, <1>3, StopsPub DEF RequestOK
<1>8. ActorOK(r, x, pubs', loops') /\ x.pc # "stopping"
  <2>1. pubs'[i].config = c /\ i \in DOMAIN pubs'
    BY Zenon, <1>5, <1>7 DEF PubsGo
  <2> QED BY Zenon, <1>3, <1>4, <1>7, <2>1 DEF ActorOK, RequestOK
<1>9. (InLock(x) <=> InLock(act[r])) /\ (Owns(x) <=> Owns(act[r])) /\ (Owns(act[r]) <=> InLock(act[r]))
  BY Zenon, <1>1, <1>4 DEF InLock, Owns
<1>10. Owns(act[r]) => locks[c][1] = r
  BY Zenon, <1>0, <1>1, <1>3, <1>9 DEF LocksOK, QueueOK
<1>11. LocksOK'
  BY Zenon, <1>0, <1>1, <1>4, <1>6, <1>9, <1>10, LockStays
<1>12. ActorsOK'
  BY Zenon, <1>1, <1>6, <1>8, OthersOK
<1>13. TypeOK'
  <2>1. /\ rows' \in [Configs -> Row \cup {None}] /\ locks' \in [Configs -> Seq(Actors)]
        /\ table' \in [Configs -> DOMAIN pubs \cup {None}] /\ asks' \in Nat /\ raced' \subseteq Configs
    BY Zenon, <1>1 DEF TypeOK
  <2>2. \A j \in DOMAIN pubs : pubs'[j].task \in {pubs[j].task, None}
    BY Zenon, <1>5
  <2> QED BY Zenon, <1>1, <1>5, <1>6, <2>1, <2>2, TypesKept
<1>14. TableOK' /\ LoopsOK'
  <2>1. \A d \in Configs : table'[d] \in {table[d], None} /\ table'[d] = table[d]
    BY Zenon, <1>1
  <2>2. TableOK'
    BY Zenon, <1>1, <1>6, <2>1, TableKept
  <2>3. \A j \in DOMAIN pubs : pubs'[j].task = pubs[j].task \/ (act[r].pc = "stopping" /\ j = act[r].pub)
    BY Zenon, <1>0, <1>1, <1>5
  <2>4. raced \subseteq raced'
    BY Zenon, <1>1
  <2> QED BY Zenon, <1>1, <1>5, <1>6, <1>8, <2>1, <2>2, <2>3, <2>4, LoopsKept
<1>15. ASSUME c \notin raced PROVE Good(c)'
  <2>1. Gone(c) /\ Serve(c) /\ Fresh(c)
    BY Zenon, <1>1, <1>3, <1>15 DEF Good
  <2>2. act'[r] = x /\ \A b \in Actors : b # r => act'[b] = act[b]
    BY Zenon, <1>6 DEF Moves
  <2>3. \A b \in Actors : /\ act'[b].kind = act[b].kind /\ act'[b].config = act[b].config
                          /\ InLock(act'[b]) <=> InLock(act[b])
                          /\ Owns(act'[b]) <=> Owns(act[b])
                          /\ act'[b].pub = act[b].pub
                          /\ act[b].pc = "restart" => act'[b].pc = "restart"
                          /\ act[b].pc = "reload" => act'[b].pc = "reload"
    BY Zenon, <1>0, <1>1, <1>4, <1>9, <2>2
  <2>4. Requests \subseteq Actors
    BY Zenon DEF Actors
  <2>5. Gone(c)'
    <3>1. Deleting(c)' => Deleting(c)
      BY Zenon, <2>3, <2>4 DEF Deleting
    <3> QED BY Zenon, <1>1, <2>1, <2>3, <3>1 DEF Gone
  <2>6. Serve(c)'
    BY Zenon, <1>1, <2>1, <2>3 DEF Serve
  <2>7. Fresh(c)'
    <3>1. table[c] # None => pubs'[table[c]].ver = pubs[table[c]].ver
      BY Zenon, <1>1, <1>3, <1>5 DEF TypeOK, PubsGo
    <3>2. (\E q \in Requests : act[q].pc = "reload" /\ act[q].config = c)
            => \E q \in Requests : act'[q].pc = "reload" /\ act'[q].config = c
      BY Zenon, <2>3, <2>4
    <3> QED BY Zenon, <1>1, <2>1, <3>1, <3>2 DEF Fresh, Enabled
  <2> QED BY Zenon, <2>5, <2>6, <2>7 DEF Good
<1>16. \A d \in Configs \ raced' : Good(d)'
  <2>1. /\ \A d \in Configs : d # c => table'[d] = table[d] /\ rows'[d] = rows[d]
        /\ raced \subseteq raced' /\ (c \in Configs \ raced' => Good(c)')
    BY Zenon, <1>1, <1>15
  <2>2. act[r].config \in {c, None} /\ x.config \in {c, None} /\ Moves(r, x) /\ Step(r)
    BY Zenon, <1>0, <1>4, <1>6
  <2> QED BY ONLY SMTT(30), <1>1, <2>1, <2>2, OtherConfigs
<1> QED BY Zenon, <1>11, <1>12, <1>13, <1>14, <1>16 DEF Inv

\* The owner of a lock is done: it gives up the lock, and what it leaves in charge is
\* what was, nothing, or what is stored.
LEMMA LeaveStep ==
  ASSUME Inv, NEW a \in Actors, NEW c \in Configs, act[a].config = c, InLock(act[a]),
         act[a].pc # "reload", locks[c][1] = a, Done(a), Released(c), Step(a),
         rows' = rows, raced' = raced,
         locks' \in [Configs -> Seq(Actors)] => TypeOK', TableOK', LoopsOK',
         \A d \in Configs : d # c => table'[d] = table[d],
         c \notin raced /\ act[a].pc = "restart" => table'[c] = table[c],
         c \notin raced /\ table'[c] # None =>
           \/ table'[c] = table[c]
           \/ Enabled(c) /\ pubs'[table'[c]].ver = rows[c].ver
  PROVE  Inv'
<1>1. TypeOK /\ ActorsOK /\ LocksOK /\ \A d \in Configs \ raced : Good(d)
  BY Zenon DEF Inv
<1>2. Moves(a, Idle) /\ ActorOK(a, Idle, pubs', loops')
  BY Zenon, <1>1, IdleType, Moved DEF Done, ActorOK
<1>3. LocksOK' /\ locks' \in [Configs -> Seq(Actors)]
  BY Zenon, <1>1, <1>2, IdleOut, LockLeaves
<1>4. ActorsOK'
  BY Zenon, <1>1, <1>2, OthersOK
<1>5. ASSUME c \notin raced PROVE Good(c)'
  <2>1. Gone(c) /\ Serve(c) /\ Fresh(c)
    BY Zenon, <1>1, <1>5 DEF Good
  <2>2. act'[a] = Idle /\ \A b \in Actors : b # a => act'[b] = act[b]
    BY Zenon, <1>2 DEF Moves
  <2>3. \A b \in Actors : /\ InLock(act'[b]) => act'[b] = act[b]
                          /\ Owns(act'[b]) => act'[b] = act[b] /\ b # a
                          /\ act[b].pc = "reload" => act'[b] = act[b]
                          /\ act'[b].kind = "delete" => act'[b] = act[b]
    BY Zenon, <2>2, IdleOut
  <2>4. Requests \subseteq Actors
    BY Zenon DEF Actors
  <2>5. Gone(c)'
    <3>1. Deleting(c)' => Deleting(c)
      BY Zenon, <2>3, <2>4 DEF Deleting
    <3>2. rows[c] = None \/ Deleting(c) => table'[c] = None
      BY Zenon, <1>5, <2>1 DEF Gone
    <3> QED BY Zenon, <2>1, <2>3, <3>1, <3>2 DEF Gone
  <2>6. ASSUME NEW b \in Actors, Owns(act'[b]), act'[b].config = c PROVE FALSE
    <3>1. b # a /\ Owns(act[b]) /\ InLock(act[b]) /\ act[b].config = c
      BY Zenon, <2>3, <2>6 DEF Owns, InLock
    <3> QED BY Zenon, <1>1, <3>1 DEF LocksOK, QueueOK
  <2>7. Serve(c)'
    BY Zenon, <2>6 DEF Serve
  <2>8. Fresh(c)'
    <3>1. table[c] # None => pubs'[table[c]].ver = pubs[table[c]].ver
      BY Zenon, <1>1 DEF TypeOK, Step, PubsGo
    <3>2. (\E q \in Requests : act[q].pc = "reload" /\ act[q].config = c)
            => \E q \in Requests : act'[q].pc = "reload" /\ act'[q].config = c
      BY ZenonT(30), <2>3, <2>4
    <3> QED BY Zenon, <1>5, <2>1, <3>1, <3>2 DEF Fresh, Enabled
  <2> QED BY Zenon, <2>5, <2>7, <2>8 DEF Good
<1>6. \A d \in Configs \ raced' : Good(d)'
  <2>1. /\ \A d \in Configs : d # c => table'[d] = table[d] /\ rows'[d] = rows[d]
        /\ raced \subseteq raced' /\ (c \in Configs \ raced' => Good(c)')
    BY Zenon, <1>5
  <2> QED BY SMTT(30), <1>1, <1>2, <2>1, IdleType, OtherConfigs
<1> QED BY Zenon, <1>3, <1>4, <1>6 DEF Inv

\* The owner of a lock is its first.
LEMMA OwnerFirst ==
  ASSUME TypeOK, ActorsOK, LocksOK, NEW a \in Actors, Owns(act[a])
  PROVE  /\ act[a].config \in Configs /\ InLock(act[a]) /\ locks[act[a].config][1] = a
         /\ \A b \in Actors : Owns(act[b]) /\ act[b].config = act[a].config => b = a
<1>1. act[a].pc # "idle" /\ \A b \in Actors : Owns(act[b]) => InLock(act[b])
  BY Zenon DEF Owns, InLock
<1>2. act[a].config \in Configs /\ InLock(act[a])
  BY Zenon, <1>1, ActorFacts
<1>3. QueueOK(act[a].config, locks[act[a].config], act)
  BY Zenon, <1>2 DEF LocksOK
<1>4. \A b \in Actors : Owns(act[b]) /\ act[b].config = act[a].config => locks[act[a].config][1] = b
  BY Zenon, <1>1, <1>3 DEF QueueOK
<1> QED BY ZenonT(30), <1>2, <1>4

\* The owner gives up the lock and has changed nothing.
LEMMA LeavesAll ==
  ASSUME Inv, NEW a \in Actors, NEW c \in Configs, act[a].config = c, InLock(act[a]),
         act[a].pc \notin {"reload", "stopping"}, locks[c][1] = a, Done(a), Released(c),
         pubs' = pubs, loops' = loops, rows' = rows, table' = table, asks' = asks, raced' = raced
  PROVE  Inv'
<1>1. TypeOK /\ ActorsOK /\ TableOK /\ LoopsOK
  BY Zenon DEF Inv
<1>2. Moves(a, Idle) /\ Step(a)
  BY Zenon, <1>1, IdleType, Moved, StepStays DEF Done
<1>3. TableOK' /\ \A d \in Configs : table'[d] = table[d]
  BY Zenon, <1>1, <1>2, TableKept
<1>4. /\ DOMAIN pubs' = DOMAIN pubs /\ DOMAIN loops' = DOMAIN loops /\ raced \subseteq raced'
      /\ \A i \in DOMAIN pubs : pubs'[i].task = pubs[i].task /\ pubs'[i].task \in {pubs[i].task, None}
  BY Zenon
<1>5. LoopsOK'
  BY Zenon, <1>1, <1>2, <1>3, <1>4, IdleOut, LoopsKept
<1>6. ASSUME locks' \in [Configs -> Seq(Actors)] PROVE TypeOK'
  <2>1. /\ rows' \in [Configs -> Row \cup {None}] /\ asks' \in Nat /\ raced' \subseteq Configs
        /\ table' \in [Configs -> DOMAIN pubs \cup {None}]
    BY Zenon, <1>1 DEF TypeOK
  <2> QED BY Zenon, <1>1, <1>2, <1>4, <1>6, <2>1, TypesKept
<1> QED BY Zenon, <1>2, <1>3, <1>5, <1>6, LeaveStep

LEMMA ReadLeavesInv ==
  ASSUME Inv, NEW r \in Requests, ReadSkips(r) \/ ReadFails(r)
  PROVE  Inv'
<1>0. PICK c : c = act[r].config
  BY Zenon
<1>1. /\ TypeOK /\ ActorsOK /\ LocksOK /\ r \in Actors /\ act[r].pc = "read"
      /\ Done(r) /\ Released(c)
      /\ pubs' = pubs /\ loops' = loops /\ rows' = rows /\ table' = table /\ asks' = asks
      /\ raced' = raced
  BY Zenon, <1>0 DEF Inv, Actors, ReadSkips, ReadFails
<1>2. c \in Configs /\ InLock(act[r]) /\ locks[c][1] = r
  BY Zenon, <1>0, <1>1, OwnerFirst DEF Owns
<1> QED BY Zenon, <1>0, <1>1, <1>2, LeavesAll

\* _restart_module under the lock: nothing to do any more, or the stop begins.
LEMMA RestartLockedInv ==
  ASSUME Inv, NEW h \in Handlers, RestartLocked(h)
  PROVE  Inv'
<1>0. PICK c, i : c = act[h].config /\ i = act[h].pub
  BY Zenon
<1>1. /\ TypeOK /\ ActorsOK /\ LocksOK /\ TableOK /\ LoopsOK /\ h \in Actors
      /\ \A d \in Configs \ raced : Good(d)
      /\ act[h].pc = "restart" /\ Holds(h)
      /\ pubs' = pubs /\ rows' = rows /\ table' = table /\ asks' = asks /\ raced' = raced
  BY Zenon, <1>0 DEF Inv, Actors, RestartLocked
<1>2. /\ act[h] \in ActType /\ c \in Configs /\ HandlerOK(act[h]) /\ h \notin Requests
      /\ i # None /\ i \in DOMAIN pubs /\ pubs[i].config = c
  BY Zenon, <1>0, <1>1, ActorFacts DEF HandlerOK, ActorOK
<1>3. locks[c][1] = h /\ InLock(act[h])
  BY Zenon, <1>0, <1>1, HoldsFirst DEF InLock
<1>4. CASE table[c] # i
  <2>1. Done(h) /\ Released(c) /\ loops' = loops
    BY Zenon, <1>0, <1>4 DEF RestartLocked
  <2> QED BY Zenon, <1>0, <1>1, <1>2, <1>3, <2>1, LeavesAll
<1>5. CASE table[c] = i
  <2>1. PICK l, x : l = Awaited(i) /\ x = [act[h] EXCEPT !.pc = "stopping", !.awaits = l]
    BY Zenon
  <2>2. act' = [act EXCEPT ![h] = x] /\ StopBegins(h, i) /\ locks' = locks
    BY Zenon, <1>0, <1>5, <2>1 DEF RestartLocked
  <2>3. /\ LoopsGo(loops, loops') /\ DOMAIN loops' = DOMAIN loops /\ WaitsGo(loops, loops', h)
        /\ l # None => l \in DOMAIN loops /\ Waits(loops', l, h)
        /\ l \in NatOrNone
    BY Zenon, <1>1, <1>2, <2>1, <2>2, StopGoes
  <2>4. /\ x \in ActType /\ x.pc = "stopping" /\ x.kind = "handle" /\ x.config = c
        /\ x.pub = i /\ x.awaits = l
    BY Zenon, <1>0, <1>2, <2>1, <2>3 DEF ActType, NatOrNone, HandlerOK
  <2>5. Moves(h, x) /\ Step(h)
    <3>1. PubsGo(pubs, pubs')
      BY Zenon, <1>1 DEF PubsGo, TypeOK
    <3> QED BY Zenon, <1>1, <2>2, <2>3, <2>4, <3>1, Moved DEF Step
  <2>6. ActorOK(h, x, pubs', loops') /\ InLock(x) /\ Owns(x)
    BY Zenon, <1>1, <1>2, <2>3, <2>4 DEF ActorOK, HandlerOK, InLock, Owns
  <2>7. ActorsOK'
    BY Zenon, <1>1, <2>5, <2>6, OthersOK
  <2>8. LocksOK'
    BY Zenon, <1>0, <1>1, <1>3, <2>2, <2>4, <2>5, <2>6, LockStays
  <2>9. TypeOK'
    <3>1. /\ rows' \in [Configs -> Row \cup {None}] /\ locks' \in [Configs -> Seq(Actors)]
          /\ table' \in [Configs -> DOMAIN pubs \cup {None}] /\ asks' \in Nat /\ raced' \subseteq Configs
          /\ DOMAIN pubs' = DOMAIN pubs /\ \A j \in DOMAIN pubs : pubs'[j].task \in {pubs[j].task, None}
      BY Zenon, <1>1, <2>2 DEF TypeOK
    <3> QED BY Zenon, <1>1, <2>3, <2>5, <3>1, TypesKept
  <2>10. TableOK' /\ LoopsOK'
    <3>1. /\ \A d \in Configs : table'[d] \in {table[d], None} /\ table'[d] = table[d]
          /\ \A j \in DOMAIN pubs : pubs'[j].task = pubs[j].task
          /\ raced \subseteq raced'
      BY Zenon, <1>1
    <3>2. TableOK'
      BY Zenon, <1>1, <2>5, <3>1, TableKept
    <3>3. x.awaits = Awaited(x.pub) /\ pubs[x.pub].config = x.config /\ act[h].pc # "stopping"
      BY Zenon, <1>1, <1>2, <2>1, <2>4
    <3> QED BY Zenon, <1>1, <2>3, <2>5, <3>1, <3>2, <3>3, LoopsKept
  <2>11. ASSUME c \notin raced PROVE Good(c)'
    <3>1. Gone(c) /\ Serve(c) /\ Fresh(c)
      BY Zenon, <1>1, <1>2, <2>11 DEF Good
    <3>2. act'[h] = x /\ (\A b \in Actors : b # h => act'[b] = act[b]) /\ Requests \subseteq Actors
      BY Zenon, <2>5 DEF Moves, Actors
    <3>3. \A b \in Requests : act'[b] = act[b]
      BY Zenon, <1>2, <3>2
    <3>4. Gone(c)'
      <4>1. rows[c] # None /\ ~Deleting(c)
        BY Zenon, <1>2, <1>5, <3>1 DEF Gone
      <4>2. ~Deleting(c)'
        BY Zenon, <3>3, <4>1 DEF Deleting
      <4> QED BY Zenon, <1>1, <4>1, <4>2 DEF Gone
    <3>5. ASSUME NEW b \in Actors, Owns(act'[b]), act'[b].config = c PROVE b = h
      <4>1. b # h => InLock(act[b]) /\ Owns(act[b]) /\ act[b].config = c
        BY Zenon, <3>2, <3>5 DEF Owns, InLock
      <4> QED BY Zenon, <1>1, <1>2, <1>3, <4>1 DEF LocksOK, QueueOK
    <3>6. Serve(c)'
      BY Zenon, <1>1, <1>2, <1>5, <2>4, <3>2, <3>5 DEF Serve
    <3>7. Fresh(c)'
      BY Zenon, <1>1, <3>1, <3>3 DEF Fresh, Enabled
    <3> QED BY Zenon, <3>4, <3>6, <3>7 DEF Good
  <2>12. \A d \in Configs \ raced' : Good(d)'
    <3>1. /\ \A d \in Configs : d # c => table'[d] = table[d] /\ rows'[d] = rows[d]
          /\ raced \subseteq raced' /\ (c \in Configs \ raced' => Good(c)')
      BY Zenon, <1>1, <2>11
    <3>2. act[h].config \in {c, None} /\ x.config \in {c, None} /\ Moves(h, x) /\ Step(h)
      BY Zenon, <1>0, <2>4, <2>5
    <3> QED BY ONLY SMTT(30), <1>1, <3>1, <3>2, OtherConfigs
  <2> QED BY Zenon, <2>7, <2>8, <2>9, <2>10, <2>12 DEF Inv
<1> QED BY Zenon, <1>4, <1>5

\* What is known when the stop of a restart is over: what the handler stopped is in
\* charge, no loop of it runs, and nobody else stops it.
LEMMA RestartAlone ==
  ASSUME Inv, NEW h \in Handlers, act[h].pc = "stopping", MayGoOn(h, act[h].awaits),
         NEW c, c = act[h].config, NEW i, i = act[h].pub
  PROVE  /\ h \in Actors /\ h \notin Requests /\ c \in Configs
         /\ i # None /\ i \in DOMAIN pubs /\ pubs[i].config = c
         /\ InLock(act[h]) /\ locks[c][1] = h
         /\ c \notin raced =>
              /\ table[c] = i
              /\ \A l \in DOMAIN loops : Runs(l) => loops[l].pub # i
              /\ \A b \in Actors : b # h /\ act[b].pc = "stopping" => act[b].pub # i
<1>1. /\ TypeOK /\ ActorsOK /\ LocksOK /\ LoopsOK /\ h \in Actors
      /\ \A d \in Configs \ raced : Good(d)
  BY Zenon DEF Inv, Actors
<1>2. /\ HandlerOK(act[h]) /\ h \notin Requests /\ c \in Configs
      /\ i # None /\ i \in DOMAIN pubs /\ pubs[i].config = c
  BY Zenon, <1>1, ActorFacts, StopsPub
<1>3. Owns(act[h])
  BY Zenon, <1>2 DEF HandlerOK, Owns
<1>4. /\ InLock(act[h]) /\ locks[c][1] = h
      /\ \A b \in Actors : Owns(act[b]) /\ act[b].config = c => b = h
  BY Zenon, <1>1, <1>3, OwnerFirst
<1>5. ASSUME c \notin raced
      PROVE  /\ table[c] = i
             /\ \A l \in DOMAIN loops : Runs(l) => loops[l].pub # i
             /\ \A b \in Actors : b # h /\ act[b].pc = "stopping" => act[b].pub # i
  <2>1. Gone(c) /\ Serve(c)
    BY Zenon, <1>1, <1>2, <1>5 DEF Good
  <2>2. table[c] = i
    BY Zenon, <1>1, <1>2, <1>3, <2>1 DEF Serve
  <2>3. \A l \in DOMAIN loops : Runs(l) => loops[l].pub # i
    BY Zenon, <1>1, <1>2, <1>5, StopOver
  <2>4. ~Deleting(c)
    BY Zenon, <1>1, <1>4, <2>1 DEF Gone
  <2>5. ASSUME NEW b \in Actors, b # h, act[b].pc = "stopping", act[b].pub = i PROVE FALSE
    <3>1. act[b].config = c
      BY Zenon, <1>1, <1>2, <2>5, StopsPub
    <3>2. act[b].kind = "delete"
      BY Zenon, <1>4, <2>5, <3>1 DEF Owns
    <3>3. b \in Handlers => act[b].kind = "handle"
      BY Zenon, <1>1, <2>5, ActorFacts DEF HandlerOK
    <3>4. b \in Requests
      BY Zenon, <3>2, <3>3 DEF Actors
    <3> QED BY Zenon, <2>4, <3>1, <3>2, <3>4 DEF Deleting
  <2> QED BY Zenon, <2>2, <2>3, <2>5
<1> QED BY Zenon, <1>1, <1>2, <1>4, <1>5

LEMMA RestartFailsInv ==
  ASSUME Inv, NEW h \in Handlers, RestartFails(h)
  PROVE  Inv'
<1>0. PICK c, i : c = act[h].config /\ i = act[h].pub
  BY Zenon
<1>1. /\ TypeOK /\ ActorsOK /\ TableOK /\ LoopsOK
      /\ act[h].pc = "stopping" /\ MayGoOn(h, act[h].awaits)
      /\ pubs' = Stopped(i) /\ loops' = NoLongerWaits(act[h].awaits)
      /\ table' = [table EXCEPT ![c] = None] /\ Done(h) /\ Released(c)
      /\ rows' = rows /\ asks' = asks /\ raced' = raced
  BY Zenon, <1>0 DEF Inv, RestartFails
<1>2. /\ h \in Actors /\ c \in Configs /\ InLock(act[h]) /\ locks[c][1] = h
      /\ c \notin raced => table[c] = i
  BY SMTT(30), <1>0, <1>1, RestartAlone
<1>3. /\ PubsGo(pubs, pubs') /\ DOMAIN pubs' = DOMAIN pubs
      /\ \A j \in DOMAIN pubs : pubs'[j].task = IF j = i THEN None ELSE pubs[j].task
      /\ LoopsGo(loops, loops') /\ DOMAIN loops' = DOMAIN loops
      /\ WaitsGo(loops, loops', h)
  BY ZenonT(30), <1>0, <1>1, <1>2, StopEnds
<1>4. Moves(h, Idle) /\ Step(h)
  BY Zenon, <1>1, <1>2, <1>3, IdleType, Moved DEF Step, Done
<1>5. /\ table' \in [Configs -> DOMAIN pubs \cup {None}] /\ table'[c] = None
      /\ \A d \in Configs : table'[d] \in {table[d], None} /\ (d # c => table'[d] = table[d])
  BY Zenon, <1>1, <1>2 DEF TypeOK
<1>6. TableOK' /\ LoopsOK'
  <2>1. TableOK'
    BY Zenon, <1>1, <1>4, <1>5, TableKept
  <2>2. /\ raced \subseteq raced'
        /\ \A j \in DOMAIN pubs : pubs'[j].task = pubs[j].task \/ (act[h].pc = "stopping" /\ j = act[h].pub)
    BY Zenon, <1>0, <1>1, <1>3
  <2>3. \A d \in Configs \ raced' : \/ table'[d] = table[d]
                                    \/ act[h].pc = "stopping" /\ table[d] = act[h].pub
    BY Zenon, <1>0, <1>1, <1>2, <1>5
  <2> QED BY Zenon, <1>1, <1>2, <1>3, <1>4, <2>1, <2>2, <2>3, IdleOut, LoopsKept
<1>7. ASSUME locks' \in [Configs -> Seq(Actors)] PROVE TypeOK'
  <2>1. /\ rows' \in [Configs -> Row \cup {None}] /\ asks' \in Nat /\ raced' \subseteq Configs
        /\ \A j \in DOMAIN pubs : pubs'[j].task \in {pubs[j].task, None}
    BY Zenon, <1>1, <1>3 DEF TypeOK
  <2> QED BY ZenonT(30), <1>1, <1>3, <1>4, <1>5, <1>7, <2>1, TypesKept
<1>8. act[h].pc # "reload" /\ act[h].pc # "restart"
  BY Zenon, <1>1
<1> QED BY ZenonT(30), <1>0, <1>1, <1>2, <1>4, <1>5, <1>6, <1>7, <1>8, LeaveStep

\* The types, when a loop is started.
LEMMA TypesStarted ==
  ASSUME TypeOK, NEW a, NEW x, Moves(a, x), Step(a), NEW i \in DOMAIN pubs', NEW n,
         DOMAIN loops' = DOMAIN loops \cup {n}, loops'[n].pub = i,
         \A j \in DOMAIN pubs' : \/ pubs'[j].task \in {n, None}
                                 \/ j \in DOMAIN pubs /\ pubs'[j].task = pubs[j].task,
         table' \in [Configs -> DOMAIN pubs' \cup {None}],
         rows' \in [Configs -> Row \cup {None}],
         locks' \in [Configs -> Seq(Actors)],
         asks' \in Nat, raced' \subseteq Configs
  PROVE  TypeOK'
<1>1. pubs' \in Seq(PubType) /\ loops' \in Seq(LoopType)
  BY Zenon DEF Step, PubsGo, LoopsGo
<1>2. \A l \in DOMAIN loops' : loops'[l].pub \in DOMAIN pubs'
  BY Zenon DEF Step, LoopsGo, PubsGo, TypeOK
<1>3. \A j \in DOMAIN pubs' : pubs'[j].task # None => pubs'[j].task \in DOMAIN loops'
  BY Zenon DEF TypeOK
<1>4. act' \in [Actors -> ActType]
  BY Zenon DEF Moves
<1> QED BY Zenon, <1>1, <1>2, <1>3, <1>4 DEF TypeOK

LEMMA RestartedInv ==
  ASSUME Inv, NEW h \in Handlers, Restarted(h)
  PROVE  Inv'
<1>0. PICK c, i, ps, ls, n : /\ c = act[h].config /\ i = act[h].pub /\ ps = Stopped(i)
                             /\ ls = NoLongerWaits(act[h].awaits) /\ n = Len(ls) + 1
  BY Zenon
<1>1. /\ TypeOK /\ ActorsOK /\ TableOK /\ LoopsOK
      /\ act[h].pc = "stopping" /\ MayGoOn(h, act[h].awaits)
      /\ StartPublisher(ps, ls, i) /\ Done(h) /\ Released(c)
      /\ table' = table /\ rows' = rows /\ asks' = asks /\ raced' = raced
  BY ZenonT(30), <1>0 DEF Inv, Restarted
<1>2. /\ h \in Actors /\ c \in Configs /\ InLock(act[h]) /\ locks[c][1] = h
      /\ i # None /\ i \in DOMAIN pubs /\ pubs[i].config = c
      /\ c \notin raced =>
              /\ table[c] = i
              /\ \A l \in DOMAIN loops : Runs(l) => loops[l].pub # i
              /\ \A b \in Actors : b # h /\ act[b].pc = "stopping" => act[b].pub # i
  BY SMTT(30), <1>0, <1>1, RestartAlone
<1>3. /\ PubsGo(pubs, ps) /\ DOMAIN ps = DOMAIN pubs
      /\ \A j \in DOMAIN pubs : ps[j].task = IF j = i THEN None ELSE pubs[j].task
      /\ LoopsGo(loops, ls) /\ DOMAIN ls = DOMAIN loops
      /\ WaitsGo(loops, ls, h)
  BY Zenon, <1>0, <1>1, <1>2, StopEnds
<1>4. /\ PubsGo(ps, pubs') /\ DOMAIN pubs' = DOMAIN ps
      /\ \A j \in DOMAIN ps : pubs'[j].task = IF j = i THEN n ELSE ps[j].task
      /\ LoopsGo(ls, loops') /\ DOMAIN loops' = DOMAIN ls \cup {n}
      /\ n \notin DOMAIN ls /\ loops'[n].pub = i
      /\ WaitsGo(ls, loops', h)
  <2>1. ps \in Seq(PubType) /\ ls \in Seq(LoopType) /\ i \in DOMAIN ps /\ ps[i].task = None
    BY Zenon, <1>2, <1>3 DEF PubsGo, LoopsGo
  <2>2. Started(ps, ls, i, n)
    BY Zenon, <1>0, <1>1, <2>1, StartGoes
  <2> QED BY Zenon, <2>2 DEF Started
<1>5. Moves(h, Idle) /\ Step(h)
  <2>1. PubsGo(pubs, pubs') /\ LoopsGo(loops, loops')
    BY Zenon, <1>3, <1>4, PubsGoOn, LoopsGoOn
  <2>2. WaitsGo(loops, loops', h)
    BY Zenon, <1>3, <1>4 DEF WaitsGo
  <2> QED BY ZenonT(30), <1>1, <1>2, <2>1, <2>2, IdleType, Moved DEF Step, Done
<1>6. /\ i \in DOMAIN pubs' /\ n \notin DOMAIN loops /\ DOMAIN loops' = DOMAIN loops \cup {n}
      /\ loops'[n].pub = i /\ pubs'[i].task = n /\ pubs'[i].config = c
      /\ \A j \in DOMAIN pubs : j # i => pubs'[j].task = pubs[j].task
      /\ DOMAIN pubs' = DOMAIN pubs
  <2>1. i \in DOMAIN pubs' /\ n \notin DOMAIN loops /\ DOMAIN loops' = DOMAIN loops \cup {n} /\ DOMAIN pubs' = DOMAIN pubs
    BY Zenon, <1>2, <1>3, <1>4
  <2>3. pubs'[i].task = n /\ \A j \in DOMAIN pubs : j # i => pubs'[j].task = pubs[j].task
    BY Zenon, <1>2, <1>3, <1>4
  <2>4. pubs'[i].config = c
    BY Zenon, <1>2, <1>5 DEF Step, PubsGo
  <2> QED BY Zenon, <1>4, <2>1, <2>3, <2>4
<1>7. ASSUME locks' \in [Configs -> Seq(Actors)] PROVE TypeOK'
  <2>1. /\ rows' \in [Configs -> Row \cup {None}] /\ asks' \in Nat /\ raced' \subseteq Configs
        /\ table' \in [Configs -> DOMAIN pubs' \cup {None}]
    BY Zenon, <1>1, <1>6 DEF TypeOK
  <2>2. \A j \in DOMAIN pubs' : \/ pubs'[j].task \in {n, None}
                                \/ j \in DOMAIN pubs /\ pubs'[j].task = pubs[j].task
    BY Zenon, <1>6
  <2> QED BY ZenonT(30), <1>1, <1>5, <1>6, <1>7, <2>1, <2>2, TypesStarted
<1>8. locks' \in [Configs -> Seq(Actors)]
  <2>1. LocksOK
    BY Zenon DEF Inv
  <2> QED BY Zenon, <1>0, <1>1, <1>2, <1>5, <2>1, IdleOut, LockLeaves
<1>9. TableOK' /\ LoopsOK'
  <2>1. \A d \in Configs : table'[d] \in {table[d], None} /\ table'[d] = table[d]
    BY Zenon, <1>1
  <2>2. TableOK'
    BY Zenon, <1>1, <1>5, <2>1, TableKept
  <2>3. /\ c \notin raced =>
           /\ table'[c] = i /\ table[c] \in {i, None}
           /\ \A l \in DOMAIN loops : Runs(l) => loops[l].pub # i
           /\ \A b \in Actors : b # h /\ act[b].pc = "stopping" => act[b].pub # i
    BY Zenon, <1>1, <1>2
  <2>4. TypeOK' /\ raced' = raced
    BY ZenonT(30), <1>1, <1>7, <1>8
  <2>5. LoopsOK'
    BY SMTT(30), <1>1, <1>2, <1>5, <1>6, <2>1, <2>3, <2>4, IdleOut, LoopStarts
  <2> QED BY Zenon, <2>2, <2>5
<1>10. act[h].pc # "reload" /\ act[h].pc # "restart"
  BY Zenon, <1>1
<1> QED BY ZenonT(30), <1>0, <1>1, <1>2, <1>5, <1>7, <1>9, <1>10, LeaveStep

\* A publisher is made: i, the last.
Made(ps, i, c, ver) ==
  /\ PubsGo(pubs, ps) /\ DOMAIN ps = DOMAIN pubs \cup {i} /\ i \notin DOMAIN pubs
  /\ ps[i].task = None /\ ps[i].config = c /\ ps[i].ver = ver
  /\ \A j \in DOMAIN pubs : ps[j].task = pubs[j].task

LEMMA NewPublisher ==
  ASSUME pubs \in Seq(PubType), NEW c \in Configs, NEW ver \in Nat
  PROVE  Made(Append(pubs, Publisher(c, ver)), Len(pubs) + 1, c, ver)
<1>0. PICK ps, i : ps = Append(pubs, Publisher(c, ver)) /\ i = Len(pubs) + 1
  BY Zenon
<1>1. Publisher(c, ver) \in PubType
  BY Zenon DEF Publisher, PubType, NatOrNone
<1>2. /\ ps \in Seq(PubType) /\ Len(ps) = Len(pubs) + 1 /\ ps[Len(pubs) + 1] = Publisher(c, ver)
      /\ \A j \in 1..Len(pubs) : ps[j] = pubs[j]
  BY <1>0, <1>1, SeqAppend
<1>3. DOMAIN pubs = 1..Len(pubs) /\ Len(pubs) \in Nat /\ DOMAIN ps = 1..Len(ps)
  BY Zenon, <1>2, SeqDomain
<1>4. DOMAIN ps = DOMAIN pubs \cup {i} /\ i \notin DOMAIN pubs
  BY <1>0, <1>2, <1>3
<1>5. ps[i] = Publisher(c, ver) /\ \A j \in DOMAIN pubs : ps[j] = pubs[j]
  BY ZenonT(30), <1>0, <1>2, <1>3
<1>6. ps[i].task = None /\ ps[i].config = c /\ ps[i].ver = ver
  BY <1>5 DEF Publisher
<1>7. PubsGo(pubs, ps)
  BY Zenon, <1>2, <1>4, <1>5 DEF PubsGo
<1>8. Made(ps, i, c, ver)
  BY Zenon, <1>4, <1>5, <1>6, <1>7 DEF Made
<1> QED BY Zenon, <1>0, <1>8

LEMMA ReadStartsInv ==
  ASSUME Inv, NEW r \in Requests, ReadStarts(r)
  PROVE  Inv'
<1>0. PICK c, i, ver, ps, n : /\ c = act[r].config /\ i = Len(pubs) + 1 /\ ver = rows[c].ver
                              /\ ps = Append(pubs, Publisher(c, ver)) /\ n = Len(loops) + 1
  BY Zenon
<1>1. /\ TypeOK /\ ActorsOK /\ LocksOK /\ TableOK /\ LoopsOK /\ r \in Actors
      /\ \A d \in Configs \ raced : Good(d)
      /\ act[r].pc = "read" /\ Enabled(c)
      /\ StartPublisher(ps, loops, i) /\ Done(r) /\ Released(c)
      /\ table' = [table EXCEPT ![c] = i] /\ rows' = rows /\ asks' = asks /\ raced' = raced
  BY Zenon, <1>0 DEF Inv, Actors, ReadStarts
<1>2. /\ c \in Configs /\ InLock(act[r]) /\ Owns(act[r]) /\ locks[c][1] = r
  BY Zenon, <1>0, <1>1, OwnerFirst DEF Owns
<1>3. ver \in Nat /\ pubs \in Seq(PubType) /\ loops \in Seq(LoopType)
  BY Zenon, <1>0, <1>1, <1>2 DEF TypeOK, Enabled, Row
<1>4. /\ PubsGo(pubs, ps) /\ DOMAIN ps = DOMAIN pubs \cup {i} /\ i \notin DOMAIN pubs
      /\ ps[i].task = None /\ ps[i].config = c /\ ps[i].ver = ver
      /\ \A j \in DOMAIN pubs : ps[j].task = pubs[j].task
  <2>1. Made(ps, i, c, ver)
    BY Zenon, <1>0, <1>2, <1>3, NewPublisher
  <2> QED BY Zenon, <2>1 DEF Made
<1>5. /\ PubsGo(ps, pubs') /\ DOMAIN pubs' = DOMAIN ps
      /\ \A j \in DOMAIN ps : pubs'[j].task = IF j = i THEN n ELSE ps[j].task
      /\ LoopsGo(loops, loops') /\ DOMAIN loops' = DOMAIN loops \cup {n}
      /\ n \notin DOMAIN loops /\ loops'[n].pub = i
      /\ WaitsGo(loops, loops', r)
  <2>1. ps \in Seq(PubType) /\ i \in DOMAIN ps
    BY Zenon, <1>4 DEF PubsGo
  <2>2. Started(ps, loops, i, n)
    BY Zenon, <1>0, <1>1, <1>3, <1>4, <2>1, StartGoes
  <2> QED BY Zenon, <2>2 DEF Started
<1>6. Moves(r, Idle) /\ Step(r)
  <2>1. PubsGo(pubs, pubs')
    BY Zenon, <1>4, <1>5, PubsGoOn
  <2> QED BY Zenon, <1>1, <1>5, <2>1, IdleType, Moved DEF Step, Done
<1>7. /\ i \in DOMAIN pubs' /\ pubs'[i].task = n /\ pubs'[i].config = c /\ pubs'[i].ver = ver
      /\ \A j \in DOMAIN pubs : j # i => pubs'[j].task = pubs[j].task
      /\ DOMAIN pubs' = DOMAIN pubs \cup {i}
  BY Zenon, <1>4, <1>5 DEF PubsGo
<1>8. /\ table' \in [Configs -> DOMAIN pubs' \cup {None}] /\ table'[c] = i
      /\ \A d \in Configs : d # c => table'[d] = table[d]
  BY ZenonT(30), <1>1, <1>2, <1>7 DEF TypeOK
<1>9. ASSUME locks' \in [Configs -> Seq(Actors)] PROVE TypeOK'
  <2>1. /\ rows' \in [Configs -> Row \cup {None}] /\ asks' \in Nat /\ raced' \subseteq Configs
    BY Zenon, <1>1 DEF TypeOK
  <2>2. \A j \in DOMAIN pubs' : \/ pubs'[j].task \in {n, None}
                                \/ j \in DOMAIN pubs /\ pubs'[j].task = pubs[j].task
    BY Zenon, <1>7
  <2> QED BY ZenonT(30), <1>1, <1>5, <1>6, <1>7, <1>8, <1>9, <2>1, <2>2, TypesStarted
<1>10. locks' \in [Configs -> Seq(Actors)]
  BY ZenonT(30), <1>0, <1>1, <1>2, <1>6, IdleOut, LockLeaves
<1>11. TableOK'
  <2>1. ASSUME NEW d \in Configs, d # c, table'[d] # None PROVE pubs'[table'[d]].config = d
    <3>1. table'[d] = table[d] /\ table[d] \in DOMAIN pubs /\ pubs[table[d]].config = d
      BY ZenonT(30), <1>1, <1>8, <2>1 DEF TableOK, TypeOK
    <3> QED BY Zenon, <1>6, <3>1 DEF Step, PubsGo
  <2> QED BY Zenon, <1>7, <1>8, <2>1 DEF TableOK
<1>12. LoopsOK'
  <2>1. c \notin raced => table[c] = None
    BY Zenon, <1>0, <1>1, <1>2 DEF Good, Serve
  <2>2. \A l \in DOMAIN loops : loops[l].pub # i
    BY Zenon, <1>1, <1>4 DEF TypeOK
  <2>3. \A b \in Actors : act[b].pc = "stopping" => act[b].pub # i
    BY Zenon, <1>1, <1>4, StopsPub
  <2>4. /\ c \notin raced =>
           /\ table'[c] = i /\ table[c] \in {i, None}
           /\ \A l \in DOMAIN loops : Runs(l) => loops[l].pub # i
           /\ \A b \in Actors : b # r /\ act[b].pc = "stopping" => act[b].pub # i
    BY Zenon, <1>8, <2>1, <2>2, <2>3
  <2>5. TypeOK' /\ raced' = raced /\ act[r].pc # "stopping"
    BY Zenon, <1>1, <1>9, <1>10
  <2> QED BY SMTT(30), <1>1, <1>2, <1>5, <1>6, <1>7, <1>8, <2>4, <2>5, IdleOut, LoopStarts
<1>13. act[r].pc # "reload" /\ act[r].pc # "restart" /\ pubs'[table'[c]].ver = rows[c].ver
  BY Zenon, <1>0, <1>1, <1>7, <1>8
<1> QED BY ZenonT(30), <1>0, <1>1, <1>2, <1>6, <1>8, <1>9, <1>11, <1>12, <1>13, LeaveStep

-----------------------------------------------------------------------------
(* The steps of a loop.                                                        *)

\* Publishers keep their task and loops those that wait for them.
PubsFlow(qs) ==
  /\ PubsGo(pubs, qs) /\ DOMAIN qs = DOMAIN pubs
  /\ \A i \in DOMAIN pubs : qs[i].task = pubs[i].task
LoopsFlow(ls, ms) ==
  /\ LoopsGo(ls, ms) /\ DOMAIN ms = DOMAIN ls
  /\ \A l \in DOMAIN ls : ms[l].waits = ls[l].waits
  /\ Awake(ls) => Awake(ms)

LEMMA PubsFlowTo ==
  ASSUME TypeOK, NEW i \in DOMAIN pubs, NEW l \in Nat
  PROVE  /\ PubsFlow(pubs) /\ PubsFlow(Offline(pubs, i))
         /\ PubsFlow([pubs EXCEPT ![i].connected = FALSE])
         /\ PubsFlow([pubs EXCEPT ![i].client = l, ![i].connected = TRUE])
<1>1. pubs \in Seq(PubType) /\ pubs[i] \in PubType
  BY Zenon, Elements DEF TypeOK
<1>2. ASSUME NEW p \in PubType, p.config = pubs[i].config, p.ver = pubs[i].ver,
             p.task = pubs[i].task
      PROVE  PubsFlow([pubs EXCEPT ![i] = p])
  BY Zenon, <1>1, <1>2, SetPub DEF PubsFlow
<1>3. PubsFlow(pubs) /\ PubsFlow(Offline(pubs, i))
  BY Zenon, <1>1, OfflineGoes DEF PubsFlow, PubsGo
<1>4. PubsFlow([pubs EXCEPT ![i].connected = FALSE])
  <2> DEFINE p == [pubs[i] EXCEPT !.connected = FALSE]
  <2>1. p \in PubType /\ p.config = pubs[i].config /\ p.ver = pubs[i].ver /\ p.task = pubs[i].task
    BY Zenon, <1>1 DEF PubType
  <2>2. [pubs EXCEPT ![i].connected = FALSE] = [pubs EXCEPT ![i] = p]
    BY Zenon
  <2> HIDE DEF p
  <2> QED BY Zenon, <1>2, <2>1, <2>2
<1>5. PubsFlow([pubs EXCEPT ![i].client = l, ![i].connected = TRUE])
  <2> DEFINE p == [pubs[i] EXCEPT !.client = l, !.connected = TRUE]
  <2>1. p \in PubType /\ p.config = pubs[i].config /\ p.ver = pubs[i].ver /\ p.task = pubs[i].task
    BY Zenon, <1>1 DEF PubType, NatOrNone
  <2>2. [pubs EXCEPT ![i].client = l, ![i].connected = TRUE] = [pubs EXCEPT ![i] = p]
    BY Zenon
  <2> HIDE DEF p
  <2> QED BY Zenon, <1>2, <2>1, <2>2
<1> QED BY Zenon, <1>3, <1>4, <1>5

LEMMA LoopsFlowSet ==
  ASSUME NEW ls \in Seq(LoopType), NEW l \in DOMAIN ls, NEW x \in LoopType,
         x.pub = ls[l].pub, x.waits = ls[l].waits, ls[l].pc # "ended",
         x.pc = "wait" => ~x.stale
  PROVE  LoopsFlow(ls, [ls EXCEPT ![l] = x])
BY Zenon, SetLoop DEF LoopsFlow

\* A loop comes to another await; it waits only when nothing has changed.
LEMMA LoopsFlowGo ==
  ASSUME NEW ls \in Seq(LoopType), NEW l \in DOMAIN ls, ls[l].pc # "ended",
         NEW label \in {"top", "unconfigured", "dialing", "hello", "wait", "periodic",
                        "closing", "backoff"},
         label = "wait" => ~ls[l].stale
  PROVE  LoopsFlow(ls, [ls EXCEPT ![l].pc = label])
<1> DEFINE x == [ls[l] EXCEPT !.pc = label]
<1>1. ls[l] \in LoopType
  BY Zenon, SeqDomain
<1>2. /\ x \in LoopType /\ x.pub = ls[l].pub /\ x.waits = ls[l].waits /\ x.pc = label
      /\ x.stale = ls[l].stale
  BY Zenon, <1>1 DEF LoopType
<1>3. [ls EXCEPT ![l].pc = label] = [ls EXCEPT ![l] = x]
  BY Zenon
<1> HIDE DEF x
<1> QED BY Zenon, <1>2, <1>3, LoopsFlowSet

LEMMA LoopsFlowOn ==
  ASSUME NEW ls, NEW ms, NEW ns, LoopsFlow(ls, ms), LoopsFlow(ms, ns)
  PROVE  LoopsFlow(ls, ns)
BY Zenon, LoopsGoOn DEF LoopsFlow

LEMMA StatusOutFlows ==
  ASSUME TypeOK, NEW l \in DOMAIN loops, Runs(l), NEW expired, StatusOut(l, expired)
  PROVE  PubsFlow(pubs') /\ LoopsFlow(loops, loops')
<1>0. PICK i, fails, next : /\ i = loops[l].pub /\ fails = StatusFails(i)
                            /\ next = IF fails \/ loops[l].stale \/ expired THEN "closing" ELSE "wait"
  BY Zenon
<1>1. /\ pubs' = IF fails THEN [pubs EXCEPT ![i].connected = FALSE] ELSE pubs
      /\ loops' = [(IF fails THEN Bumped(loops, i) ELSE loops) EXCEPT ![l].pc = next]
  BY Zenon, <1>0 DEF StatusOut
<1>2. /\ loops \in Seq(LoopType) /\ loops[l].pc # "ended" /\ i \in DOMAIN pubs /\ l \in Nat
  BY Zenon, <1>0, Elements DEF TypeOK, Runs
<1>3. PubsFlow(pubs')
  BY Zenon, <1>1, <1>2, PubsFlowTo
<1>4. CASE ~fails
  <2>1. loops' = [loops EXCEPT ![l].pc = next] /\ next \in {"closing", "wait"}
        /\ (next = "wait" => ~loops[l].stale)
    BY Zenon, <1>0, <1>1, <1>4
  <2> QED BY Zenon, <1>2, <1>3, <2>1, LoopsFlowGo
<1>5. CASE fails
  <2>0. PICK ms : ms = Bumped(loops, i)
    BY Zenon
  <2>1. loops' = [ms EXCEPT ![l].pc = next] /\ next = "closing"
    BY Zenon, <1>0, <1>1, <1>5, <2>0
  <2>2. LoopsFlow(loops, ms) /\ ms[l].pc # "ended"
    BY Zenon, <1>2, <2>0, BumpedGoes DEF LoopsFlow
  <2>3. ms \in Seq(LoopType) /\ l \in DOMAIN ms
    BY Zenon, <2>2 DEF LoopsFlow, LoopsGo
  <2>4. LoopsFlow(ms, loops')
    BY Zenon, <2>1, <2>2, <2>3, LoopsFlowGo
  <2> QED BY Zenon, <1>3, <2>2, <2>4, LoopsFlowOn
<1> QED BY Zenon, <1>4, <1>5

LEMMA LoopFlows ==
  ASSUME TypeOK, NEW l \in DOMAIN loops, Loop(l)
  PROVE  PubsFlow(pubs') /\ LoopsFlow(loops, loops')
<1>0. PICK i : i = loops[l].pub
  BY Zenon
<1>1. /\ loops \in Seq(LoopType) /\ loops[l] \in LoopType /\ i \in DOMAIN pubs /\ l \in Nat
  BY Zenon, <1>0, Elements DEF TypeOK
<1>2. /\ PubsFlow(pubs) /\ PubsFlow(Offline(pubs, i))
      /\ PubsFlow([pubs EXCEPT ![i].client = l, ![i].connected = TRUE])
  BY Zenon, <1>1, PubsFlowTo
<1>3. ASSUME loops[l].pc # "ended",
             NEW label \in {"top", "unconfigured", "dialing", "hello", "periodic", "closing", "backoff"},
             Go(l, label)
      PROVE  LoopsFlow(loops, loops')
  <2>1. loops' = [loops EXCEPT ![l].pc = label]
    BY Zenon, <1>3 DEF Go
  <2> QED BY Zenon, <1>1, <1>3, <2>1, LoopsFlowGo
<1>4. CASE LoopTop(l) /\ keys
  <2> DEFINE x == [loops[l] EXCEPT !.pc = "dialing", !.stale = FALSE]
  <2>1. /\ x \in LoopType /\ x.pub = loops[l].pub /\ x.waits = loops[l].waits /\ x.pc = "dialing"
    BY Zenon, <1>1 DEF LoopType
  <2>2. pubs' = pubs /\ loops' = [loops EXCEPT ![l] = x] /\ loops[l].pc # "ended"
    BY Zenon, <1>4 DEF LoopTop, At, Runs
  <2> HIDE DEF x
  <2>3. LoopsFlow(loops, [loops EXCEPT ![l] = x])
    BY Zenon, <1>1, <2>1, <2>2, LoopsFlowSet
  <2> QED BY Zenon, <1>2, <2>2, <2>3
<1>5. CASE LoopTop(l) /\ ~keys
  BY Zenon, <1>0, <1>2, <1>3, <1>5 DEF LoopTop, At, Runs
<1>6. CASE LoopLooksAgain(l)
  BY Zenon, <1>2, <1>3, <1>6 DEF LoopLooksAgain, At, Runs
<1>7. CASE DialOk(l)
  BY ZenonT(30), <1>0, <1>2, <1>3, <1>7 DEF DialOk, At, Runs
<1>8. CASE DialFails(l)
  BY ZenonT(30), <1>0, <1>2, <1>3, <1>8 DEF DialFails, At, Runs
<1>9. CASE LoopBackedOff(l)
  BY Zenon, <1>2, <1>3, <1>9 DEF LoopBackedOff, At, Runs
<1>10. CASE Hello(l)
  BY Zenon, <1>10, StatusOutFlows DEF Hello, At
<1>11. CASE PeriodicWake(l)
  BY ZenonT(30), <1>2, <1>3, <1>11 DEF PeriodicWake, At, Runs
<1>12. ASSUME NEW expired \in BOOLEAN, PeriodicEnds(l, expired)
       PROVE  PubsFlow(pubs') /\ LoopsFlow(loops, loops')
  BY Zenon, <1>12, StatusOutFlows DEF PeriodicEnds, At
<1>13. ASSUME NEW raises \in BOOLEAN, LoopCloses(l, raises)
       PROVE  PubsFlow(pubs') /\ LoopsFlow(loops, loops')
  <2>1. /\ pubs' = Offline(pubs, i) /\ (Go(l, "backoff") \/ Go(l, "top")) /\ loops[l].pc # "ended"
    BY Zenon, <1>0, <1>13 DEF LoopCloses, At, Runs
  <2> QED BY ZenonT(30), <1>2, <1>3, <2>1
<1>14. CASE LoopCancelled(l)
  <2> DEFINE x == [NewLoop(loops[l].pub) EXCEPT !.pc = "ended", !.waits = loops[l].waits]
  <2>1. loops[l].pub \in Nat /\ loops[l].waits \in Seq(Actors) /\ << >> \in Seq(Actors)
    BY <1>1 DEF LoopType
  <2>2. NewLoop(loops[l].pub) \in LoopType /\ NewLoop(loops[l].pub).pub = loops[l].pub
    BY Zenon, <2>1 DEF LoopType, NewLoop
  <2>3. /\ x \in LoopType /\ x.pub = loops[l].pub /\ x.waits = loops[l].waits /\ x.pc = "ended"
    BY ZenonT(30), <2>1, <2>2 DEF LoopType
  <2>4. loops' = [loops EXCEPT ![l] = x] /\ loops[l].pc # "ended" /\ pubs' \in {pubs, Offline(pubs, i)}
    BY ZenonT(30), <1>0, <1>14 DEF LoopCancelled, Runs
  <2> HIDE DEF x
  <2>5. LoopsFlow(loops, [loops EXCEPT ![l] = x])
    BY ZenonT(30), <1>1, <2>3, <2>4, LoopsFlowSet
  <2> QED BY ZenonT(30), <1>2, <2>4, <2>5
<1>15. CASE LoopOutlives(l)
  <2> DEFINE x == [loops[l] EXCEPT !.pc = "backoff", !.cancelled = FALSE]
  <2>1. /\ x \in LoopType /\ x.pub = loops[l].pub /\ x.waits = loops[l].waits /\ x.pc = "backoff"
    BY ZenonT(30), <1>1 DEF LoopType
  <2>2. pubs' = Offline(pubs, i) /\ loops' = [loops EXCEPT ![l] = x] /\ loops[l].pc # "ended"
    BY ZenonT(30), <1>0, <1>15 DEF LoopOutlives, Runs
  <2> HIDE DEF x
  <2>3. LoopsFlow(loops, [loops EXCEPT ![l] = x])
    BY ZenonT(30), <1>1, <2>1, <2>2, LoopsFlowSet
  <2> QED BY ZenonT(30), <1>2, <2>2, <2>3
<1> QED BY ZenonT(30), <1>4, <1>5, <1>6, <1>7, <1>8, <1>9, <1>10, <1>11, <1>12, <1>13, <1>14, <1>15
        DEF Loop

\* A step of a loop, of the world, or of nothing.
LEMMA FlowInv ==
  ASSUME Inv, PubsFlow(pubs'), LoopsFlow(loops, loops'),
         rows' = rows, table' = table, locks' = locks, act' = act, asks' = asks, raced' = raced
  PROVE  Inv'
<1>1. /\ TypeOK /\ ActorsOK /\ LocksOK /\ TableOK /\ LoopsOK /\ \A c \in Configs \ raced : Good(c)
  BY Zenon DEF Inv
<1>2. /\ pubs' \in Seq(PubType) /\ DOMAIN pubs' = DOMAIN pubs
      /\ \A i \in DOMAIN pubs : /\ pubs'[i].config = pubs[i].config /\ pubs'[i].ver = pubs[i].ver
                                /\ pubs'[i].task = pubs[i].task
  BY Zenon DEF PubsFlow, PubsGo
<1>3. /\ loops' \in Seq(LoopType) /\ DOMAIN loops' = DOMAIN loops
      /\ \A l \in DOMAIN loops : /\ loops'[l].pub = loops[l].pub /\ loops'[l].waits = loops[l].waits
                                 /\ Runs(l)' => Runs(l)
  BY Zenon DEF LoopsFlow, LoopsGo, Runs
<1>4. TypeOK'
  <2>1. \A l \in DOMAIN loops' : loops'[l].pub \in DOMAIN pubs'
    BY ZenonT(30), <1>1, <1>2, <1>3 DEF TypeOK
  <2>2. \A i \in DOMAIN pubs' : pubs'[i].task # None => pubs'[i].task \in DOMAIN loops'
    BY ZenonT(30), <1>1, <1>2, <1>3 DEF TypeOK
  <2>3. /\ rows' \in [Configs -> Row \cup {None}] /\ locks' \in [Configs -> Seq(Actors)]
        /\ table' \in [Configs -> DOMAIN pubs' \cup {None}]
        /\ act' \in [Actors -> ActType] /\ asks' \in Nat /\ raced' \subseteq Configs
    BY Zenon, <1>1, <1>2 DEF TypeOK
  <2> QED BY ZenonT(30), <1>2, <1>3, <2>1, <2>2, <2>3 DEF TypeOK
<1>5. ASSUME NEW a \in Actors PROVE ActorOK(a, act[a], pubs', loops')
  <2>1. ActorOK(a, act[a], pubs, loops)
    BY Zenon, <1>1 DEF ActorsOK
  <2>2. act[a].pub \in DOMAIN pubs =>
          act[a].pub \in DOMAIN pubs' /\ pubs'[act[a].pub].config = pubs[act[a].pub].config
    BY Zenon, <1>2
  <2>3. act[a].awaits \in DOMAIN loops =>
          /\ act[a].awaits \in DOMAIN loops'
          /\ Waits(loops, act[a].awaits, a) => Waits(loops', act[a].awaits, a)
    BY Zenon, <1>3 DEF Waits
  <2> QED BY Zenon, <2>1, <2>2, <2>3 DEF ActorOK
<1>6. ActorsOK' /\ LocksOK'
  <2>1. ActorsOK'
    BY Zenon, <1>5 DEF ActorsOK
  <2> QED BY Zenon, <1>1, <2>1 DEF LocksOK
<1>7. TableOK'
  BY ZenonT(30), <1>1, <1>2 DEF TableOK, TypeOK
<1>8. LoopsOK'
  <2>1. StopOK'
    BY Zenon, <1>1, <1>3 DEF LoopsOK, StopOK
  <2> SUFFICES ASSUME NEW l \in DOMAIN loops, Runs(l)', pubs'[loops'[l].pub].config \notin raced
               PROVE  Accounted(l)'
    BY Zenon, <1>3, <2>1 DEF LoopsOK, LoopsAccounted
  <2>2. Runs(l) /\ loops'[l].pub = loops[l].pub /\ loops[l].pub \in DOMAIN pubs
    BY ZenonT(30), <1>1, <1>3 DEF TypeOK
  <2>3. /\ pubs'[loops[l].pub].config = pubs[loops[l].pub].config
        /\ pubs'[loops[l].pub].task = pubs[loops[l].pub].task
    BY Zenon, <1>2, <2>2
  <2>4. Accounted(l)
    BY Zenon, <1>1, <2>2, <2>3 DEF LoopsOK, LoopsAccounted
  <2> QED BY ZenonT(30), <2>2, <2>3, <2>4 DEF Accounted, Stopping
<1>9. ASSUME NEW c \in Configs, c \notin raced PROVE Good(c)'
  <2>1. Good(c)
    BY Zenon, <1>1, <1>9
  <2>2. table[c] # None => pubs'[table[c]].ver = pubs[table[c]].ver
    BY Zenon, <1>1, <1>2 DEF TypeOK
  <2>3. Gone(c)' /\ Serve(c)'
    BY Zenon, <2>1 DEF Good, Gone, Serve, Deleting
  <2>4. Fresh(c)'
    BY Zenon, <2>1, <2>2 DEF Good, Fresh, Enabled
  <2> QED BY Zenon, <2>3, <2>4 DEF Good
<1> QED BY ZenonT(30), <1>4, <1>6, <1>7, <1>8, <1>9 DEF Inv

LEMMA StayFlows ==
  ASSUME TypeOK, pubs' = pubs, loops' = loops
  PROVE  PubsFlow(pubs') /\ LoopsFlow(loops, loops')
BY Zenon DEF TypeOK, PubsFlow, LoopsFlow, PubsGo, LoopsGo

LEMMA WorldFlows ==
  ASSUME TypeOK, World
  PROVE  PubsFlow(pubs') /\ LoopsFlow(loops, loops')
<1>1. pubs' = pubs /\ loops' = loops
  BY Zenon DEF World, BrokerLost, BrokerBack, KeysLost, KeysBack
<1> QED BY Zenon, <1>1, StayFlows

LEMMA PublishOkInv ==
  ASSUME Inv, NEW h \in Handlers, PublishOk(h)
  PROVE  Inv'
<1>1. /\ h \in Actors /\ act[h].pc \in {"write", "publish"} /\ Done(h)
      /\ pubs' = pubs /\ loops' = loops /\ UNCHANGED <<rows, table, locks, asks, raced>>
  BY Zenon DEF PublishOk, Actors
<1>2. Step(h)
  BY Zenon, <1>1, StepStays DEF Inv
<1>3. /\ DOMAIN pubs' = DOMAIN pubs /\ DOMAIN loops' = DOMAIN loops
      /\ \A i \in DOMAIN pubs : pubs'[i].task = pubs[i].task
  BY Zenon, <1>1
<1> QED BY ZenonT(30), <1>1, <1>2, <1>3, DoneInv

-----------------------------------------------------------------------------
(* The invariant holds, and what follows from it.                              *)

LEMMA InitInv == Init => Inv
<1> SUFFICES ASSUME Init PROVE Inv
  BY Zenon
<1>1. /\ pubs = [c \in Configs |-> [Publisher(c, 0) EXCEPT !.task = c]]
      /\ loops = [c \in Configs |-> NewLoop(c)]
      /\ table = [c \in Configs |-> c]
      /\ rows = [c \in Configs |-> [enabled |-> TRUE, ver |-> 0]]
      /\ locks = [c \in Configs |-> << >>] /\ act = [a \in Actors |-> Idle]
      /\ asks = 0 /\ raced = {}
  BY Zenon DEF Init
<1>2. Configs = 1..NConfigs /\ NConfigs \in Nat /\ Configs \subseteq Nat
  BY FanoutAssumption DEF Configs
<1>3. ASSUME NEW c \in Configs
      PROVE  pubs[c] \in PubType /\ pubs[c].task = c /\ pubs[c].config = c /\ pubs[c].ver = 0
  <2> DEFINE p == Publisher(c, 0)
  <2>1. c \in Nat /\ 0 \in Nat
    BY <1>2
  <2>2. p \in PubType /\ p.config = c /\ p.ver = 0
    BY Zenon, <2>1 DEF PubType, NatOrNone, Publisher
  <2>3. pubs[c] = [p EXCEPT !.task = c]
    BY Zenon, <1>1
  <2> HIDE DEF p
  <2> QED BY Zenon, <2>1, <2>2, <2>3 DEF PubType, NatOrNone
<1>4. ASSUME NEW c \in Configs PROVE loops[c] \in LoopType /\ loops[c].pub = c
  <2>1. << >> \in Seq(Actors) /\ c \in Nat
    BY <1>2
  <2> QED BY Zenon, <1>1, <2>1 DEF NewLoop, LoopType
<1>5. DOMAIN pubs = Configs /\ DOMAIN loops = Configs
  BY Zenon, <1>1
<1>6. pubs \in Seq(PubType) /\ loops \in Seq(LoopType)
  <2>1. pubs \in [1..NConfigs -> PubType] /\ loops \in [1..NConfigs -> LoopType]
    BY ZenonT(30), <1>1, <1>2, <1>3, <1>4
  <2>2. pubs \in Seq(PubType)
    BY Zenon, <1>2, <2>1, SeqFunction
  <2>3. loops \in Seq(LoopType)
    BY Zenon, <1>2, <2>1, SeqFunction
  <2> QED BY Zenon, <2>2, <2>3
<1>7. TypeOK
  <2>1. 0 \in Nat /\ << >> \in Seq(Actors)
    OBVIOUS
  <2>2. /\ \A l \in DOMAIN loops : loops[l].pub \in DOMAIN pubs
        /\ \A i \in DOMAIN pubs : pubs[i].task # None => pubs[i].task \in DOMAIN loops
    BY Zenon, <1>3, <1>4, <1>5
  <2>3. rows \in [Configs -> Row \cup {None}]
    BY Zenon, <1>1, <2>1 DEF Row
  <2>4. table \in [Configs -> DOMAIN pubs \cup {None}] /\ locks \in [Configs -> Seq(Actors)]
    BY Zenon, <1>1, <1>5, <2>1
  <2>5. act \in [Actors -> ActType] /\ asks \in Nat /\ raced \subseteq Configs
    BY Zenon, <1>1, <2>1, IdleType
  <2> QED BY ZenonT(30), <1>6, <2>2, <2>3, <2>4, <2>5 DEF TypeOK
<1>8. \A a \in Actors : act[a] = Idle
  BY Zenon, <1>1
<1>9. ActorsOK
  BY Zenon, <1>8 DEF ActorsOK, ActorOK
<1>10. LocksOK
  <2> SUFFICES ASSUME NEW c \in Configs PROVE QueueOK(c, locks[c], act)
    BY Zenon DEF LocksOK
  <2>1. locks[c] = << >>
    BY Zenon, <1>1
  <2>2. \A k \in DOMAIN locks[c] : FALSE
    BY <2>1
  <2> QED BY Zenon, <1>8, <2>2, IdleOut DEF QueueOK
<1>11. TableOK
  BY Zenon, <1>1, <1>3 DEF TableOK
<1>12. LoopsOK
  <2>1. StopOK
    BY Zenon, <1>8, IdleOut DEF StopOK
  <2>2. ASSUME NEW l \in DOMAIN loops PROVE Accounted(l)
    <3>1. l \in Configs /\ loops[l].pub = l /\ pubs[l].task = l /\ pubs[l].config = l /\ table[l] = l
      BY Zenon, <1>1, <1>3, <1>4, <1>5
    <3> QED BY Zenon, <3>1 DEF Accounted
  <2> QED BY Zenon, <2>1, <2>2 DEF LoopsOK, LoopsAccounted
<1>13. ASSUME NEW c \in Configs PROVE Good(c)
  <2>1. rows[c] = [enabled |-> TRUE, ver |-> 0] /\ table[c] = c /\ pubs[c].ver = 0
    BY Zenon, <1>1, <1>3
  <2>2. rows[c] # None /\ rows[c].enabled /\ rows[c].ver = 0
    <3>1. rows[c] \in [enabled : BOOLEAN \cup {None}, ver : Nat]
      BY <2>1
    <3>2. rows[c] # None
      BY Zenon, <3>1, FanoutAssumption
    <3>3. rows[c].enabled /\ rows[c].ver = 0
      BY <2>1
    <3> QED BY Zenon, <3>2, <3>3
  <2>3. Gone(c)
    <3>1. ~Deleting(c)
      BY Zenon, <1>8, IdleOut DEF Deleting, Actors
    <3> QED BY Zenon, <2>2, <3>1 DEF Gone
  <2>4. Serve(c) /\ Fresh(c)
    BY ZenonT(30), <1>8, <2>1, <2>2, IdleOut DEF Serve, Fresh, Enabled
  <2> QED BY Zenon, <2>3, <2>4 DEF Good
<1> QED BY ZenonT(30), <1>7, <1>9, <1>10, <1>11, <1>12, <1>13 DEF Inv

LEMMA NextInv == Inv /\ [Next]_vars => Inv'
<1> SUFFICES ASSUME Inv, [Next]_vars PROVE Inv'
  BY Zenon
<1>0. TypeOK
  BY Zenon DEF Inv
<1>1. ASSUME NEW r \in Requests, Request(r) PROVE Inv'
  <2>1. ASSUME NEW c \in Configs,
               AskUpdate(r, c, "edit") \/ AskUpdate(r, c, "toggle") \/ AskDelete(r, c)
        PROVE  Inv'
    BY Zenon, <2>1, AskUpdateInv, AskDeleteInv
  <2> QED BY ZenonT(30), <1>1, <2>1, WriteRowInv, ReloadLockedInv, RemoveEndsInv, ReadLeavesInv,
          ReadStartsInv, DropRowInv DEF Request
<1>2. ASSUME NEW h \in Handlers, Handler(h) PROVE Inv'
  BY ZenonT(30), <1>2, DispatchInv, PublishOkInv, PublishFailsInv, HandlerTimesOutInv,
     RestartLockedInv, RestartedInv, RestartFailsInv DEF Handler
<1>3. ASSUME NEW l \in DOMAIN loops, Loop(l), UNCHANGED <<managerVars, countVars, raced>> PROVE Inv'
  <2>1. PubsFlow(pubs') /\ LoopsFlow(loops, loops')
    BY Zenon, <1>0, <1>3, LoopFlows
  <2> QED BY Zenon, <1>3, <2>1, FlowInv
<1>4. CASE World /\ UNCHANGED <<managerVars, countVars, raced>>
  <2>1. PubsFlow(pubs') /\ LoopsFlow(loops, loops')
    BY Zenon, <1>0, <1>4, WorldFlows
  <2> QED BY Zenon, <1>4, <2>1, FlowInv
<1>5. CASE UNCHANGED vars
  <2>1. /\ pubs' = pubs /\ loops' = loops /\ rows' = rows /\ table' = table /\ locks' = locks
        /\ act' = act /\ asks' = asks /\ raced' = raced
    BY Zenon, <1>5 DEF vars
  <2>2. PubsFlow(pubs') /\ LoopsFlow(loops, loops')
    BY Zenon, <1>0, <2>1, StayFlows
  <2> QED BY Zenon, <2>1, <2>2, FlowInv
<1> QED BY ZenonT(30), <1>1, <1>2, <1>3, <1>4, <1>5 DEF Next

\* The invariant behind the theorems on the fanout manager: the task that stops or starts
\* a module holds the lock of its configuration, and a reload that is still to come
\* will read the row as it is stored (reload_config, _restart_module).
THEOREM FanoutInvariant == Spec => []Inv
BY PTL, InitInv, NextInv DEF Spec

\* A stop wakes nobody that waits, and no loop starts to wait.
LEMMA RemoveAwake ==
  ASSUME TypeOK, Awake(loops), NEW a \in Actors, NEW state, NEW c \in Configs, NEW label,
         Remove(a, state, c, label)
  PROVE  Awake(loops')
<1>1. CASE table[c] = None
  BY Zenon, <1>1 DEF Remove
<1>2. CASE table[c] # None
  BY ZenonT(30), <1>2, StopGoes DEF Remove, TypeOK
<1> QED BY Zenon, <1>1, <1>2

LEMMA NextAwake == Inv /\ Awake(loops) /\ [Next]_vars => Awake(loops')
<1> SUFFICES ASSUME Inv, Awake(loops), [Next]_vars PROVE Awake(loops')
  BY Zenon
<1>0. TypeOK /\ ActorsOK /\ LocksOK /\ Requests \subseteq Actors /\ Handlers \subseteq Actors
      /\ pubs \in Seq(PubType) /\ loops \in Seq(LoopType)
  BY Zenon DEF Inv, Actors, TypeOK
<1>1. ASSUME NEW a \in Actors, act[a].pc = "stopping", MayGoOn(a, act[a].awaits)
      PROVE  /\ Awake(NoLongerWaits(act[a].awaits))
             /\ NoLongerWaits(act[a].awaits) \in Seq(LoopType)
             /\ Stopped(act[a].pub) \in Seq(PubType) /\ act[a].pub \in DOMAIN Stopped(act[a].pub)
             /\ Stopped(act[a].pub)[act[a].pub].task = None
  <2>0. PICK i : i = act[a].pub
    BY Zenon
  <2>1. /\ PubsGo(pubs, Stopped(i)) /\ DOMAIN Stopped(i) = DOMAIN pubs /\ i \in DOMAIN pubs
        /\ \A j \in DOMAIN pubs : Stopped(i)[j].task = IF j = i THEN None ELSE pubs[j].task
        /\ LoopsGo(loops, NoLongerWaits(act[a].awaits))
        /\ Awake(NoLongerWaits(act[a].awaits))
    BY ZenonT(30), <1>0, <1>1, <2>0, StopEnds, StopsPub
  <2> QED BY Zenon, <2>0, <2>1 DEF PubsGo, LoopsGo
<1>2. ASSUME NEW r \in Requests, ReadStarts(r) PROVE Awake(loops')
  <2>0. PICK c, i, ver, ps : /\ c = act[r].config /\ i = Len(pubs) + 1 /\ ver = rows[c].ver
                             /\ ps = Append(pubs, Publisher(c, ver))
    BY Zenon
  <2>1. act[r].pc = "read" /\ Enabled(c) /\ StartPublisher(ps, loops, i)
    BY Zenon, <1>2, <2>0 DEF ReadStarts
  <2>2. c \in Configs /\ ver \in Nat
    BY ZenonT(30), <1>0, <2>0, <2>1, ActorFacts DEF TypeOK, Enabled, Row
  <2>3. Made(ps, i, c, ver)
    BY ZenonT(30), <1>0, <2>0, <2>2, NewPublisher
  <2>4. ps \in Seq(PubType) /\ i \in DOMAIN ps /\ ps[i].task = None
    BY Zenon, <2>3 DEF Made, PubsGo
  <2>5. Started(ps, loops, i, Len(loops) + 1)
    BY ZenonT(30), <1>0, <2>1, <2>4, StartGoes
  <2> QED BY Zenon, <2>5 DEF Started
<1>3. ASSUME NEW r \in Requests, Request(r) PROVE Awake(loops')
  <2>1. ASSUME NEW c \in Configs,
               AskUpdate(r, c, "edit") \/ AskUpdate(r, c, "toggle") \/ AskDelete(r, c)
        PROVE  Awake(loops')
    BY Zenon, <1>0, <2>1, RemoveAwake DEF AskUpdate, AskDelete
  <2>2. CASE ReloadLocked(r)
    <3>1. act[r].config \in Configs
      BY Zenon, <1>0, <2>2, ActorFacts DEF ReloadLocked
    <3> QED BY ZenonT(30), <1>0, <2>2, <3>1, RemoveAwake DEF ReloadLocked
  <2>3. CASE RemoveEnds(r)
    BY ZenonT(30), <1>0, <1>1, <2>3 DEF RemoveEnds
  <2>4. CASE WriteRow(r) \/ ReadSkips(r) \/ ReadFails(r) \/ DropRow(r)
    BY Zenon, <2>4 DEF WriteRow, ReadSkips, ReadFails, DropRow
  <2> QED BY ZenonT(30), <1>2, <1>3, <2>1, <2>2, <2>3, <2>4 DEF Request
<1>4. ASSUME NEW h \in Handlers, Handler(h) PROVE Awake(loops')
  <2>1. CASE RestartLocked(h)
    <3>1. act[h].pub \in DOMAIN pubs
      BY Zenon, <1>0, <2>1, ActorFacts DEF RestartLocked, ActorOK, HandlerOK
    <3> QED BY ZenonT(30), <1>0, <2>1, <3>1, StopGoes DEF RestartLocked
  <2>2. CASE Restarted(h)
    <3>0. PICK i, ps, ls : /\ i = act[h].pub /\ ps = Stopped(i) /\ ls = NoLongerWaits(act[h].awaits)
      BY Zenon
    <3>1. /\ StartPublisher(ps, ls, i) /\ Awake(ls) /\ ls \in Seq(LoopType)
          /\ ps \in Seq(PubType) /\ i \in DOMAIN ps /\ ps[i].task = None
      BY ZenonT(30), <1>0, <1>1, <2>2, <3>0 DEF Restarted
    <3>2. Started(ps, ls, i, Len(ls) + 1)
      BY Zenon, <3>1, StartGoes
    <3> QED BY Zenon, <3>1, <3>2 DEF Started
  <2>3. CASE RestartFails(h)
    BY ZenonT(30), <1>0, <1>1, <2>3 DEF RestartFails
  <2>4. CASE PublishFails(h)
    BY ZenonT(30), <1>0, <2>4, BumpedGoes DEF PublishFails, PublishFailed
  <2>5. CASE PublishOk(h) \/ HandlerTimesOut(h) \/ \E c \in Configs : Dispatch(h, c)
    BY Zenon, <2>5 DEF PublishOk, HandlerTimesOut, Dispatch
  <2> QED BY ZenonT(30), <1>4, <2>1, <2>2, <2>3, <2>4, <2>5 DEF Handler
<1>5. ASSUME NEW l \in DOMAIN loops, Loop(l) PROVE Awake(loops')
  BY Zenon, <1>0, <1>5, LoopFlows DEF LoopsFlow
<1>6. CASE World
  BY ZenonT(30), <1>0, <1>6, WorldFlows DEF LoopsFlow
<1>7. CASE UNCHANGED vars
  BY Zenon, <1>7 DEF vars
<1> QED BY ZenonT(30), <1>3, <1>4, <1>5, <1>6, <1>7 DEF Next

\* Every request, handler, publisher and loop stays what it should be: the module in
\* charge of a configuration is one that was made, and every task that a publisher has
\* is a connection loop that was started.
THEOREM FanoutTypes == Spec => []TypeOK
<1>1. Inv => TypeOK
  BY Zenon DEF Inv
<1> QED BY PTL, <1>1, FanoutInvariant

\* No connection loop is left running that nothing can stop, whatever updates, deletes
\* and restarts of timed-out modules overlap, for any number of them and of
\* configurations: _restart_module and reload_config start a publisher only under the
\* lock of its configuration, when the one before is out of _modules and its loop over.
THEOREM LoopsAreAccountedFor == Spec => []LoopsAccounted
<1>1. Inv => LoopsAccounted
  BY Zenon DEF Inv, LoopsOK
<1> QED BY PTL, <1>1, FanoutInvariant

\* Once all is quiet the module in charge has the configuration that is stored: of the
\* reloads that overlap, the last to take the lock has read the last row written
\* (update_fanout_config, reload_config).
THEOREM ModulesFollowRows == Spec => []TableFollowsRows
<1>1. Inv => TableFollowsRows
  <2> SUFFICES ASSUME Inv, NEW c \in Configs, c \notin raced, Quiet(c), table[c] # None
               PROVE  Enabled(c) /\ pubs[table[c]].ver = rows[c].ver
    BY Zenon DEF TableFollowsRows
  <2>1. Fresh(c) /\ Requests \subseteq Actors
    BY Zenon DEF Inv, Good, Actors
  <2> QED BY Zenon, <2>1 DEF Fresh, Quiet
<1> QED BY PTL, <1>1, FanoutInvariant

\* A loop never begins its wait for _version_event after a change of settings or a
\* failed publish that it has not seen: the version it connected with is compared again
\* between clearing the event and waiting (_connection_loop).
THEOREM WakeupsAreNotLost == Spec => []NoLostWakeup
<1>1. Init => NoLostWakeup
  <2> SUFFICES ASSUME Init, NEW l \in DOMAIN loops PROVE loops[l].pc # "wait"
    BY Zenon DEF NoLostWakeup
  <2>1. loops[l] = NewLoop(l)
    BY Zenon DEF Init
  <2> QED BY <2>1 DEF NewLoop
<1>2. Inv /\ NoLostWakeup /\ [Next]_vars => NoLostWakeup'
  BY Zenon, NextAwake DEF Awake, NoLostWakeup
<1> QED BY PTL, <1>1, <1>2, InitInv, NextInv DEF Spec
=============================================================================
