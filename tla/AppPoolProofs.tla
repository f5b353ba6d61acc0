--------------------------- MODULE AppPoolProofs ---------------------------
(***************************************************************************)
(* What holds of the pool of an app for any number of visitors, admins,    *)
(* saves, sessions, versions and events.                                   *)
(***************************************************************************)
EXTENDS AppPool, FiniteSetTheorems, WellFoundedInduction, TLAPS

-----------------------------------------------------------------------------
(* Types. *)

Saves == [pc : {"idle", "prune", "scan", "pool", "delete"}, keep : 0..MaxVersions,
          cand : SUBSET Versions, prot : SUBSET (0..MaxVersions)]
RequestSteps == {"idle", "sync", "route", "confirm", "terminate", "invalidate", "destroy", "boot",
                 "record", "check", "run", "complete", "undobox", "undopool", "undorec"}
Requests == [pc : RequestSteps, v : 0..MaxVersions, s : 0..MaxSessions, old : 0..MaxSessions,
             own : {"none", "assign", "reserve", "record"}, tear : BOOLEAN]
Sweeps == [pc : {"idle", "mark", "read", "missing", "destroy", "remove"}, todo : SUBSET Sessions]
Statuses == {"none"} \union Over \union Present
Boxes == {"none", "down"} \union Standing

LEMMA Numbers ==
    /\ Sessions \subseteq Nat /\ 0 \notin Sessions /\ Sessions \subseteq 0..MaxSessions
    /\ \A s \in 0..MaxSessions : s # 0 => s \in Sessions
    /\ Versions \subseteq Nat /\ 0 \notin Versions /\ Versions \subseteq 0..MaxVersions
    /\ \A v \in 0..MaxVersions : v # 0 => v \in Versions
    /\ 0 \in 0..MaxSessions /\ 0 \in 0..MaxVersions /\ 0 \in 0..MaxEvents /\ 1 \in Versions
    /\ 0..MaxVersions \subseteq Nat
  BY AppPoolAssumption DEF Sessions, Versions

LEMMA Types ==
    ASSUME TypeOK
    PROVE  /\ source \in Versions /\ source \in Nat /\ ver \in [Versions -> {"none", "kept", "pruned"}]
           /\ cutoff \in 0..MaxVersions /\ cutoff \in Nat /\ saver \in [Savers -> Saves] /\ pool \in Pools
           /\ pin \in [Sessions -> 0..MaxVersions] /\ rec \in [Sessions -> Statuses]
           /\ checked \subseteq Sessions /\ box \in [Sessions -> Boxes]
           /\ req \in [Clients -> Requests] /\ sweep \in Sweeps
           /\ late \subseteq Sessions /\ due \subseteq Sessions /\ lapsed \subseteq Visitors
           /\ events \in 0..MaxEvents
           /\ pool.st \in [Sessions -> MemberStates] /\ pool.asg \in [Visitors -> 0..MaxSessions]
           /\ sweep.todo \subseteq Sessions
<1>1. source \in Nat /\ cutoff \in Nat
  BY Numbers DEF TypeOK
<1>2. pool \in Pools /\ sweep \in Sweeps
  BY DEF TypeOK, Sweeps
<1>3. QED
  BY <1>1, <1>2 DEF TypeOK, Saves, Requests, RequestSteps, Sweeps, Statuses, Pools, Boxes

LEMMA Defaults ==
    /\ NoSave \in Saves /\ NoRequest \in Requests /\ NoSweep \in Sweeps
    /\ NoRequest.pc = "idle" /\ NoRequest.s = 0 /\ NoRequest.old = 0 /\ NoRequest.own = "none"
    /\ NoSave.pc = "idle" /\ NoSave.cand = {} /\ NoSweep.pc = "idle" /\ NoSweep.todo = {}
  BY Numbers DEF NoSave, Saves, NoRequest, Requests, RequestSteps, NoSweep, Sweeps

-----------------------------------------------------------------------------
(* The operators on the pool object. *)

\* No member joins, and one that retires stays out of use.
Shrinks(p, q) ==
    /\ q \in Pools
    /\ \A s \in Sessions : /\ p.st[s] = "none" => q.st[s] = "none"
                           /\ p.st[s] = "retiring" => q.st[s] \in {"retiring", "none"}

LEMMA Fields ==
    ASSUME NEW p \in Pools
    PROVE  /\ p.st \in [Sessions -> MemberStates] /\ p.rep \in [Sessions -> 0..MaxSessions]
           /\ p.asg \in [Visitors -> 0..MaxSessions] /\ p.idle \subseteq Sessions
           /\ p.latest \in 0..MaxVersions /\ p.deleted \in BOOLEAN
  BY DEF Pools

LEMMA ShrinksItself ==
    ASSUME NEW p \in Pools
    PROVE  Shrinks(p, p)
  BY DEF Shrinks

LEMMA ShrinksFurther ==
    ASSUME NEW p, NEW q, NEW r, Shrinks(p, q), Shrinks(q, r)
    PROVE  Shrinks(p, r)
  BY DEF Shrinks

LEMMA ExpireShrinks ==
    ASSUME NEW p \in Pools
    PROVE  /\ Shrinks(p, expireAppPresence(p)) /\ expireAppPresence(p).st = p.st
           /\ expireAppPresence(p).deleted = p.deleted
           /\ \A u \in Visitors :
                /\ expireAppPresence(p).asg[u] \in {0, p.asg[u]}
                /\ p.asg[u] # 0 /\ u \notin lapsed /\ isReusableMember(p, p.asg[u])
                     => expireAppPresence(p).asg[u] = p.asg[u]
<1> DEFINE asg == [u \in Visitors |->
                     IF p.asg[u] # 0 /\ u \notin lapsed /\ isReusableMember(p, p.asg[u])
                       THEN p.asg[u] ELSE 0]
           idle == {s \in Members(p) : \A u \in Visitors : asg[u] # s}
           q == [p EXCEPT !.asg = asg, !.idle = idle]
<1>1. asg \in [Visitors -> 0..MaxSessions]
  BY Fields, Numbers
<1>2. idle \subseteq Sessions
  BY DEF Members
<1>3. expireAppPresence(p) = q
  BY DEF expireAppPresence
<1>4. \A u \in Visitors : asg[u] \in {0, p.asg[u]}
        /\ (p.asg[u] # 0 /\ u \notin lapsed /\ isReusableMember(p, p.asg[u]) => asg[u] = p.asg[u])
  OBVIOUS
<1> HIDE DEF asg, idle
<1>5. q \in Pools /\ q.st = p.st /\ q.asg = asg /\ q.deleted = p.deleted
  BY <1>1, <1>2 DEF Pools
<1>6. QED
  BY <1>3, <1>4, <1>5 DEF Shrinks

LEMMA ObserveShrinks ==
    ASSUME TypeOK, NEW p \in Pools, NEW v \in 0..MaxVersions
    PROVE  /\ Shrinks(p, observeVersion(p, v)) /\ observeVersion(p, v).asg = p.asg
           /\ observeVersion(p, v).deleted = p.deleted
           /\ \A s \in Sessions : p.st[s] \in {"ready", "draining"}
                                  => observeVersion(p, v).st[s] \in {"ready", "draining"}
<1> DEFINE st == [s \in Sessions |-> IF p.st[s] = "ready" /\ pin[s] # v THEN "draining" ELSE p.st[s]]
           q == [p EXCEPT !.latest = v, !.st = st]
<1>1. st \in [Sessions -> MemberStates]
  BY Fields DEF MemberStates
<1>2. \A s \in Sessions : /\ p.st[s] \in {"none", "retiring"} => st[s] = p.st[s]
                          /\ p.st[s] \in {"ready", "draining"} => st[s] \in {"ready", "draining"}
  OBVIOUS
<1>3. observeVersion(p, v) = q
  BY DEF observeVersion
<1> HIDE DEF st
<1>4. q \in Pools /\ q.st = st /\ q.asg = p.asg /\ q.deleted = p.deleted
  BY <1>1 DEF Pools
<1>5. QED
  BY <1>2, <1>3, <1>4 DEF Shrinks

LEMMA RetiredShrinks ==
    ASSUME NEW p \in Pools, NEW S, S \intersect Sessions \subseteq Members(p)
    PROVE  /\ Shrinks(p, Retired(p, S)) /\ Retired(p, S).asg = p.asg
           /\ \A s \in Sessions : Retired(p, S).st[s] = IF s \in S THEN "retiring" ELSE p.st[s]
<1> DEFINE st == [s \in Sessions |-> IF s \in S THEN "retiring" ELSE p.st[s]]
           q == [p EXCEPT !.st = st]
<1>1. st \in [Sessions -> MemberStates]
  BY Fields DEF MemberStates
<1>2. \A s \in Sessions : /\ p.st[s] = "none" => st[s] = "none"
                          /\ p.st[s] = "retiring" => st[s] = "retiring"
                          /\ st[s] = IF s \in S THEN "retiring" ELSE p.st[s]
  BY DEF Members
<1>3. Retired(p, S) = q
  BY DEF Retired
<1> HIDE DEF st
<1>4. q \in Pools /\ q.st = st /\ q.asg = p.asg
  BY <1>1 DEF Pools
<1>5. QED
  BY <1>2, <1>3, <1>4 DEF Shrinks

LEMMA DroppedShrinks ==
    ASSUME NEW p \in Pools, NEW s
    PROVE  /\ Shrinks(p, Dropped(p, s)) /\ Dropped(p, s).asg = p.asg
           /\ \A t \in Sessions : Dropped(p, s).st[t] = IF t = s THEN "none" ELSE p.st[t]
<1> DEFINE st == [p.st EXCEPT ![s] = "none"]
           rep == [p.rep EXCEPT ![s] = 0]
           q == [p EXCEPT !.st = st, !.rep = rep, !.idle = p.idle \ {s}]
<1>1. /\ st \in [Sessions -> MemberStates] /\ rep \in [Sessions -> 0..MaxSessions]
      /\ p.idle \ {s} \subseteq Sessions
  BY Fields, Numbers DEF MemberStates
<1>2. \A t \in Sessions : st[t] = IF t = s THEN "none" ELSE p.st[t]
  BY Fields
<1>3. Dropped(p, s) = q
  BY Fields DEF Dropped, Pools
<1> HIDE DEF st, rep
<1>4. q \in Pools /\ q.st = st /\ q.asg = p.asg
  BY <1>1 DEF Pools
<1>5. QED
  BY <1>2, <1>3, <1>4 DEF Shrinks

LEMMA UnassignedShrinks ==
    ASSUME NEW p \in Pools, NEW s
    PROVE  /\ Shrinks(p, Unassigned(p, s)) /\ Unassigned(p, s).st = p.st
           /\ \A u \in Visitors : Unassigned(p, s).asg[u] = IF p.asg[u] = s THEN 0 ELSE p.asg[u]
<1> DEFINE asg == [u \in Visitors |-> IF p.asg[u] = s THEN 0 ELSE p.asg[u]]
           q == [p EXCEPT !.asg = asg]
<1>1. asg \in [Visitors -> 0..MaxSessions]
  BY Fields, Numbers
<1>2. \A u \in Visitors : asg[u] = IF p.asg[u] = s THEN 0 ELSE p.asg[u]
  OBVIOUS
<1>3. Unassigned(p, s) = q
  BY DEF Unassigned
<1> HIDE DEF asg
<1>4. q \in Pools /\ q.asg = asg /\ q.st = p.st
  BY <1>1 DEF Pools
<1>5. QED
  BY <1>2, <1>3, <1>4 DEF Shrinks

LEMMA AssignMeans ==
    ASSUME NEW p \in Pools, NEW u, NEW s \in 0..MaxSessions, NEW q, q = [p EXCEPT !.asg[u] = s]
    PROVE  /\ Shrinks(p, q) /\ q.st = p.st
           /\ \A x \in Visitors : q.asg[x] = IF x = u THEN s ELSE p.asg[x]
<1> DEFINE asg == [p.asg EXCEPT ![u] = s]
<1>1. asg \in [Visitors -> 0..MaxSessions] /\ \A x \in Visitors : asg[x] = IF x = u THEN s ELSE p.asg[x]
  BY Fields
<1>2. q = [p EXCEPT !.asg = asg]
  BY Fields DEF Pools
<1> HIDE DEF asg
<1>3. q \in Pools /\ q.asg = asg /\ q.st = p.st
  BY <1>1, <1>2 DEF Pools
<1>4. QED
  BY <1>1, <1>3 DEF Shrinks

LEMMA AssignShrinks ==
    ASSUME NEW p \in Pools, NEW u, NEW s \in 0..MaxSessions,
           NEW q, q = [p EXCEPT !.asg[u] = s, !.idle = @ \ {s}]
    PROVE  /\ Shrinks(p, q) /\ q.st = p.st
           /\ \A x \in Visitors : q.asg[x] = IF x = u THEN s ELSE p.asg[x]
<1> DEFINE asg == [p.asg EXCEPT ![u] = s]
<1>1. /\ asg \in [Visitors -> 0..MaxSessions] /\ \A x \in Visitors : asg[x] = IF x = u THEN s ELSE p.asg[x]
      /\ p.idle \ {s} \subseteq Sessions
  BY Fields
<1>2. q = [p EXCEPT !.asg = asg, !.idle = p.idle \ {s}]
  BY Fields DEF Pools
<1> HIDE DEF asg
<1>3. q \in Pools /\ q.asg = asg /\ q.st = p.st
  BY <1>1, <1>2 DEF Pools
<1>4. QED
  BY <1>1, <1>3 DEF Shrinks

\* The visit of u is renewed, and its member takes visits or is draining.
Held(p, u) == p.asg[u] # 0 /\ u \notin lapsed /\ p.st[p.asg[u]] \in {"ready", "draining"}

LEMMA ExpireHolds ==
    ASSUME NEW p \in Pools, NEW u \in Visitors, Held(p, u)
    PROVE  expireAppPresence(p).asg[u] = p.asg[u] /\ Held(expireAppPresence(p), u)
<1>1. isReusableMember(p, p.asg[u])
  BY DEF Held, isReusableMember
<1>2. QED
  BY <1>1, ExpireShrinks DEF Held

LEMMA SynchronizeShrinks ==
    ASSUME TypeOK, NEW p \in Pools
    PROVE  /\ Shrinks(p, synchronize(p))
           /\ \A u \in Visitors : Held(p, u) /\ rec[p.asg[u]] = "running"
                                  => synchronize(p).asg[u] = p.asg[u]
<1> DEFINE S == {s \in Members(p) :
                   \/ p.st[s] # "starting" /\ rec[s] = "none"
                   \/ p.st[s] = "starting" /\ s \in late
                   \/ rec[s] \in {"terminating"} \union Over}
           q == Retired(p, S)
<1>1. synchronize(p) = expireAppPresence(q)
  BY DEF synchronize
<1>2. \A s : p.st[s] \in {"ready", "draining"} /\ rec[s] = "running" => s \notin S
  BY DEF Over
<1>3. S \subseteq Members(p)
  OBVIOUS
<1> HIDE DEF S
<1>4. /\ Shrinks(p, q) /\ q.asg = p.asg
      /\ \A s \in Sessions : q.st[s] = IF s \in S THEN "retiring" ELSE p.st[s]
  BY <1>3, RetiredShrinks
<1>5. q \in Pools
  BY <1>4 DEF Shrinks
<1> HIDE DEF q
<1>6. ASSUME NEW u \in Visitors, Held(p, u), rec[p.asg[u]] = "running"
      PROVE  expireAppPresence(q).asg[u] = p.asg[u]
  <2>1. p.asg[u] \in Sessions /\ p.asg[u] \notin S
    BY <1>2, <1>6, Fields, Numbers DEF Held
  <2>2. Held(q, u)
    BY <1>4, <1>6, <2>1 DEF Held
  <2>3. QED
    BY <1>4, <1>5, <2>2, ExpireHolds
<1>7. QED
  BY <1>1, <1>4, <1>5, <1>6, ExpireShrinks, ShrinksFurther

LEMMA ReleaseShrinks ==
    ASSUME NEW p \in Pools, NEW s
    PROVE  /\ Shrinks(p, releaseReservation(p, s))
           /\ \A u \in Visitors : p.asg[u] # s => releaseReservation(p, s).asg[u] = p.asg[u]
<1>1. Shrinks(p, Dropped(p, s)) /\ Dropped(p, s).asg = p.asg
  BY DroppedShrinks
<1>2. Dropped(p, s) \in Pools
  BY <1>1 DEF Shrinks
<1>3. /\ Shrinks(Dropped(p, s), Unassigned(Dropped(p, s), s))
      /\ \A u \in Visitors : p.asg[u] # s => Unassigned(Dropped(p, s), s).asg[u] = p.asg[u]
  BY <1>1, <1>2, UnassignedShrinks
<1>4. QED
  BY <1>1, <1>3, ShrinksFurther, ShrinksItself DEF releaseReservation

LEMMA InvalidateShrinks ==
    ASSUME NEW p \in Pools, NEW s
    PROVE  /\ Shrinks(p, invalidate(p, s))
           /\ \A u \in Visitors : p.asg[u] # s => invalidate(p, s).asg[u] = p.asg[u]
<1> DEFINE q == Retired(p, Members(p) \intersect {s})
<1>1. Shrinks(p, q) /\ q.asg = p.asg
  BY RetiredShrinks
<1>2. q \in Pools
  BY <1>1 DEF Shrinks
<1>3. invalidate(p, s) = Unassigned(q, s)
  BY DEF invalidate
<1> HIDE DEF q
<1>4. /\ Shrinks(q, Unassigned(q, s))
      /\ \A u \in Visitors : p.asg[u] # s => Unassigned(q, s).asg[u] = p.asg[u]
  BY <1>1, <1>2, UnassignedShrinks
<1>5. QED
  BY <1>1, <1>3, <1>4, ShrinksFurther

LEMMA CompletedShrinks ==
    ASSUME NEW p \in Pools, NEW s, p.st[s] = "starting"
    PROVE  Shrinks(p, Completed(p, s)) /\ Completed(p, s).asg = p.asg
<1> DEFINE m == IF pin[s] = p.latest THEN "ready" ELSE "draining"
           st == [p.st EXCEPT ![s] = m]
           q == [p EXCEPT !.st = st]
<1>1. m \in {"ready", "draining"}
  OBVIOUS
<1>2. Completed(p, s) = q
  BY Fields DEF Completed, Pools
<1> HIDE DEF m
<1>3. /\ st \in [Sessions -> MemberStates]
      /\ \A t \in Sessions : t # s => st[t] = p.st[t]
  BY <1>1, Fields DEF MemberStates
<1> HIDE DEF st
<1>4. q \in Pools /\ q.st = st /\ q.asg = p.asg
  BY <1>3 DEF Pools
<1>5. QED
  BY <1>2, <1>3, <1>4 DEF Shrinks

LEMMA DeletionShrinks ==
    ASSUME NEW p \in Pools
    PROVE  LET q == [Retired(p, Members(p)) EXCEPT !.deleted = TRUE, !.asg = [u \in Visitors |-> 0]]
           IN  Shrinks(p, q) /\ q.deleted
<1> DEFINE r == Retired(p, Members(p))
           asg == [u \in Visitors |-> 0]
           q == [r EXCEPT !.deleted = TRUE, !.asg = asg]
<1>1. Shrinks(p, r)
  BY RetiredShrinks
<1>2. asg \in [Visitors -> 0..MaxSessions]
  BY Numbers
<1> HIDE DEF r, asg
<1>3. q \in Pools /\ q.st = r.st /\ q.deleted
  BY <1>1, <1>2 DEF Pools, Shrinks
<1>4. Shrinks(p, q) /\ q.deleted
  BY <1>1, <1>3 DEF Shrinks
<1>5. QED
  BY <1>4 DEF r, asg

LEMMA ReserveMeans ==
    ASSUME NEW p \in Pools, NEW s \in Sessions, NEW r \in 0..MaxSessions
    PROVE  /\ Reserve(p, s, r) \in Pools /\ Reserve(p, s, r).asg = p.asg
           /\ \A t \in Sessions : Reserve(p, s, r).st[t] = IF t = s THEN "starting" ELSE p.st[t]
<1> DEFINE st == [p.st EXCEPT ![s] = "starting"]
           rep == [p.rep EXCEPT ![s] = r]
           k == [p EXCEPT !.st = st, !.rep = rep, !.idle = p.idle \ {s}]
<1>1. /\ st \in [Sessions -> MemberStates] /\ rep \in [Sessions -> 0..MaxSessions]
      /\ p.idle \ {s} \subseteq Sessions
  BY Fields DEF MemberStates
<1>2. \A t \in Sessions : st[t] = IF t = s THEN "starting" ELSE p.st[t]
  BY Fields
<1>3. Reserve(p, s, r) = k
  BY Fields DEF Reserve, Pools
<1> HIDE DEF st, rep
<1>4. k \in Pools /\ k.st = st /\ k.asg = p.asg
  BY <1>1 DEF Pools
<1>5. QED
  BY <1>2, <1>3, <1>4

-----------------------------------------------------------------------------
(* What is chosen. *)

LEMMA Least == ASSUME NEW T, T \subseteq Nat, T # {} PROVE \E x \in T : \A y \in T : x <= y
<1>1. PICK x \in T : \A y \in T : ~ (<<y, x>> \in OpToRel(<,Nat))
  BY NatLessThanWellFounded, WFMin, Zenon
<1>2. \A y \in T : x <= y
  <2>1. SUFFICES ASSUME NEW y \in T, y < x PROVE FALSE
    OBVIOUS
  <2>2. <<y, x>> \in OpToRel(<,Nat)
    BY <2>1 DEF OpToRel
  <2>3. QED
    BY <1>1, <2>2
<1>3. QED
  BY <1>2

LEMMA Greatest ==
    ASSUME NEW T, T \subseteq 0..MaxVersions, T # {}
    PROVE  \E x \in T : \A y \in T : y <= x
<1> DEFINE below == {MaxVersions - y : y \in T}
<1>0. \A y \in 0..MaxVersions : MaxVersions - y \in Nat
  BY AppPoolAssumption
<1>1. below \subseteq Nat /\ below # {}
  BY <1>0
<1>2. PICK b \in below : \A z \in below : b <= z
  BY <1>1, Least
<1>3. PICK x \in T : b = MaxVersions - x
  BY <1>2
<1>4. \A y \in T : MaxVersions - x <= MaxVersions - y
  BY <1>2, <1>3
<1>5. QED
  BY <1>4, AppPoolAssumption

LEMMA NextSessionIs == ASSUME Unused # {} PROVE NextSession \in Sessions /\ pin[NextSession] = 0
<1>1. Unused \subseteq Nat
  BY Numbers DEF Unused
<1>2. \E s \in Unused : \A t \in Unused : s <= t
  BY <1>1, Least
<1>3. NextSession \in Unused
  BY <1>2 DEF NextSession
<1>4. QED
  BY <1>3 DEF Unused

LEMMA CandidateIs ==
    ASSUME TypeOK, sweep.todo # {}
    PROVE  Candidate \in sweep.todo
<1>1. sweep.todo \subseteq Nat
  BY Types, Numbers
<1>2. \E s \in sweep.todo : \A t \in sweep.todo : s <= t
  BY <1>1, Least
<1>3. QED
  BY <1>2 DEF Candidate

LEMMA PreferredIs ==
    ASSUME NEW p \in Pools, NEW S, S \subseteq Sessions, S # {}
    PROVE  Preferred(p, S) \in S
<1> DEFINE n == Cardinality(Visitors)
           m(s) == Cardinality(Occupants(p, s))
           Rank(s) == (IF p.st[s] = "ready" THEN 0 ELSE (n + 1) * (MaxSessions + 1))
                      + (n - m(s)) * (MaxSessions + 1) + s
           ranks == {Rank(s) : s \in S}
<1>1. n \in Nat
  BY AppPoolAssumption, FS_CardinalityType
<1>2. \A s \in S : m(s) \in Nat /\ m(s) <= n
  BY AppPoolAssumption, FS_CardinalityType, FS_Subset DEF Occupants
<1>3. MaxSessions + 1 \in Nat
  BY AppPoolAssumption
<1> HIDE DEF n, m
<1>4. ASSUME NEW s \in S PROVE Rank(s) \in Nat
  <2>1. n - m(s) \in Nat /\ n + 1 \in Nat
    BY <1>1, <1>2
  <2>2. (n - m(s)) * (MaxSessions + 1) \in Nat /\ (n + 1) * (MaxSessions + 1) \in Nat
    BY <1>3, <2>1
  <2>3. s \in Nat
    BY Numbers
  <2>4. QED
    BY <2>2, <2>3
<1> HIDE DEF Rank
<1>5. PICK r \in ranks : \A x \in ranks : r <= x
  <2>1. ranks \subseteq Nat /\ ranks # {}
    BY <1>4
  <2>2. QED
    BY <2>1, Least
<1>6. \E s \in S : \A t \in S : Rank(s) <= Rank(t)
  BY <1>5
<1>7. Preferred(p, S) = CHOOSE s \in S : \A t \in S : Rank(s) <= Rank(t)
  BY DEF Preferred, Rank, n, m
<1>8. QED
  BY <1>6, <1>7
-----------------------------------------------------------------------------
(* The invariants. *)

\* A request has a session from its routing on; the create saga and its undoing work on it.
Saga == {"boot", "record", "check", "run", "complete", "undobox", "undopool", "undorec"}
Fits(r) ==
    /\ r.pc \in {"idle", "sync", "route"} => r.s = 0
    /\ r.pc = "confirm" => r.own = "assign" \/ r.s # 0
    /\ r.pc \in Saga => r.s # 0
Shape == \A c \in Clients : Fits(req[c])

\* A session id is given out once, by one request, which alone records and checks it.
Early == {"confirm", "terminate", "invalidate", "destroy", "boot", "record", "check"}
OwnerInv ==
    /\ \A s \in Sessions : pin[s] = 0 => s \notin Members(pool) /\ s \notin checked
    /\ \A c \in Clients : req[c].s # 0 =>
         /\ pin[req[c].s] # 0
         /\ \A d \in Clients : d # c => req[d].s # req[c].s
         /\ req[c].pc \in Early => req[c].s \notin checked

\* Versions are written in order, and the last one is the head.
HeadInv ==
    /\ ver[source] = "kept"
    /\ \A v \in Versions : ver[v] # "none" <=> v <= source

\* What is pruned, or about to be, is not above the cutoff, and older than the head.
PruneInv ==
    /\ \A v \in Versions : ver[v] = "pruned" => v <= cutoff
    /\ \A w \in Savers : saver[w].pc \in {"scan", "pool", "delete"} =>
        \A v \in saver[w].cand : v < source /\ v <= cutoff

\* What a save has read of the sessions and the pool protects all that could run on.
ProtInv ==
    \A w \in Savers, s \in Sessions : pin[s] \in saver[w].cand \ saver[w].prot =>
        /\ saver[w].pc = "delete" => s \notin Members(pool)
        /\ saver[w].pc \in {"pool", "delete"} => ~(s \in checked /\ rec[s] \in Present)

\* A member that the sweep has marked is never in use again.
MarkInv ==
    /\ sweep.pc # "idle" => sweep.todo # {}
    /\ \A s \in sweep.todo : pin[s] # 0
    /\ sweep.pc \in {"read", "missing", "destroy", "remove"} => pool.st[Candidate] \in {"retiring", "none"}

AppInv == Shape /\ OwnerInv /\ HeadInv /\ PruneInv /\ ProtInv /\ VersionKept /\ MarkInv

-----------------------------------------------------------------------------
(* What a step of a client may do. *)

\* No session is reserved or checked, no member joins, and no session comes to life.
Fades ==
    /\ UNCHANGED <<pin, checked>> /\ Shrinks(pool, pool')
    /\ rec' \in [Sessions -> Statuses]
    /\ \A s \in Sessions : rec'[s] \in Present => rec[s] \in Present

ClockTyped == late' \subseteq Sessions /\ due' \subseteq Sessions /\ lapsed' \subseteq Visitors
Typed == ClockTyped /\ box' \in [Sessions -> Boxes] /\ events' \in 0..MaxEvents

\* The request of c stays with its session or leaves it.
Continues(c) ==
    \E r \in Requests :
        /\ req' = [req EXCEPT ![c] = r] /\ Fits(r)
        /\ r.s # 0 => r.s = req[c].s /\ (r.pc \in Early => req[c].pc \in Early)

Moves(c) == Fades /\ Typed /\ Continues(c) /\ UNCHANGED <<versions, sweep>>

Reserves(c) ==
    /\ Typed /\ UNCHANGED <<versions, rec, checked, sweep>>
    /\ \E s \in Sessions, r \in Requests :
         /\ pin[s] = 0 /\ pin' = [pin EXCEPT ![s] = source]
         /\ pool' \in Pools
         /\ \A t \in Sessions : t # s =>
              /\ pool.st[t] = "none" => pool'.st[t] = "none"
              /\ pool.st[t] = "retiring" => pool'.st[t] \in {"retiring", "none"}
         /\ req' = [req EXCEPT ![c] = r] /\ r.s = s /\ r.pc = "confirm"

Records(c) ==
    /\ Typed /\ Continues(c) /\ UNCHANGED <<versions, pool, pin, checked, sweep>>
    /\ req[c].pc = "record" /\ rec' = [rec EXCEPT ![req[c].s] = "starting"]

Checks(c) ==
    /\ Typed /\ UNCHANGED <<versions, pool, pin, rec, sweep>>
    /\ req[c].pc = "check" /\ pin[req[c].s] > cutoff /\ checked' = checked \union {req[c].s}
    /\ \E r \in Requests : req' = [req EXCEPT ![c] = r] /\ r.s = req[c].s /\ r.pc = "run"

LEMMA TypedSame ==
    ASSUME TypeOK, UNCHANGED <<box, clock, events>>
    PROVE  Typed
  BY Types DEF Typed, clock, ClockTyped

LEMMA EventTyped ==
    ASSUME TypeOK, Event
    PROVE  events' \in 0..MaxEvents
  BY Types, AppPoolAssumption DEF Event

LEMMA KeepTyped ==
    ASSUME TypeOK, Keep
    PROVE  pool' = pool /\ ClockTyped
  BY Types DEF Keep, ClockTyped, clock

LEMMA PutMeans ==
    ASSUME TypeOK, NEW p, NEW fresh, Put(p, fresh)
    PROVE  pool' = p /\ ClockTyped
<1>1. due' \subseteq due /\ late' \subseteq late /\ lapsed' \subseteq lapsed
  BY DEF Put
<1>2. QED
  BY <1>1, Types DEF Put, ClockTyped

LEMMA FadesSame ==
    ASSUME TypeOK, UNCHANGED <<pool, pin, rec, checked>>
    PROVE  Fades
  BY Types, ShrinksItself DEF Fades

LEMMA FadesPool ==
    ASSUME TypeOK, Shrinks(pool, pool'), UNCHANGED <<pin, rec, checked>>
    PROVE  Fades
  BY Types DEF Fades

LEMMA FadesRecord ==
    ASSUME TypeOK, UNCHANGED <<pool, pin, checked>>, NEW s, NEW x, rec' = [rec EXCEPT ![s] = x],
           s \in Sessions => x \in Statuses /\ (x \in Present => rec[s] \in Present)
    PROVE  Fades
  BY Types, ShrinksItself DEF Fades

LEMMA GotoContinues ==
    ASSUME TypeOK, NEW c \in Clients, NEW step \in RequestSteps \ {"confirm"}, Goto(c, step),
           step \in Saga => req[c].s # 0, step \in {"sync", "route"} => req[c].s = 0,
           step \in Early => req[c].pc \in Early
    PROVE  Continues(c)
<1>1. req[c] \in Requests
  BY Types
<1>2. CASE step = "idle"
  <2>1. req' = [req EXCEPT ![c] = NoRequest]
    BY <1>2 DEF Goto
  <2>2. Fits(NoRequest)
    BY Defaults DEF Fits, Saga
  <2>3. QED
    BY <2>1, <2>2, Defaults DEF Continues
<1>3. CASE step # "idle"
  <2> DEFINE r == [req[c] EXCEPT !.pc = step]
  <2>1. req' = [req EXCEPT ![c] = r]
    BY <1>3 DEF Goto
  <2>2. r \in Requests /\ r.pc = step /\ r.s = req[c].s
    BY <1>1 DEF Requests
  <2> HIDE DEF r
  <2>3. Fits(r)
    BY <1>3, <2>2 DEF Fits
  <2>4. QED
    BY <2>1, <2>2, <2>3 DEF Continues
<1>4. QED
  BY <1>2, <1>3

LEMMA AskMoves ==
    ASSUME TypeOK, NEW c \in Clients, NEW r \in Requests, Ask(c, r), r.s = 0,
           r.pc \in {"sync", "terminate"}
    PROVE  Moves(c)
<1>1. Fades
  BY FadesSame DEF Ask, runtime
<1>2. Typed
  BY EventTyped, Types DEF Typed, Ask, runtime, clock, ClockTyped
<1>3. Continues(c)
  BY DEF Continues, Ask, Fits, Saga
<1>4. QED
  BY <1>1, <1>2, <1>3 DEF Moves, Ask

LEMMA OpenMoves == ASSUME TypeOK, NEW u \in Visitors, Open(u) PROVE Moves(u)
<1> DEFINE r == [NoRequest EXCEPT !.pc = "sync", !.v = source]
<1>1. r \in Requests /\ r.s = 0 /\ r.pc = "sync"
  BY Types, Numbers DEF NoRequest, Requests, RequestSteps
<1>2. Ask(u, r)
  BY DEF Open
<1>3. QED
  BY <1>1, <1>2, AskMoves DEF Clients

LEMMA RestartMoves == ASSUME TypeOK, NEW a \in Admins, NEW s \in Sessions, Restart(a, s) PROVE Moves(a)
<1> DEFINE r == [NoRequest EXCEPT !.pc = "sync", !.v = source, !.old = s]
<1>1. r \in Requests /\ r.s = 0 /\ r.pc = "sync"
  BY Types, Numbers DEF NoRequest, Requests, RequestSteps
<1>2. Ask(a, r)
  BY DEF Restart
<1>3. QED
  BY <1>1, <1>2, AskMoves DEF Clients

LEMMA StopMoves == ASSUME TypeOK, NEW a \in Admins, NEW s \in Sessions, Stop(a, s) PROVE Moves(a)
<1> DEFINE r == [NoRequest EXCEPT !.pc = "terminate", !.old = s]
<1>1. r \in Requests /\ r.s = 0 /\ r.pc = "terminate"
  BY Types, Numbers DEF NoRequest, Requests, RequestSteps
<1>2. Ask(a, r)
  BY DEF Stop
<1>3. QED
  BY <1>1, <1>2, AskMoves DEF Clients

LEMMA SynchronizeMoves == ASSUME TypeOK, Shape, NEW c \in Clients, Synchronize(c) PROVE Moves(c)
<1>1. pool \in Pools
  BY Types
<1>2. pool' = synchronize(pool) /\ ClockTyped
  BY PutMeans DEF Synchronize
<1>3. Fades
  BY <1>1, <1>2, SynchronizeShrinks, FadesPool DEF Synchronize, runtime
<1>4. Typed
  BY <1>2, Types DEF Typed, Synchronize, runtime
<1>5. Continues(c)
  BY GotoContinues DEF Synchronize, RequestSteps, Saga, Early, Shape, Fits, At
<1>6. QED
  BY <1>3, <1>4, <1>5 DEF Moves, Synchronize

\* The pool as routing finds it.
LEMMA RoutedPool ==
    ASSUME TypeOK, NEW v \in 0..MaxVersions, NEW p, p = observeVersion(expireAppPresence(pool), v)
    PROVE  /\ Shrinks(pool, p) /\ p \in Pools
           /\ \A u \in Visitors : Held(pool, u) => p.asg[u] = pool.asg[u]
<1> DEFINE q == expireAppPresence(pool)
<1>1. Shrinks(pool, q) /\ \A u \in Visitors : Held(pool, u) => q.asg[u] = pool.asg[u]
  BY Types, ExpireShrinks, ExpireHolds
<1>2. q \in Pools
  BY <1>1 DEF Shrinks
<1>3. p = observeVersion(q, v)
  OBVIOUS
<1> HIDE DEF q
<1>4. Shrinks(q, p) /\ p.asg = q.asg
  BY <1>2, <1>3, ObserveShrinks
<1>5. QED
  BY <1>1, <1>4, ShrinksFurther DEF Shrinks

LEMMA RouteEffect == ASSUME TypeOK, Shape, NEW u \in Clients, Route(u) PROVE Moves(u) \/ Reserves(u)
<1> DEFINE v == req[u].v
           p == observeVersion(expireAppPresence(pool), v)
<1>0. /\ At(u, "route") /\ u \in Visitors
      /\ UNCHANGED <<versions, rec, checked, box, sweep, events>>
  BY DEF Route
<1>1. req[u] \in Requests /\ v \in 0..MaxVersions
  BY Types DEF Requests
<1>2. Shrinks(pool, p) /\ p \in Pools
  BY <1>1, RoutedPool
<1>3. ASSUME ClockTyped PROVE Typed
  BY <1>0, <1>3, Types DEF Typed
<1>4. ASSUME Goto(u, "idle") PROVE Continues(u)
  BY <1>4, GotoContinues DEF RequestSteps, Saga, Early
<1>5. CASE pool.deleted \/ source # v
  <2>1. Goto(u, "idle") /\ Keep /\ UNCHANGED pin
    BY <1>5 DEF Route
  <2>2. Fades
    BY <1>0, <2>1, KeepTyped, FadesSame
  <2>3. QED
    BY <1>0, <1>3, <1>4, <2>1, <2>2, KeepTyped DEF Moves
<1>6. CASE ~(pool.deleted \/ source # v)
  <2>0. \/ Put(p, {u}) /\ Goto(u, "idle") /\ UNCHANGED pin
        \/ Put(p, {}) /\ Goto(u, "idle") /\ UNCHANGED pin
        \/ /\ WithRoom(p, v) # {}
           /\ Put([p EXCEPT !.asg[u] = Preferred(p, WithRoom(p, v)),
                            !.idle = @ \ {Preferred(p, WithRoom(p, v))}], {u})
           /\ req' = [req EXCEPT ![u].pc = "confirm", ![u].own = "assign"]
           /\ UNCHANGED pin
        \/ /\ Unused # {}
           /\ Put([Reserve(p, NextSession, 0) EXCEPT !.asg[u] = NextSession], {u})
           /\ req' = [req EXCEPT ![u].pc = "confirm", ![u].own = "reserve", ![u].s = NextSession]
           /\ pin' = [pin EXCEPT ![NextSession] = v]
    BY <1>6 DEF Route
  <2>1. CASE (Put(p, {u}) \/ Put(p, {})) /\ Goto(u, "idle") /\ UNCHANGED pin
    <3>1. pool' = p /\ ClockTyped
      BY <2>1, PutMeans
    <3>2. Fades
      BY <1>0, <1>2, <2>1, <3>1, FadesPool
    <3>3. QED
      BY <1>0, <1>3, <1>4, <2>1, <3>1, <3>2 DEF Moves
  <2>2. CASE /\ WithRoom(p, v) # {}
             /\ Put([p EXCEPT !.asg[u] = Preferred(p, WithRoom(p, v)),
                              !.idle = @ \ {Preferred(p, WithRoom(p, v))}], {u})
             /\ req' = [req EXCEPT ![u].pc = "confirm", ![u].own = "assign"]
             /\ UNCHANGED pin
    <3> DEFINE s == Preferred(p, WithRoom(p, v))
               q == [p EXCEPT !.asg[u] = s, !.idle = @ \ {s}]
               r == [req[u] EXCEPT !.pc = "confirm", !.own = "assign"]
    <3>1. WithRoom(p, v) \subseteq Sessions
      BY DEF WithRoom, currentVersionMembers
    <3>2. s \in 0..MaxSessions
      BY <1>2, <2>2, <3>1, PreferredIs, Numbers
    <3>3. pool' = q /\ ClockTyped
      BY <2>2, PutMeans
    <3>4. r \in Requests /\ r.pc = "confirm" /\ r.own = "assign" /\ r.s = req[u].s
      BY <1>1 DEF Requests, RequestSteps
    <3>5. req' = [req EXCEPT ![u] = r]
      BY <2>2, <1>0, Types
    <3> HIDE DEF s, r, p
    <3>6. Shrinks(p, q)
      <4> DEFINE asg == [p.asg EXCEPT ![u] = s]
      <4>1. asg \in [Visitors -> 0..MaxSessions] /\ p.idle \ {s} \subseteq Sessions
        BY <1>2, <3>2, Fields
      <4>2. q = [p EXCEPT !.asg = asg, !.idle = p.idle \ {s}]
        BY <1>2, Fields DEF Pools
      <4> HIDE DEF asg, q
      <4>3. q \in Pools /\ q.st = p.st
        BY <1>2, <4>1, <4>2 DEF Pools
      <4>4. QED
        BY <4>3 DEF Shrinks
    <3>7. Fades
      BY <1>0, <1>2, <2>2, <3>3, <3>6, ShrinksFurther, FadesPool
    <3>8. Continues(u)
      <4>1. req[u].s = 0
        BY <1>0 DEF Shape, Fits, At
      <4>2. QED
        BY <3>4, <3>5, <4>1 DEF Continues, Fits, Saga
    <3>9. QED
      BY <1>0, <1>3, <3>3, <3>7, <3>8 DEF Moves
  <2>3. CASE /\ Unused # {}
             /\ Put([Reserve(p, NextSession, 0) EXCEPT !.asg[u] = NextSession], {u})
             /\ req' = [req EXCEPT ![u].pc = "confirm", ![u].own = "reserve", ![u].s = NextSession]
             /\ pin' = [pin EXCEPT ![NextSession] = v]
    <3> DEFINE s == NextSession
               q == [Reserve(p, s, 0) EXCEPT !.asg[u] = s]
               r == [req[u] EXCEPT !.pc = "confirm", !.own = "reserve", !.s = s]
    <3>1. s \in Sessions /\ pin[s] = 0 /\ s \in 0..MaxSessions
      BY <2>3, NextSessionIs, Numbers
    <3>2. pool' = q /\ ClockTyped
      BY <2>3, PutMeans
    <3>3. req' = [req EXCEPT ![u] = r]
      BY <2>3, <1>0, Types
    <3>4. pin' = [pin EXCEPT ![s] = source]
      BY <1>6, <2>3
    <3> HIDE DEF s, p
    <3>5. r \in Requests /\ r.pc = "confirm" /\ r.s = s
      BY <1>1, <3>1 DEF Requests, RequestSteps
    <3>6. q \in Pools /\ \A t \in Sessions : q.st[t] = IF t = s THEN "starting" ELSE p.st[t]
      <4> DEFINE k == Reserve(p, s, 0)
      <4>1. k \in Pools /\ \A t \in Sessions : k.st[t] = IF t = s THEN "starting" ELSE p.st[t]
        BY <1>2, <3>1, Numbers, ReserveMeans
      <4> HIDE DEF k
      <4>2. q = [k EXCEPT !.asg[u] = s]
        BY DEF k
      <4> HIDE DEF q
      <4>3. Shrinks(k, q) /\ q.st = k.st
        BY <3>1, <4>1, <4>2, AssignMeans DEF Pools
      <4>4. QED
        BY <4>1, <4>3 DEF Shrinks
    <3> HIDE DEF r, q
    <3>7. \A t \in Sessions : t # s =>
            /\ pool.st[t] = "none" => pool'.st[t] = "none"
            /\ pool.st[t] = "retiring" => pool'.st[t] \in {"retiring", "none"}
      BY <1>2, <3>2, <3>6 DEF Shrinks
    <3>8. Typed
      BY <1>3, <3>2
    <3>9. Reserves(u)
      BY <1>0, <3>1, <3>2, <3>3, <3>4, <3>5, <3>6, <3>7, <3>8 DEF Reserves
    <3>10. QED
      BY <3>9
  <2>4. QED
    BY <2>0, <2>1, <2>2, <2>3
<1>7. QED
  BY <1>5, <1>6

LEMMA RouteRestartEffect ==
    ASSUME TypeOK, NEW a \in Clients, RouteRestart(a)
    PROVE  Moves(a) \/ Reserves(a)
<1> DEFINE v == req[a].v
           old == req[a].old
           p == observeVersion(expireAppPresence(pool), v)
<1>0. At(a, "route") /\ UNCHANGED <<versions, rec, checked, box, sweep, events>>
  BY DEF RouteRestart
<1>1. req[a] \in Requests /\ v \in 0..MaxVersions /\ old \in 0..MaxSessions
  BY Types DEF Requests
<1>2. Shrinks(pool, p) /\ p \in Pools
  BY <1>1, RoutedPool
<1>3. ASSUME ClockTyped PROVE Typed
  BY <1>0, <1>3, Types DEF Typed
<1>4. ASSUME Goto(a, "idle") PROVE Continues(a)
  BY <1>4, GotoContinues DEF RequestSteps, Saga, Early
<1>5. CASE pool.deleted \/ source # v
  <2>1. Goto(a, "idle") /\ Keep /\ UNCHANGED pin
    BY <1>5 DEF RouteRestart
  <2>2. Fades
    BY <1>0, <2>1, KeepTyped, FadesSame
  <2>3. QED
    BY <1>0, <1>3, <1>4, <2>1, <2>2, KeepTyped DEF Moves
<1>6. CASE ~(pool.deleted \/ source # v)
  <2>0. \/ Put(p, {}) /\ Goto(a, "idle") /\ UNCHANGED pin
        \/ /\ Unused # {} /\ Put(Reserve(p, NextSession, old), {})
           /\ req' = [req EXCEPT ![a].pc = "confirm", ![a].own = "reserve", ![a].s = NextSession]
           /\ pin' = [pin EXCEPT ![NextSession] = v]
    BY <1>6 DEF RouteRestart
  <2>1. CASE Put(p, {}) /\ Goto(a, "idle") /\ UNCHANGED pin
    <3>1. pool' = p /\ ClockTyped
      BY <2>1, PutMeans
    <3>2. Fades
      BY <1>0, <1>2, <2>1, <3>1, FadesPool
    <3>3. QED
      BY <1>0, <1>3, <1>4, <2>1, <3>1, <3>2 DEF Moves
  <2>2. CASE /\ Unused # {} /\ Put(Reserve(p, NextSession, old), {})
             /\ req' = [req EXCEPT ![a].pc = "confirm", ![a].own = "reserve", ![a].s = NextSession]
             /\ pin' = [pin EXCEPT ![NextSession] = v]
    <3> DEFINE s == NextSession
               q == Reserve(p, s, old)
               r == [req[a] EXCEPT !.pc = "confirm", !.own = "reserve", !.s = s]
    <3>1. s \in Sessions /\ pin[s] = 0 /\ s \in 0..MaxSessions
      BY <2>2, NextSessionIs, Numbers
    <3>2. pool' = q /\ ClockTyped
      BY <2>2, PutMeans
    <3>3. req' = [req EXCEPT ![a] = r]
      BY <2>2, <1>0, Types
    <3>4. pin' = [pin EXCEPT ![s] = source]
      BY <1>6, <2>2
    <3> HIDE DEF s, p
    <3>5. r \in Requests /\ r.pc = "confirm" /\ r.s = s
      BY <1>1, <3>1 DEF Requests, RequestSteps
    <3> HIDE DEF old
    <3>6. q \in Pools /\ \A t \in Sessions : q.st[t] = IF t = s THEN "starting" ELSE p.st[t]
      BY <1>1, <1>2, <3>1, ReserveMeans
    <3> HIDE DEF r, q
    <3>7. \A t \in Sessions : t # s =>
            /\ pool.st[t] = "none" => pool'.st[t] = "none"
            /\ pool.st[t] = "retiring" => pool'.st[t] \in {"retiring", "none"}
      BY <1>2, <3>2, <3>6 DEF Shrinks
    <3>8. Typed
      BY <1>3, <3>2
    <3>9. Reserves(a)
      BY <1>0, <3>1, <3>2, <3>3, <3>4, <3>5, <3>6, <3>7, <3>8 DEF Reserves
    <3>10. QED
      BY <3>9
  <2>3. QED
    BY <2>0, <2>1, <2>2
<1>7. QED
  BY <1>5, <1>6

LEMMA ConfirmMoves == ASSUME TypeOK, Shape, NEW c \in Clients, Confirm(c) PROVE Moves(c)
<1>0. At(c, "confirm") /\ UNCHANGED <<versions, runtime, sweep, events>> /\ pool \in Pools
  BY Types DEF Confirm
<1>1. ASSUME ClockTyped PROVE Typed
  BY <1>0, <1>1, Types DEF Typed, runtime
<1>2. CASE source = req[c].v
  <2> DEFINE step == IF req[c].own = "assign" THEN "idle"
                     ELSE IF req[c].old = 0 THEN "boot" ELSE "terminate"
  <2>1. Keep /\ Goto(c, step)
    BY <1>2 DEF Confirm
  <2>2. step \in {"idle", "boot", "terminate"} /\ (step # "idle" => req[c].own # "assign")
    OBVIOUS
  <2> HIDE DEF step
  <2>3. Continues(c)
    BY <1>0, <2>1, <2>2, GotoContinues DEF RequestSteps, Saga, Early, Shape, Fits, At
  <2>4. Fades
    BY <1>0, <2>1, KeepTyped, FadesSame DEF runtime
  <2>5. QED
    BY <1>0, <1>1, <2>1, <2>3, <2>4, KeepTyped DEF Moves
<1>3. CASE source # req[c].v
  <2> DEFINE q == [pool EXCEPT !.asg[c] = 0]
             p == IF req[c].own = "reserve" THEN releaseReservation(pool, req[c].s)
                  ELSE expireAppPresence(q)
  <2>1. Put(p, {}) /\ Goto(c, "idle")
    BY <1>3 DEF Confirm
  <2>2. Shrinks(pool, releaseReservation(pool, req[c].s))
    BY <1>0, ReleaseShrinks
  <2>3. Shrinks(pool, q)
    BY <1>0, Numbers, AssignMeans DEF Pools
  <2> HIDE DEF q
  <2>4. Shrinks(q, expireAppPresence(q))
    BY <2>3, ExpireShrinks DEF Shrinks
  <2>5. Shrinks(pool, p)
    BY <2>2, <2>3, <2>4, ShrinksFurther
  <2> HIDE DEF p
  <2>6. pool' = p /\ ClockTyped
    BY <2>1, PutMeans
  <2>7. Continues(c)
    BY <2>1, GotoContinues DEF RequestSteps, Saga, Early
  <2>8. Fades
    BY <1>0, <2>5, <2>6, FadesPool DEF runtime
  <2>9. QED
    BY <1>0, <1>1, <2>6, <2>7, <2>8 DEF Moves
<1>4. QED
  BY <1>2, <1>3

LEMMA TerminateMoves == ASSUME TypeOK, Shape, NEW c \in Clients, Terminate(c) PROVE Moves(c)
<1> DEFINE old == req[c].old
           x == IF rec[old] \in {"starting", "running"} THEN "terminating" ELSE rec[old]
           tear == rec[old] # "terminating"
           r == [req[c] EXCEPT !.pc = "invalidate", !.tear = tear]
<1>1. /\ At(c, "terminate") /\ rec' = [rec EXCEPT ![old] = x] /\ req' = [req EXCEPT ![c] = r]
      /\ UNCHANGED <<versions, pool, pin, checked, box, sweep, clock, events>>
  BY Types DEF Terminate
<1>2. old \in Sessions => x \in Statuses /\ (x \in Present => rec[old] \in Present)
  BY Types DEF Statuses, Present, Over
<1>3. tear \in BOOLEAN /\ req[c] \in Requests
  BY Types
<1> HIDE DEF x, tear
<1>4. Fades
  BY <1>1, <1>2, FadesRecord
<1>5. r \in Requests /\ r.pc = "invalidate" /\ r.s = req[c].s
  BY <1>3 DEF Requests, RequestSteps
<1> HIDE DEF r
<1>6. Continues(c)
  BY <1>1, <1>5 DEF Continues, Fits, Saga, Early, At
<1>7. QED
  BY <1>1, <1>4, <1>6, TypedSame DEF Moves

LEMMA InvalidateOldMoves == ASSUME TypeOK, Shape, NEW c \in Clients, InvalidateOld(c) PROVE Moves(c)
<1>1. pool' = invalidate(pool, req[c].old) /\ ClockTyped
  BY PutMeans DEF InvalidateOld
<1>2. Fades
  BY <1>1, Types, InvalidateShrinks, FadesPool DEF InvalidateOld, runtime
<1>3. Typed
  BY <1>1, Types DEF Typed, InvalidateOld, runtime
<1>4. Continues(c)
  BY GotoContinues DEF InvalidateOld, RequestSteps, Saga, Early, At
<1>5. QED
  BY <1>2, <1>3, <1>4 DEF Moves, InvalidateOld

LEMMA TearDownFades ==
    ASSUME TypeOK, NEW c \in Clients, TearDown(c), UNCHANGED <<pool, pin, checked>>
    PROVE  Fades /\ box' \in [Sessions -> Boxes]
<1>1. CASE req[c].tear
  <2>1. rec' = [rec EXCEPT ![req[c].old] = "ended"] /\ box' = [box EXCEPT ![req[c].old] = "down"]
    BY <1>1 DEF TearDown
  <2>2. Fades
    BY <2>1, FadesRecord DEF Statuses, Present, Over
  <2>3. QED
    BY <2>1, <2>2, Types DEF Boxes, Standing
<1>2. CASE ~req[c].tear
  BY <1>2, FadesSame, Types DEF TearDown
<1>3. QED
  BY <1>1, <1>2

LEMMA DestroyOldMoves == ASSUME TypeOK, Shape, NEW c \in Clients, DestroyOld(c) PROVE Moves(c)
<1> DEFINE step == CASE req[c].s = 0 -> "idle"
                     [] req[c].s # 0 /\ box'[req[c].old] = "down" -> "boot"
                     [] OTHER -> "undopool"
<1>1. /\ At(c, "destroy") /\ TearDown(c) /\ Goto(c, step)
      /\ UNCHANGED <<versions, pool, pin, checked, sweep, clock, events>>
  BY DEF DestroyOld
<1>2. step \in {"idle", "boot", "undopool"} /\ (step # "idle" => req[c].s # 0)
  OBVIOUS
<1> HIDE DEF step
<1>3. Continues(c)
  BY <1>1, <1>2, GotoContinues DEF RequestSteps, Saga, Early, At
<1>4. Fades /\ box' \in [Sessions -> Boxes]
  BY <1>1, TearDownFades
<1>5. Typed
  BY <1>1, <1>4, Types DEF Typed, clock, ClockTyped
<1>6. QED
  BY <1>1, <1>3, <1>4, <1>5 DEF Moves

LEMMA BootMoves == ASSUME TypeOK, Shape, NEW c \in Clients, Boot(c) PROVE Moves(c)
<1>1. Typed
  BY Types DEF Boxes, Standing, Typed, Boot, clock, ClockTyped
<1>2. Fades
  BY FadesSame DEF Boot
<1>3. Continues(c)
  BY GotoContinues DEF Boot, RequestSteps, Saga, Early, Shape, Fits, At
<1>4. QED
  BY <1>1, <1>2, <1>3 DEF Moves, Boot

\* A request that attempts the record of its session.
LEMMA RecordContinues ==
    ASSUME TypeOK, Shape, NEW c \in Clients, At(c, "record"), NEW step \in {"check", "undobox"},
           req' = [req EXCEPT ![c].pc = step, ![c].own = "record"]
    PROVE  Continues(c)
<1> DEFINE r == [req[c] EXCEPT !.pc = step, !.own = "record"]
<1>1. req' = [req EXCEPT ![c] = r] /\ req[c] \in Requests
  BY Types
<1>2. r \in Requests /\ r.pc = step /\ r.s = req[c].s
  BY <1>1 DEF Requests, RequestSteps
<1> HIDE DEF r
<1>3. req[c].s # 0 /\ req[c].pc \in Early
  BY DEF Shape, Fits, At, Saga, Early
<1>4. QED
  BY <1>1, <1>2, <1>3 DEF Continues, Fits, Saga

LEMMA RecordEffect == ASSUME TypeOK, Shape, NEW c \in Clients, Record(c) PROVE Records(c)
<1>1. Typed
  BY TypedSame DEF Record
<1>2. Continues(c)
  BY RecordContinues DEF Record
<1>3. QED
  BY <1>1, <1>2 DEF Records, Record, At

LEMMA CheckEffect == ASSUME TypeOK, Shape, NEW c \in Clients, Check(c) PROVE Moves(c) \/ Checks(c)
<1> DEFINE s == req[c].s
           x == IF rec[s] = "starting" THEN "ended" ELSE rec[s]
<1>0. At(c, "check") /\ UNCHANGED <<versions, pool, pin, box, sweep, clock, events>>
  BY DEF Check
<1>1. s # 0 /\ req[c].pc = "check" /\ req[c] \in Requests
  BY <1>0, Types DEF Shape, Fits, At, Saga
<1>2. CASE pin[s] > cutoff
  <2> DEFINE r == [req[c] EXCEPT !.pc = "run"]
  <2>1. checked' = checked \union {s} /\ rec' = rec /\ req' = [req EXCEPT ![c] = r]
    BY <1>2, Types DEF Check, AboveCutoff, Goto
  <2>2. r \in Requests /\ r.pc = "run" /\ r.s = s
    BY <1>1 DEF Requests, RequestSteps
  <2> HIDE DEF r
  <2>3. QED
    BY <1>0, <1>1, <1>2, <2>1, <2>2, TypedSame DEF Checks
<1>3. CASE ~(pin[s] > cutoff)
  <2>1. rec' = [rec EXCEPT ![s] = x] /\ Goto(c, "undobox") /\ checked' = checked
    BY <1>3, Types DEF Check, AboveCutoff
  <2>2. s \in Sessions => x \in Statuses /\ (x \in Present => rec[s] \in Present)
    BY Types DEF Statuses, Present, Over
  <2> HIDE DEF x
  <2>3. Fades
    BY <1>0, <2>1, <2>2, FadesRecord
  <2>4. Continues(c)
    BY <1>1, <2>1, GotoContinues DEF RequestSteps, Saga, Early
  <2>5. QED
    BY <1>0, <2>3, <2>4, TypedSame DEF Moves
<1>4. QED
  BY <1>2, <1>3

LEMMA ProvisionedTyped ==
    ASSUME TypeOK, NEW s PROVE Provisioned(s) \in [Sessions -> Boxes]
  BY Types DEF Provisioned, Boxes, Standing

LEMMA RunMoves == ASSUME TypeOK, Shape, NEW c \in Clients, Run(c) PROVE Moves(c)
<1> DEFINE s == req[c].s
           x == IF rec[s] = "starting" THEN "running" ELSE rec[s]
           step == IF rec'[s] = "running" /\ ~pool.deleted THEN "complete" ELSE "undobox"
<1>1. /\ At(c, "run") /\ rec' = [rec EXCEPT ![s] = x] /\ Goto(c, step)
      /\ box' = Provisioned(s)
      /\ UNCHANGED <<versions, pool, pin, checked, sweep, clock, events>>
  BY DEF Run
<1>2. s \in Sessions => x \in Statuses /\ (x \in Present => rec[s] \in Present)
  BY Types DEF Statuses, Present, Over
<1>3. step \in {"complete", "undobox"} /\ s # 0
  BY <1>1 DEF Shape, Fits, At, Saga
<1> HIDE DEF x, step
<1>4. Fades
  BY <1>1, <1>2, FadesRecord
<1>5. Continues(c)
  BY <1>1, <1>3, GotoContinues DEF RequestSteps, Saga, Early
<1>6. QED
  <2>1. Typed
    BY <1>1, ProvisionedTyped, Types DEF Typed, ClockTyped, clock
  <2>2. QED
    BY <1>1, <1>4, <1>5, <2>1 DEF Moves

\* A client that goes on to the undoing of its session.
LEMMA SagaGoto ==
    ASSUME TypeOK, Shape, NEW c \in Clients, req[c].pc \in Saga,
           NEW step \in {"idle", "undobox", "undopool", "undorec"}, Goto(c, step)
    PROVE  Continues(c)
  BY GotoContinues DEF RequestSteps, Saga, Early, Shape, Fits

LEMMA CompletePool ==
    ASSUME TypeOK, NEW s, UNCHANGED <<pin, rec, checked>>,
           Keep \/ (InTime(s) /\ Put(Completed(pool, s), {}))
    PROVE  Fades /\ ClockTyped
<1>1. CASE Keep
  BY <1>1, KeepTyped, FadesSame
<1>2. CASE InTime(s) /\ Put(Completed(pool, s), {})
  BY <1>2, Types, PutMeans, CompletedShrinks, FadesPool DEF InTime
<1>3. QED
  BY <1>1, <1>2

LEMMA CompleteMoves == ASSUME TypeOK, Shape, NEW c \in Clients, Complete(c) PROVE Moves(c)
<1>1. Fades /\ ClockTyped
  BY CompletePool DEF Complete, runtime
<1>2. Typed
  BY <1>1, Types DEF Typed, Complete, runtime
<1>3. Continues(c)
  BY SagaGoto DEF Complete, Saga, At
<1>4. QED
  BY <1>1, <1>2, <1>3 DEF Moves, Complete

LEMMA FailEffect == ASSUME TypeOK, Shape, NEW c \in Clients, Fail(c) PROVE Moves(c) \/ Records(c)
<1> DEFINE s == req[c].s
           step == IF s = 0 THEN "idle" ELSE "undopool"
<1>0. events' \in 0..MaxEvents /\ UNCHANGED <<versions, pin, checked, sweep>>
  BY EventTyped DEF Fail
<1>1. ASSUME ClockTyped,
             box' \in [Sessions -> Boxes]
      PROVE  Typed
  BY <1>0, <1>1 DEF Typed
<1>2. CASE /\ At(c, "boot") /\ box' \in {box, [box EXCEPT ![s] = "up"]}
           /\ Goto(c, "undobox") /\ UNCHANGED rec /\ Keep
  <2>1. Fades
    BY <1>0, <1>2, KeepTyped, FadesSame
  <2>2. Typed
    BY <1>1, <1>2, KeepTyped, Types DEF Boxes, Standing
  <2>3. Continues(c)
    BY <1>2, SagaGoto DEF Saga, At
  <2>4. QED
    BY <1>0, <2>1, <2>2, <2>3 DEF Moves
<1>3. CASE /\ At(c, "record") /\ rec' \in {rec, [rec EXCEPT ![s] = "starting"]}
           /\ req' = [req EXCEPT ![c].pc = "undobox", ![c].own = "record"]
           /\ UNCHANGED box /\ Keep
  <2>1. Typed
    BY <1>1, <1>3, KeepTyped, Types
  <2>2. Continues(c)
    BY <1>3, RecordContinues
  <2>3. CASE rec' = rec
    BY <1>0, <1>3, <2>1, <2>2, <2>3, KeepTyped, FadesSame DEF Moves
  <2>4. CASE rec' = [rec EXCEPT ![s] = "starting"]
    BY <1>0, <1>3, <2>1, <2>2, <2>4, KeepTyped DEF Records, At
  <2>5. QED
    BY <1>3, <2>3, <2>4
<1>4. CASE /\ \/ /\ At(c, "check") /\ UNCHANGED box
                 /\ rec' \in {rec, [rec EXCEPT ![s] = IF @ = "starting" THEN "ended" ELSE @]}
              \/ /\ At(c, "run") /\ box' \in {box, Provisioned(s)} /\ UNCHANGED rec
              \/ /\ At(c, "run") /\ box' = Provisioned(s)
                 /\ rec' = [rec EXCEPT ![s] = IF @ = "starting" THEN "running" ELSE @]
           /\ Goto(c, "undobox") /\ Keep
  <2> DEFINE x == IF rec[s] = "starting" THEN "ended" ELSE rec[s]
             y == IF rec[s] = "starting" THEN "running" ELSE rec[s]
  <2>1. rec' = rec \/ rec' = [rec EXCEPT ![s] = x] \/ rec' = [rec EXCEPT ![s] = y]
    BY <1>4
  <2>2. s \in Sessions => /\ x \in Statuses /\ (x \in Present => rec[s] \in Present)
                          /\ y \in Statuses /\ (y \in Present => rec[s] \in Present)
    BY Types DEF Statuses, Present, Over
  <2> HIDE DEF x, y
  <2>3. Fades
    BY <1>0, <1>4, <2>1, <2>2, KeepTyped, FadesSame, FadesRecord
  <2>4. Typed
    BY <1>1, <1>4, KeepTyped, Types, ProvisionedTyped
  <2>5. Continues(c)
    BY <1>4, SagaGoto DEF Saga, At
  <2>6. QED
    BY <1>0, <2>3, <2>4, <2>5 DEF Moves
<1>5. CASE /\ At(c, "complete") /\ (Keep \/ (InTime(s) /\ Put(Completed(pool, s), {})))
           /\ Goto(c, "undobox") /\ UNCHANGED <<rec, box>>
  <2>1. Fades /\ ClockTyped
    BY <1>0, <1>5, CompletePool
  <2>2. Typed
    BY <1>1, <1>5, <2>1, Types
  <2>3. Continues(c)
    BY <1>5, SagaGoto DEF Saga, At
  <2>4. QED
    BY <1>0, <2>1, <2>2, <2>3 DEF Moves
<1>6. CASE /\ \/ req[c].pc \in {"terminate", "destroy"} /\ UNCHANGED <<rec, box>>
              \/ At(c, "invalidate") /\ TearDown(c)
           /\ Goto(c, step) /\ Keep
  <2>1. step \in {"idle", "undopool"} /\ (step # "idle" => s # 0)
    OBVIOUS
  <2> HIDE DEF step
  <2>2. Fades /\ box' \in [Sessions -> Boxes]
    BY <1>0, <1>6, KeepTyped, Types, FadesSame, TearDownFades
  <2>3. Typed
    BY <1>1, <1>6, <2>2, KeepTyped
  <2>4. Continues(c)
    BY <1>6, <2>1, GotoContinues DEF RequestSteps, Saga, Early
  <2>5. QED
    BY <1>0, <2>2, <2>3, <2>4 DEF Moves
<1>7. QED
  BY <1>2, <1>3, <1>4, <1>5, <1>6 DEF Fail

LEMMA UndoBoxMoves == ASSUME TypeOK, Shape, NEW c \in Clients, UndoBox(c) PROVE Moves(c)
<1>1. Fades
  BY FadesSame DEF UndoBox
<1>2. Typed
  BY Types DEF Boxes, Standing, Typed, UndoBox, clock, ClockTyped
<1>3. Continues(c)
  BY SagaGoto DEF UndoBox, Saga, At
<1>4. QED
  BY <1>1, <1>2, <1>3 DEF Moves, UndoBox

LEMMA UndoPoolMoves == ASSUME TypeOK, Shape, NEW c \in Clients, UndoPool(c) PROVE Moves(c)
<1> DEFINE p == IF req[c].own = "record" THEN invalidate(pool, req[c].s)
                                         ELSE releaseReservation(pool, req[c].s)
<1>1. pool' = p /\ ClockTyped
  BY PutMeans DEF UndoPool
<1>2. Shrinks(pool, p)
  BY Types, InvalidateShrinks, ReleaseShrinks
<1> HIDE DEF p
<1>3. Fades
  BY <1>1, <1>2, FadesPool DEF UndoPool, runtime
<1>4. Typed
  BY <1>1, Types DEF Typed, UndoPool, runtime
<1>5. Continues(c)
  BY SagaGoto DEF UndoPool, Saga, At
<1>6. QED
  BY <1>3, <1>4, <1>5 DEF Moves, UndoPool

LEMMA UndoRecordMoves == ASSUME TypeOK, Shape, NEW c \in Clients, UndoRecord(c) PROVE Moves(c)
<1> DEFINE s == req[c].s
           x == IF s \in checked /\ rec[s] \in {"starting", "running"} THEN "ended" ELSE rec[s]
<1>1. rec' = [rec EXCEPT ![s] = x] /\ UNCHANGED <<pool, pin, checked>>
  BY DEF UndoRecord
<1>2. s \in Sessions => x \in Statuses /\ (x \in Present => rec[s] \in Present)
  BY Types DEF Statuses, Present, Over
<1> HIDE DEF x
<1>3. Fades
  BY <1>1, <1>2, FadesRecord
<1>4. Continues(c)
  BY SagaGoto DEF UndoRecord, Saga, At
<1>5. QED
  BY <1>3, <1>4, TypedSame DEF Moves, UndoRecord

LEMMA UndoFailsMoves == ASSUME TypeOK, Shape, NEW c \in Clients, UndoFails(c) PROVE Moves(c)
<1>1. Fades
  BY FadesSame DEF UndoFails, runtime
<1>2. Typed
  BY EventTyped, Types DEF Typed, UndoFails, runtime, clock, ClockTyped
<1>3. Continues(c)
  BY SagaGoto DEF UndoFails, Saga, At
<1>4. QED
  BY <1>1, <1>2, <1>3 DEF Moves, UndoFails

LEMMA CrashMoves == ASSUME TypeOK, NEW c \in Clients, Crash(c) PROVE Moves(c)
<1>1. Fades
  BY FadesSame DEF Crash, runtime
<1>2. Typed
  BY EventTyped, Types DEF Typed, Crash, runtime, clock, ClockTyped
<1>3. Continues(c)
  BY GotoContinues DEF Crash, RequestSteps, Saga, Early
<1>4. QED
  BY <1>1, <1>2, <1>3 DEF Moves, Crash

-----------------------------------------------------------------------------
(* What a step of the sweep or another background pass may do. *)

Swept ==
    \/ UNCHANGED sweep
    \/ /\ sweep' \in Sweeps /\ sweep'.pc = "idle" /\ sweep'.todo = {}
    \/ /\ sweep' \in Sweeps /\ sweep'.pc = "mark" /\ sweep'.todo # {}
       /\ \A s \in sweep'.todo : pin[s] # 0
    \/ /\ sweep' \in Sweeps /\ sweep'.todo = sweep.todo /\ sweep.pc # "idle"
       /\ pool'.st[Candidate] \in {"retiring", "none"}

Passes == Fades /\ Typed /\ Swept /\ UNCHANGED <<versions, req>>

LEMMA PresencePasses == ASSUME TypeOK, NEW u \in Visitors, Presence(u) PROVE Passes
<1>1. pool' = expireAppPresence(pool) /\ ClockTyped
  BY PutMeans DEF Presence
<1>2. Fades
  BY <1>1, Types, ExpireShrinks, FadesPool DEF Presence, runtime
<1>3. Typed
  BY <1>1, Types DEF Typed, Presence, runtime
<1>4. QED
  BY <1>2, <1>3 DEF Passes, Swept, Presence

LEMMA LapsePasses == ASSUME TypeOK, NEW u \in Visitors, Lapse(u) PROVE Passes
<1>1. Fades
  BY FadesSame DEF Lapse, runtime
<1>2. Typed
  BY Types DEF Typed, ClockTyped, Lapse, runtime
<1>3. QED
  BY <1>1, <1>2 DEF Passes, Swept, Lapse

\* The steps that change a sandbox and nothing else.
BoxStep(s) == KernelUse(s) \/ ReapOrphan(s) \/ \E past \in BOOLEAN : Reclaim(s, past)

LEMMA BoxStepPasses == ASSUME TypeOK, NEW s \in Sessions, BoxStep(s) PROVE Passes
<1>1. /\ \E x \in Boxes : box' = [box EXCEPT ![s] = x]
      /\ UNCHANGED <<versions, pool, pin, rec, checked, req, sweep, clock, events>>
  BY DEF BoxStep, KernelUse, ReapOrphan, Reclaim, Boxes, Standing
<1>2. Typed
  BY <1>1, Types DEF Typed, clock, ClockTyped
<1>3. QED
  BY <1>1, <1>2, FadesSame DEF Passes, Swept

LEMMA PassingPasses == ASSUME TypeOK, NEW s \in Sessions, Passing(s) \/ BoxStep(s) PROVE Passes
<1>1. CASE Late(s)
  BY <1>1, FadesSame, Types DEF Passes, Typed, ClockTyped, Swept, Late, runtime
<1>2. CASE IdlePasses(s)
  BY <1>2, FadesSame, Types DEF Passes, Typed, ClockTyped, Swept, IdlePasses, runtime
<1>3. CASE expireStale(s)
  <2>1. Fades
    BY <1>3, FadesRecord DEF expireStale, Statuses, Present, Over
  <2>2. QED
    BY <1>3, <2>1, TypedSame DEF Passes, Swept, expireStale
<1>4. CASE BoxStep(s)
  BY <1>4, BoxStepPasses
<1>5. QED
  BY <1>1, <1>2, <1>3, <1>4 DEF Passing, BoxStep

LEMMA DeletionPasses == ASSUME TypeOK, retireForDeletion PROVE Passes
<1> DEFINE q == [Retired(pool, Members(pool)) EXCEPT !.deleted = TRUE, !.asg = [u \in Visitors |-> 0]]
<1>1. pool' = q /\ ClockTyped
  BY PutMeans DEF retireForDeletion
<1>2. Shrinks(pool, q)
  BY Types, DeletionShrinks
<1> HIDE DEF q
<1>3. Fades
  BY <1>1, <1>2, FadesPool DEF retireForDeletion, runtime
<1>4. Typed
  BY <1>1, EventTyped, Types DEF Typed, retireForDeletion, runtime
<1>5. QED
  BY <1>3, <1>4 DEF Passes, Swept, retireForDeletion

LEMMA SweepOfSwept ==
    ASSUME TypeOK, NEW todo, todo \subseteq Sessions, \A s \in todo : pin[s] # 0, SweepOf(todo)
    PROVE  Swept
<1>1. CASE todo = {}
  BY <1>1, Defaults DEF SweepOf, Swept
<1>2. CASE todo # {}
  BY <1>2 DEF SweepOf, Swept, Sweeps
<1>3. QED
  BY <1>1, <1>2

LEMMA EndTurnSwept == ASSUME TypeOK, MarkInv, EndTurn PROVE Swept
<1>1. sweep.todo \ {Candidate} \subseteq Sessions /\ \A s \in sweep.todo \ {Candidate} : pin[s] # 0
  BY Types DEF MarkInv
<1>2. QED
  BY <1>1, SweepOfSwept DEF EndTurn

LEMMA SweepToSwept ==
    ASSUME TypeOK, sweep.pc # "idle", NEW step \in {"read", "missing", "destroy", "remove"},
           SweepTo(step), pool'.st[Candidate] \in {"retiring", "none"}
    PROVE  Swept
<1>1. sweep \in Sweeps
  BY Types
<1>2. sweep' \in Sweeps /\ sweep'.todo = sweep.todo
  BY <1>1 DEF SweepTo, Sweeps
<1>3. QED
  BY <1>2 DEF Swept

LEMMA SweepSyncPasses == ASSUME TypeOK, OwnerInv, SweepSync PROVE Passes
<1> DEFINE p == synchronize(pool)
           todo == {s \in Members(p) : MayRetire(p, s)}
<1>1. pool' = p /\ ClockTyped
  BY PutMeans DEF SweepSync
<1>2. Shrinks(pool, p)
  BY Types, SynchronizeShrinks
<1>3. SweepOf(todo) /\ UNCHANGED <<versions, runtime, req, events>>
  BY DEF SweepSync
<1>4. todo \subseteq Members(p)
  OBVIOUS
<1> HIDE DEF p, todo
<1>5. Fades
  BY <1>1, <1>2, <1>3, FadesPool DEF runtime
<1>6. Typed
  BY <1>1, <1>3, Types DEF Typed, runtime
<1>7. todo \subseteq Sessions /\ \A s \in todo : pin[s] # 0
  BY <1>2, <1>4 DEF Shrinks, Members, OwnerInv
<1>8. Swept
  BY <1>3, <1>7, SweepOfSwept
<1>9. QED
  BY <1>3, <1>5, <1>6, <1>8 DEF Passes

LEMMA SweepMarkPasses == ASSUME TypeOK, MarkInv, SweepMark PROVE Passes
<1> DEFINE p == expireAppPresence(pool)
           q == Retired(p, {Candidate})
<1>0. sweep.pc = "mark" /\ UNCHANGED <<versions, runtime, req, events>>
  BY DEF SweepMark
<1>1. Shrinks(pool, p) /\ p \in Pools
  BY Types, ExpireShrinks DEF Shrinks
<1>2. Candidate \in Sessions
  BY <1>0, CandidateIs, Types DEF MarkInv
<1>3. ASSUME Shrinks(pool, pool'), ClockTyped
      PROVE  Fades /\ Typed
  BY <1>0, <1>3, FadesPool, Types DEF Typed, runtime
<1>4. CASE MayRetire(p, Candidate)
  <2>1. Put(expireAppPresence(q), {}) /\ SweepTo("read")
    BY <1>4 DEF SweepMark
  <2>2. {Candidate} \intersect Sessions \subseteq Members(p)
    BY <1>2, <1>4 DEF MayRetire, Members
  <2> HIDE DEF p
  <2>3. Shrinks(p, q) /\ q.st[Candidate] = "retiring"
    BY <1>1, <1>2, <2>2, RetiredShrinks
  <2> HIDE DEF q
  <2>4. Shrinks(q, expireAppPresence(q)) /\ expireAppPresence(q).st = q.st
    BY <2>3, ExpireShrinks DEF Shrinks
  <2>5. pool' = expireAppPresence(q) /\ ClockTyped
    BY <2>1, PutMeans
  <2>6. Fades /\ Typed
    BY <1>1, <1>3, <2>3, <2>4, <2>5, ShrinksFurther
  <2>7. Swept
    BY <1>0, <2>1, <2>3, <2>4, <2>5, SweepToSwept
  <2>8. QED
    BY <1>0, <2>6, <2>7 DEF Passes
<1>5. CASE ~MayRetire(p, Candidate)
  <2>1. Put(p, {}) /\ EndTurn
    BY <1>5 DEF SweepMark
  <2>2. pool' = p /\ ClockTyped
    BY <2>1, PutMeans
  <2>3. QED
    BY <1>0, <1>1, <1>3, <2>1, <2>2, EndTurnSwept DEF Passes
<1>6. QED
  BY <1>4, <1>5

LEMMA SweepReadPasses == ASSUME TypeOK, MarkInv, SweepRead PROVE Passes
<1> DEFINE s == Candidate
           x == IF rec[s] \in {"starting", "running"} THEN "terminating" ELSE rec[s]
<1>0. sweep.pc = "read" /\ UNCHANGED <<versions, pool, pin, checked, box, req, clock, events>>
  BY DEF SweepRead
<1>1. rec' = [rec EXCEPT ![s] = x]
  BY DEF SweepRead
<1>2. s \in Sessions => x \in Statuses /\ (x \in Present => rec[s] \in Present)
  BY Types DEF Statuses, Present, Over
<1> HIDE DEF x
<1>3. Fades
  BY <1>0, <1>1, <1>2, FadesRecord
<1>4. EndTurn \/ \E step \in {"missing", "remove", "destroy"} : SweepTo(step)
  BY DEF SweepRead
<1>5. pool'.st[Candidate] \in {"retiring", "none"}
  BY <1>0 DEF MarkInv
<1>6. Swept
  BY <1>0, <1>4, <1>5, EndTurnSwept, SweepToSwept
<1>7. QED
  BY <1>0, <1>3, <1>6, TypedSame DEF Passes

LEMMA SweepDestroyPasses == ASSUME TypeOK, MarkInv, SweepDestroy PROVE Passes
<1> DEFINE s == Candidate
           x == IF sweep.pc = "destroy" THEN "ended" ELSE rec[s]
<1>0. /\ sweep.pc \in {"missing", "destroy"} /\ SweepTo("remove")
      /\ UNCHANGED <<versions, pool, pin, checked, req, clock, events>>
  BY DEF SweepDestroy
<1>1. rec' = [rec EXCEPT ![s] = x] /\ box' = [box EXCEPT ![s] = "down"]
  BY DEF SweepDestroy
<1>2. s \in Sessions => x \in Statuses /\ (x \in Present => rec[s] \in Present)
  BY Types DEF Statuses, Present, Over
<1> HIDE DEF x
<1>3. Fades
  BY <1>0, <1>1, <1>2, FadesRecord
<1>4. Typed
  BY <1>0, <1>1, Types DEF Boxes, Standing, Typed, clock, ClockTyped
<1>5. Swept
  BY <1>0, SweepToSwept DEF MarkInv
<1>6. QED
  BY <1>0, <1>3, <1>4, <1>5 DEF Passes

LEMMA SweepRemovePasses == ASSUME TypeOK, MarkInv, SweepRemove PROVE Passes
<1> DEFINE q == Dropped(pool, Candidate)
<1>1. Shrinks(pool, q)
  BY Types, DroppedShrinks
<1>2. pool' = expireAppPresence(q) /\ ClockTyped
  BY PutMeans DEF SweepRemove
<1> HIDE DEF q
<1>3. Shrinks(q, expireAppPresence(q))
  BY <1>1, ExpireShrinks DEF Shrinks
<1>4. Fades
  BY <1>1, <1>2, <1>3, ShrinksFurther, FadesPool DEF SweepRemove, runtime
<1>5. Typed
  BY <1>2, Types DEF Typed, SweepRemove, runtime
<1>6. QED
  BY <1>4, <1>5, EndTurnSwept DEF Passes, SweepRemove

LEMMA SweepFailsPasses == ASSUME TypeOK, MarkInv, SweepFails PROVE Passes
<1>1. Fades
  BY FadesSame DEF SweepFails, runtime
<1>2. Typed
  BY EventTyped, Types DEF Typed, SweepFails, runtime, clock, ClockTyped
<1>3. Swept
  BY EndTurnSwept, Defaults DEF SweepFails, Swept
<1>4. QED
  BY <1>1, <1>2, <1>3 DEF Passes, SweepFails

-----------------------------------------------------------------------------
(* What a step of a save may do. *)

\* The save w goes on as r.
SaveGoes(w, r) ==
    /\ r \in Saves /\ saver' = [saver EXCEPT ![w] = r]
    /\ Typed /\ UNCHANGED <<pool, pin, rec, checked, req, sweep>>

Writes(w) ==
    \E r \in Saves, v \in Versions :
        /\ SaveGoes(w, r) /\ r.pc = "prune"
        /\ ver[v] = "none" /\ (\A x \in Versions : x < v => ver[x] # "none")
        /\ source' = v /\ ver' = [ver EXCEPT ![v] = "kept"] /\ cutoff' = cutoff

Lists(w) ==
    \E r \in Saves :
        /\ SaveGoes(w, r) /\ r.pc \in {"idle", "scan"}
        /\ cutoff' \in 0..MaxVersions /\ cutoff <= cutoff' /\ UNCHANGED <<source, ver>>
        /\ r.pc = "scan" => \A v \in r.cand : v < source /\ v <= cutoff'

Scans(w) ==
    \E r \in Saves :
        /\ SaveGoes(w, r) /\ UNCHANGED <<source, ver, cutoff>>
        /\ saver[w].pc = "scan" /\ r.pc = "pool" /\ r.cand = saver[w].cand
        /\ \A s \in Sessions : rec[s] \in Present => pin[s] \in r.prot

Reads(w) ==
    \E r \in Saves :
        /\ SaveGoes(w, r) /\ UNCHANGED <<source, ver, cutoff>>
        /\ saver[w].pc = "pool" /\ r.pc = "delete" /\ r.cand = saver[w].cand
        /\ saver[w].prot \subseteq r.prot /\ \A s \in Members(pool) : pin[s] \in r.prot

Deletes(w) ==
    /\ SaveGoes(w, NoSave) /\ UNCHANGED <<source, cutoff>> /\ saver[w].pc = "delete"
    /\ ver' = [v \in Versions |-> IF v \in saver[w].cand \ saver[w].prot THEN "pruned" ELSE ver[v]]

Quits(w) == SaveGoes(w, NoSave) /\ UNCHANGED <<source, ver, cutoff>>

LEMMA SaveEffect == ASSUME TypeOK, NEW w \in Savers, Save(w) PROVE Writes(w)
<1>1. PICK v \in Versions :
        /\ ver[v] = "none" /\ \A x \in Versions : x < v => ver[x] # "none"
        /\ source' = v /\ ver' = [ver EXCEPT ![v] = "kept"]
        /\ SaverAt(w, [NoSave EXCEPT !.pc = "prune", !.keep = v])
  BY DEF Save
<1> DEFINE r == [NoSave EXCEPT !.pc = "prune", !.keep = v]
<1>2. r \in Saves /\ r.pc = "prune"
  BY Numbers DEF NoSave, Saves
<1>3. saver' = [saver EXCEPT ![w] = r]
  BY <1>1 DEF SaverAt
<1> HIDE DEF r
<1>4. Typed
  BY EventTyped, Types DEF Typed, Save, runtime, clock, ClockTyped
<1>5. SaveGoes(w, r)
  BY <1>2, <1>3, <1>4 DEF SaveGoes, Save, runtime
<1>6. QED
  BY <1>1, <1>2, <1>5 DEF Writes, Save

\* The head is not among the versions that pruning selects.
LEMMA HeadKept ==
    ASSUME TypeOK, HeadInv, NEW kept, kept = {v \in Versions : ver[v] = "kept"},
           NEW v \in kept, Cardinality({x \in kept : x > v}) >= KeepVersions
    PROVE  v < source
<1>1. \A x \in kept : x \in Nat /\ x <= source
  BY Numbers DEF HeadInv
<1>2. CASE v = source
  <2>1. {x \in kept : x > v} = {}
    BY <1>1, <1>2, Types
  <2>2. Cardinality({x \in kept : x > v}) = 0
    BY <2>1, FS_EmptySet
  <2>3. QED
    BY <2>2, AppPoolAssumption
<1>3. QED
  BY <1>1, <1>2, Types

LEMMA PruneEffect == ASSUME TypeOK, HeadInv, NEW w \in Savers, Prune(w) PROVE Lists(w)
<1> DEFINE kept == {v \in Versions : ver[v] = "kept"}
           cand == {v \in kept : Cardinality({x \in kept : x > v}) >= KeepVersions}
           top == cand \union {cutoff}
           r == IF cand = {} THEN NoSave ELSE [saver[w] EXCEPT !.pc = "scan", !.cand = cand]
<1>0. /\ cutoff' = CHOOSE v \in top : \A x \in top : x <= v
      /\ SaverAt(w, r)
      /\ UNCHANGED <<source, ver, pool, runtime, req, sweep, clock, events>>
  BY DEF Prune
<1>1. \A v \in cand : v < source
  BY HeadKept
<1>2. cand \subseteq Versions
  OBVIOUS
<1> HIDE DEF cand
<1>3. top \subseteq 0..MaxVersions /\ top # {} /\ cutoff \in top /\ cand \subseteq top
  BY <1>2, Types, Numbers
<1>4. cutoff' \in top /\ \A x \in top : x <= cutoff'
  BY <1>0, <1>3, Greatest
<1>5. saver[w] \in Saves
  BY Types
<1>6. r \in Saves /\ r.pc \in {"idle", "scan"} /\ (r.pc = "scan" => r.cand = cand)
  BY <1>2, <1>5, Defaults DEF Saves
<1> HIDE DEF r, top
<1>7. SaveGoes(w, r)
  BY <1>0, <1>6, TypedSame DEF SaveGoes, SaverAt, runtime
<1>8. QED
  BY <1>0, <1>1, <1>3, <1>4, <1>6, <1>7 DEF Lists

LEMMA ScanEffect == ASSUME TypeOK, NEW w \in Savers, ScanSessions(w) PROVE Scans(w)
<1> DEFINE prot == {pin[s] : s \in {t \in Sessions : rec[t] \in Present}}
           r == [saver[w] EXCEPT !.pc = "pool", !.prot = prot]
<1>0. /\ saver[w].pc = "scan" /\ saver' = [saver EXCEPT ![w] = r]
      /\ UNCHANGED <<source, ver, cutoff, pool, runtime, req, sweep, clock, events>>
  BY DEF ScanSessions, SaverAt, Saving
<1>1. prot \in SUBSET (0..MaxVersions) /\ \A s \in Sessions : rec[s] \in Present => pin[s] \in prot
  BY Types
<1>2. saver[w] \in Saves
  BY Types
<1> HIDE DEF prot
<1>3. r \in Saves /\ r.pc = "pool" /\ r.cand = saver[w].cand /\ r.prot = prot
  BY <1>1, <1>2 DEF Saves
<1> HIDE DEF r
<1>4. SaveGoes(w, r)
  BY <1>0, <1>3, TypedSame DEF SaveGoes, runtime
<1>5. QED
  BY <1>0, <1>1, <1>3, <1>4 DEF Scans

LEMMA ReadEffect == ASSUME TypeOK, NEW w \in Savers, ReadPool(w) PROVE Reads(w)
<1> DEFINE prot == saver[w].prot \union {saver[w].keep} \union {pin[s] : s \in Members(pool)}
           r == [saver[w] EXCEPT !.pc = "delete", !.prot = prot]
<1>0. /\ saver[w].pc = "pool"
      /\ UNCHANGED <<source, ver, cutoff, pool, runtime, req, sweep, clock, events>>
  BY DEF ReadPool, Saving
<1>1. saver[w] \in Saves
  BY Types
<1>2. saver' = [saver EXCEPT ![w] = r]
  BY <1>1 DEF ReadPool, SaverAt, Saves
<1>3. saver[w].prot \in SUBSET (0..MaxVersions) /\ saver[w].keep \in 0..MaxVersions
  BY <1>1 DEF Saves
<1>4. /\ prot \in SUBSET (0..MaxVersions) /\ saver[w].prot \subseteq prot
      /\ \A s \in Members(pool) : pin[s] \in prot
  BY <1>3, Types DEF Members
<1> HIDE DEF prot
<1>5. r \in Saves /\ r.pc = "delete" /\ r.cand = saver[w].cand /\ r.prot = prot
  BY <1>1, <1>4 DEF Saves
<1> HIDE DEF r
<1>6. SaveGoes(w, r)
  BY <1>0, <1>2, <1>5, TypedSame DEF SaveGoes, runtime
<1>7. QED
  BY <1>0, <1>4, <1>5, <1>6 DEF Reads

LEMMA DeleteEffect == ASSUME TypeOK, NEW w \in Savers, DeleteVersions(w) PROVE Deletes(w)
<1>1. SaveGoes(w, NoSave)
  BY Defaults, TypedSame DEF SaveGoes, DeleteVersions, SaverAt, runtime
<1>2. QED
  BY <1>1 DEF Deletes, DeleteVersions, Saving

LEMMA QuitEffect == ASSUME TypeOK, NEW w \in Savers, PruneFails(w) PROVE Quits(w)
<1>1. Typed
  BY EventTyped, Types DEF Typed, PruneFails, runtime, clock, ClockTyped
<1>2. SaveGoes(w, NoSave)
  BY <1>1, Defaults DEF SaveGoes, PruneFails, SaverAt, runtime
<1>3. QED
  BY <1>2 DEF Quits, PruneFails

-----------------------------------------------------------------------------
(* The steps, by what they do. *)

ClientDoes == \E c \in Clients : Moves(c) \/ Reserves(c) \/ Records(c) \/ Checks(c)
SaverDoes == \E w \in Savers : Writes(w) \/ Lists(w) \/ Scans(w) \/ Reads(w) \/ Deletes(w) \/ Quits(w)

LEMMA StepEffect ==
    ASSUME TypeOK, AppInv, Next
    PROVE  ClientDoes \/ Passes \/ SaverDoes
<1> USE DEF AppInv
<1>1. ASSUME NEW u \in Visitors, Open(u) \/ Presence(u) \/ Lapse(u) PROVE ClientDoes \/ Passes
  BY <1>1, OpenMoves, PresencePasses, LapsePasses DEF ClientDoes, Clients
<1>2. ASSUME NEW a \in Admins, NEW s \in Sessions, Restart(a, s) \/ Stop(a, s) PROVE ClientDoes
  BY <1>2, RestartMoves, StopMoves DEF ClientDoes, Clients
<1>3. ASSUME NEW c \in Clients, ClientStep(c) \/ Fail(c) \/ UndoFails(c) \/ Crash(c) PROVE ClientDoes
  <2>1. ASSUME Synchronize(c) \/ Route(c) \/ RouteRestart(c) \/ Confirm(c)
        PROVE  Moves(c) \/ Reserves(c)
    BY <2>1, SynchronizeMoves, RouteEffect, RouteRestartEffect, ConfirmMoves
  <2>2. ASSUME Terminate(c) \/ InvalidateOld(c) \/ DestroyOld(c) \/ Boot(c)
        PROVE  Moves(c)
    BY <2>2, TerminateMoves, InvalidateOldMoves, DestroyOldMoves, BootMoves
  <2>3. ASSUME Record(c) \/ Check(c) \/ Run(c) \/ Complete(c)
        PROVE  Moves(c) \/ Records(c) \/ Checks(c)
    BY <2>3, RecordEffect, CheckEffect, RunMoves, CompleteMoves
  <2>4. ASSUME UndoBox(c) \/ UndoPool(c) \/ UndoRecord(c) \/ Fail(c) \/ UndoFails(c) \/ Crash(c)
        PROVE  Moves(c) \/ Records(c)
    BY <2>4, UndoBoxMoves, UndoPoolMoves, UndoRecordMoves, FailEffect, UndoFailsMoves, CrashMoves
  <2>5. QED
    BY <1>3, <2>1, <2>2, <2>3, <2>4 DEF ClientDoes, ClientStep
<1>4. ASSUME SweepStep \/ SweepFails PROVE Passes
  BY <1>4, SweepSyncPasses, SweepMarkPasses, SweepReadPasses, SweepDestroyPasses, SweepRemovePasses,
     SweepFailsPasses DEF SweepStep
<1>5. ASSUME NEW w \in Savers, \/ Save(w) \/ Prune(w) \/ ScanSessions(w) \/ ReadPool(w)
                               \/ DeleteVersions(w) \/ PruneFails(w)
      PROVE  SaverDoes
  BY <1>5, SaveEffect, PruneEffect, ScanEffect, ReadEffect, DeleteEffect, QuitEffect DEF SaverDoes
<1>6. ASSUME NEW s \in Sessions, Passing(s) \/ BoxStep(s) PROVE Passes
  BY <1>6, PassingPasses
<1>7. ASSUME retireForDeletion PROVE Passes
  BY <1>7, DeletionPasses
<1>8. QED
  BY <1>1, <1>2, <1>3, <1>4, <1>5, <1>6, <1>7 DEF Next, BoxStep

-----------------------------------------------------------------------------
(* Types are kept. *)

TypesHold ==
    /\ source \in Versions /\ ver \in [Versions -> {"none", "kept", "pruned"}]
    /\ cutoff \in 0..MaxVersions /\ saver \in [Savers -> Saves] /\ pool \in Pools
    /\ pin \in [Sessions -> 0..MaxVersions] /\ rec \in [Sessions -> Statuses]
    /\ checked \subseteq Sessions /\ box \in [Sessions -> Boxes]
    /\ req \in [Clients -> Requests] /\ sweep \in Sweeps
    /\ late \subseteq Sessions /\ due \subseteq Sessions /\ lapsed \subseteq Visitors
    /\ events \in 0..MaxEvents

LEMMA TypesAre == TypeOK <=> TypesHold
  BY DEF TypeOK, TypesHold, Saves, Requests, RequestSteps, Sweeps, Statuses, Boxes

LEMMA TypesKept ==
    ASSUME TypeOK, Shape, ClientDoes \/ Passes \/ SaverDoes
    PROVE  TypeOK'
<1>1. TypeOK' <=> TypesHold'
  BY TypesAre, PTL
<1>2. ASSUME NEW c \in Clients, Moves(c) PROVE TypesHold'
  BY <1>2, Types DEF Moves, Fades, Typed, ClockTyped, Continues, Shrinks, TypesHold, versions
<1>3. ASSUME NEW c \in Clients, Reserves(c) PROVE TypesHold'
  BY <1>3, Types, Numbers DEF Reserves, Typed, ClockTyped, TypesHold, versions
<1>4. ASSUME NEW c \in Clients, Records(c) PROVE TypesHold'
  <2>1. rec' \in [Sessions -> Statuses]
    BY <1>4, Types DEF Records, Statuses, Present, Over
  <2>2. QED
    BY <1>4, <2>1, Types DEF Records, Typed, ClockTyped, Continues, TypesHold, versions
<1>5. ASSUME NEW c \in Clients, Checks(c) PROVE TypesHold'
  <2>1. req[c].s \in Sessions
    BY <1>5, Types, Numbers DEF Checks, Shape, Fits, Saga, Requests
  <2>2. QED
    BY <1>5, <2>1, Types DEF Checks, Typed, ClockTyped, TypesHold, versions
<1>6. ASSUME Passes PROVE TypesHold'
  BY <1>6, Types DEF Passes, Fades, Typed, ClockTyped, Swept, Shrinks, TypesHold, versions
<1>7. ASSUME NEW w \in Savers, Writes(w) PROVE TypesHold'
  BY <1>7, Types DEF Writes, SaveGoes, Typed, ClockTyped, TypesHold
<1>8. ASSUME NEW w \in Savers, Lists(w) \/ Scans(w) \/ Reads(w) \/ Quits(w) PROVE TypesHold'
  BY <1>8, Types DEF Lists, Scans, Reads, Quits, SaveGoes, Typed, ClockTyped, TypesHold
<1>9. ASSUME NEW w \in Savers, Deletes(w) PROVE TypesHold'
  BY <1>9, Types DEF Deletes, SaveGoes, Typed, ClockTyped, TypesHold
<1>10. QED
  BY <1>1, <1>2, <1>3, <1>4, <1>5, <1>6, <1>7, <1>8, <1>9 DEF ClientDoes, SaverDoes

-----------------------------------------------------------------------------
(* The parts of the invariant are kept. *)

LEMMA ShapeKept ==
    ASSUME TypeOK, Shape, ClientDoes \/ Passes \/ SaverDoes
    PROVE  Shape'
<1>1. ASSUME NEW c \in Clients, NEW r \in Requests, req' = [req EXCEPT ![c] = r], Fits(r) PROVE Shape'
  <2>1. \A d \in Clients : req'[d] = IF d = c THEN r ELSE req[d]
    BY <1>1, Types
  <2>2. QED
    BY <1>1, <2>1 DEF Shape, Fits
<1>2. ASSUME NEW c \in Clients, Moves(c) \/ Records(c) PROVE Shape'
  BY <1>1, <1>2 DEF Moves, Records, Continues
<1>3. ASSUME NEW c \in Clients, Reserves(c) PROVE Shape'
  BY <1>1, <1>3, Numbers DEF Reserves, Fits, Saga
<1>4. ASSUME NEW c \in Clients, Checks(c) PROVE Shape'
  BY <1>1, <1>4 DEF Checks, Shape, Fits, Saga
<1>5. CASE Passes \/ SaverDoes
  BY <1>5 DEF Passes, SaverDoes, Writes, Lists, Scans, Reads, Deletes, Quits, SaveGoes, Shape, Fits
<1>6. QED
  BY <1>2, <1>3, <1>4, <1>5 DEF ClientDoes

\* The sessions that requests hold, when the request of c becomes r.
LEMMA OwnersKept ==
    ASSUME TypeOK, OwnerInv, NEW c \in Clients, NEW r \in Requests, req' = [req EXCEPT ![c] = r],
           r.s # 0 => /\ r.s = req[c].s /\ (r.pc \in Early => r.s \notin checked'),
           UNCHANGED pin, \A s \in Sessions : s \in checked' => s \in checked \/ s = r.s
    PROVE  \A d \in Clients : req'[d].s # 0 =>
             /\ pin'[req'[d].s] # 0
             /\ \A e \in Clients : e # d => req'[e].s # req'[d].s
             /\ req'[d].pc \in Early => req'[d].s \notin checked'
<1>1. \A d \in Clients : req'[d] = IF d = c THEN r ELSE req[d]
  BY Types
<1>2. \A d \in Clients : req[d].s \in 0..MaxSessions
  BY Types DEF Requests
<1>3. ASSUME NEW d \in Clients, req'[d].s # 0, d # c
      PROVE  /\ pin'[req'[d].s] # 0
             /\ \A e \in Clients : e # d => req'[e].s # req'[d].s
             /\ req'[d].pc \in Early => req'[d].s \notin checked'
  <2>1. req'[d].s \in Sessions
    BY <1>1, <1>2, <1>3, Numbers
  <2>2. req'[d].s # r.s
    BY <1>1, <1>3 DEF OwnerInv
  <2>3. QED
    BY <1>1, <1>3, <2>1, <2>2 DEF OwnerInv
<1>4. ASSUME r.s # 0
      PROVE  /\ pin'[r.s] # 0
             /\ \A e \in Clients : e # c => req'[e].s # r.s
             /\ r.pc \in Early => r.s \notin checked'
  BY <1>1, <1>4 DEF OwnerInv
<1>5. QED
  BY <1>1, <1>3, <1>4

LEMMA OwnerKept ==
    ASSUME TypeOK, Shape, OwnerInv, ClientDoes \/ Passes \/ SaverDoes
    PROVE  OwnerInv'
<1> DEFINE First == \A s \in Sessions : pin[s] = 0 => s \notin Members(pool) /\ s \notin checked
           Owners == \A d \in Clients : req[d].s # 0 =>
                       /\ pin[req[d].s] # 0
                       /\ \A e \in Clients : e # d => req[e].s # req[d].s
                       /\ req[d].pc \in Early => req[d].s \notin checked
<1>0. OwnerInv' <=> First' /\ Owners'
  BY DEF OwnerInv
<1>1. ASSUME Fades PROVE First'
  BY <1>1 DEF Fades, Shrinks, OwnerInv, Members
<1>2. ASSUME NEW c \in Clients, Moves(c) PROVE OwnerInv'
  <2>1. Fades /\ Continues(c) /\ checked' = checked /\ pin' = pin
    BY <1>2 DEF Moves, Fades
  <2>2. PICK r \in Requests :
          /\ req' = [req EXCEPT ![c] = r]
          /\ r.s # 0 => r.s = req[c].s /\ (r.pc \in Early => req[c].pc \in Early)
    BY <2>1 DEF Continues
  <2>3. Owners'
    BY <2>1, <2>2, OwnersKept DEF OwnerInv
  <2>4. QED
    BY <1>0, <1>1, <2>1, <2>3
<1>3. ASSUME NEW c \in Clients, Records(c) PROVE OwnerInv'
  <2>1. Continues(c) /\ checked' = checked /\ pin' = pin /\ pool' = pool
    BY <1>3 DEF Records
  <2>2. PICK r \in Requests :
          /\ req' = [req EXCEPT ![c] = r]
          /\ r.s # 0 => r.s = req[c].s /\ (r.pc \in Early => req[c].pc \in Early)
    BY <2>1 DEF Continues
  <2>3. Owners'
    BY <2>1, <2>2, OwnersKept DEF OwnerInv
  <2>4. First'
    BY <2>1 DEF OwnerInv, Members
  <2>5. QED
    BY <1>0, <2>3, <2>4
<1>4. ASSUME NEW c \in Clients, Checks(c) PROVE OwnerInv'
  <2>1. /\ checked' = checked \union {req[c].s} /\ pin' = pin /\ pool' = pool /\ req[c].s # 0
    BY <1>4 DEF Checks, Shape, Fits, Saga
  <2>2. PICK r \in Requests : req' = [req EXCEPT ![c] = r] /\ r.s = req[c].s /\ r.pc = "run"
    BY <1>4 DEF Checks
  <2>3. Owners'
    BY <2>1, <2>2, OwnersKept DEF Early
  <2>4. First'
    BY <2>1 DEF OwnerInv, Members
  <2>5. QED
    BY <1>0, <2>3, <2>4
<1>5. ASSUME NEW c \in Clients, Reserves(c) PROVE OwnerInv'
  <2>1. PICK s \in Sessions, r \in Requests :
          /\ pin[s] = 0 /\ pin' = [pin EXCEPT ![s] = source] /\ pool' \in Pools
          /\ \A t \in Sessions : t # s => (pool.st[t] = "none" => pool'.st[t] = "none")
          /\ req' = [req EXCEPT ![c] = r] /\ r.s = s
    BY <1>5 DEF Reserves
  <2>2. checked' = checked
    BY <1>5 DEF Reserves
  <2>3. \A t \in Sessions : pin'[t] = IF t = s THEN source ELSE pin[t]
    BY <2>1, Types
  <2>4. source # 0
    BY Types, Numbers
  <2>5. First'
    BY <2>1, <2>2, <2>3, <2>4 DEF OwnerInv, Members
  <2>6. \A d \in Clients : req'[d] = IF d = c THEN r ELSE req[d]
    BY <2>1, Types
  <2>7. \A d \in Clients : req[d].s # 0 => req[d].s \in Sessions /\ req[d].s # s
    BY <2>1, Types, Numbers DEF OwnerInv, Requests
  <2>8. s # 0 /\ s \notin checked
    BY <2>1, Numbers DEF OwnerInv
  <2>9. Owners'
    BY <2>1, <2>2, <2>3, <2>4, <2>6, <2>7, <2>8 DEF OwnerInv
  <2>10. QED
    BY <1>0, <2>5, <2>9
<1>6. CASE Passes
  <2>1. Fades /\ req' = req
    BY <1>6 DEF Passes
  <2>2. Owners'
    BY <2>1 DEF Fades, OwnerInv
  <2>3. QED
    BY <1>0, <1>1, <2>1, <2>2
<1>7. CASE SaverDoes
  BY <1>7 DEF SaverDoes, Writes, Lists, Scans, Reads, Deletes, Quits, SaveGoes, OwnerInv, Members
<1>8. QED
  BY <1>2, <1>3, <1>4, <1>5, <1>6, <1>7 DEF ClientDoes

LEMMA HeadInvKept ==
    ASSUME TypeOK, HeadInv, PruneInv, ClientDoes \/ Passes \/ SaverDoes
    PROVE  HeadInv'
<1>1. CASE ClientDoes \/ Passes
  BY <1>1 DEF ClientDoes, Moves, Reserves, Records, Checks, Passes, versions, HeadInv
<1>2. ASSUME NEW w \in Savers, Writes(w) PROVE HeadInv'
  <2>1. PICK v \in Versions :
          /\ ver[v] = "none" /\ (\A x \in Versions : x < v => ver[x] # "none")
          /\ source' = v /\ ver' = [ver EXCEPT ![v] = "kept"]
    BY <1>2 DEF Writes
  <2>2. \A x \in Versions : ver'[x] = IF x = v THEN "kept" ELSE ver[x]
    BY <2>1, Types
  <2>3. \A x \in Versions : x \in Nat
    BY Numbers
  <2>4. v > source
    BY <2>1, <2>3, Types DEF HeadInv
  <2>5. \A x \in Versions : ver'[x] # "none" <=> x <= v
    BY <2>1, <2>2, <2>3, <2>4, Types DEF HeadInv
  <2>6. QED
    BY <2>1, <2>2, <2>5 DEF HeadInv
<1>3. ASSUME NEW w \in Savers, Lists(w) \/ Scans(w) \/ Reads(w) \/ Quits(w) PROVE HeadInv'
  BY <1>3 DEF Lists, Scans, Reads, Quits, HeadInv
<1>4. ASSUME NEW w \in Savers, Deletes(w) PROVE HeadInv'
  <2>1. /\ source' = source /\ saver[w].pc = "delete"
        /\ \A v \in Versions :
             ver'[v] = IF v \in saver[w].cand \ saver[w].prot THEN "pruned" ELSE ver[v]
    BY <1>4 DEF Deletes
  <2>2. \A v \in saver[w].cand : v < source
    BY <2>1 DEF PruneInv
  <2>3. \A v \in Versions : v \in Nat
    BY Numbers
  <2>4. source \notin saver[w].cand
    BY <2>2, Types
  <2>5. QED
    BY <2>1, <2>2, <2>3, <2>4, Types DEF HeadInv
<1>5. QED
  BY <1>1, <1>2, <1>3, <1>4 DEF SaverDoes

LEMMA PruneKept ==
    ASSUME TypeOK, HeadInv, PruneInv, ClientDoes \/ Passes \/ SaverDoes
    PROVE  PruneInv'
<1>0. source \in Nat /\ cutoff \in Nat /\ source <= source /\ cutoff <= cutoff
  BY Types
<1>1. CASE ClientDoes \/ Passes
  BY <1>1 DEF ClientDoes, Moves, Reserves, Records, Checks, Passes, versions, PruneInv
<1>2. ASSUME NEW w \in Savers, NEW r \in Saves, saver' = [saver EXCEPT ![w] = r],
             source' \in Nat, cutoff' \in Nat, source <= source', cutoff <= cutoff',
             \A v \in Versions : ver'[v] = "pruned" => v <= cutoff',
             r.pc \in {"scan", "pool", "delete"} => \A v \in r.cand : v < source' /\ v <= cutoff'
      PROVE  PruneInv'
  <2>1. \A x \in Savers : saver'[x] = IF x = w THEN r ELSE saver[x]
    BY <1>2, Types
  <2>2. \A x \in Savers : \A v \in saver[x].cand : v \in Nat
    BY Types, Numbers DEF Saves
  <2>3. ASSUME NEW x \in Savers, x # w, NEW v \in saver[x].cand,
               saver[x].pc \in {"scan", "pool", "delete"}
        PROVE  v < source' /\ v <= cutoff'
    <3>1. v < source /\ v <= cutoff
      BY <2>3 DEF PruneInv
    <3>2. QED
      BY <1>2, <2>2, <3>1, Types
  <2>4. QED
    BY <1>2, <2>1, <2>3 DEF PruneInv
<1>3. ASSUME NEW w \in Savers, Writes(w) PROVE PruneInv'
  <2>1. PICK r \in Saves, v \in Versions :
          /\ saver' = [saver EXCEPT ![w] = r] /\ r.pc = "prune"
          /\ ver[v] = "none" /\ source' = v /\ ver' = [ver EXCEPT ![v] = "kept"] /\ cutoff' = cutoff
    BY <1>3 DEF Writes, SaveGoes
  <2>2. \A x \in Versions : ver'[x] = "pruned" => ver[x] = "pruned"
    BY <2>1, Types
  <2>3. v \in Nat /\ source <= v
    BY <2>1, Types, Numbers DEF HeadInv
  <2>4. \A x \in Versions : ver'[x] = "pruned" => x <= cutoff'
    BY <2>1, <2>2 DEF PruneInv
  <2>5. QED
    BY <1>0, <1>2, <2>1, <2>3, <2>4
<1>4. ASSUME NEW w \in Savers, Lists(w) PROVE PruneInv'
  <2>1. PICK r \in Saves :
          /\ saver' = [saver EXCEPT ![w] = r] /\ r.pc \in {"idle", "scan"}
          /\ cutoff' \in 0..MaxVersions /\ cutoff <= cutoff' /\ source' = source /\ ver' = ver
          /\ r.pc = "scan" => \A v \in r.cand : v < source /\ v <= cutoff'
    BY <1>4 DEF Lists, SaveGoes
  <2>2. cutoff' \in Nat /\ \A v \in Versions : v \in Nat
    BY <2>1, Numbers
  <2>3. \A v \in Versions : ver'[v] = "pruned" => v <= cutoff'
    BY <2>1, <2>2, Types DEF PruneInv
  <2>4. r.pc \in {"scan", "pool", "delete"} => \A v \in r.cand : v < source' /\ v <= cutoff'
    BY <2>1
  <2>5. source' \in Nat /\ source <= source'
    BY <1>0, <2>1
  <2>6. QED
    BY <1>2, <2>1, <2>2, <2>3, <2>4, <2>5
<1>5. ASSUME NEW w \in Savers, Scans(w) \/ Reads(w) PROVE PruneInv'
  <2>1. PICK r \in Saves :
          /\ saver' = [saver EXCEPT ![w] = r] /\ r.cand = saver[w].cand
          /\ saver[w].pc \in {"scan", "pool"} /\ UNCHANGED <<source, ver, cutoff>>
    BY <1>5 DEF Scans, Reads, SaveGoes
  <2>2. QED
    BY <1>2, <2>1, Types DEF PruneInv
<1>6. ASSUME NEW w \in Savers, Deletes(w) PROVE PruneInv'
  <2>1. /\ saver' = [saver EXCEPT ![w] = NoSave] /\ UNCHANGED <<source, cutoff>> /\ saver[w].pc = "delete"
        /\ \A v \in Versions :
             ver'[v] = IF v \in saver[w].cand \ saver[w].prot THEN "pruned" ELSE ver[v]
    BY <1>6 DEF Deletes, SaveGoes
  <2>2. \A v \in Versions : ver'[v] = "pruned" => v <= cutoff
    BY <2>1 DEF PruneInv
  <2>3. NoSave \in Saves /\ NoSave.pc \notin {"scan", "pool", "delete"}
    BY Defaults
  <2>4. source' \in Nat /\ cutoff' \in Nat /\ source <= source' /\ cutoff <= cutoff'
    BY <1>0, <2>1
  <2>5. QED
    BY <1>2, <2>1, <2>2, <2>3, <2>4
<1>7. ASSUME NEW w \in Savers, Quits(w) PROVE PruneInv'
  BY <1>2, <1>7, Types, Defaults DEF Quits, SaveGoes, PruneInv
<1>8. QED
  BY <1>1, <1>3, <1>4, <1>5, <1>6, <1>7 DEF SaverDoes

LEMMA ProtKept ==
    ASSUME TypeOK, AppInv, ClientDoes \/ Passes \/ SaverDoes
    PROVE  ProtInv'
<1> USE DEF AppInv
<1>1. ASSUME Fades, saver' = saver PROVE ProtInv'
  BY <1>1 DEF Fades, Shrinks, ProtInv, Members
<1>2. ASSUME NEW c \in Clients, Moves(c) PROVE ProtInv'
  BY <1>1, <1>2 DEF Moves, versions
<1>3. ASSUME NEW c \in Clients, Reserves(c) PROVE ProtInv'
  <2>1. PICK s \in Sessions :
          /\ pin[s] = 0 /\ pin' = [pin EXCEPT ![s] = source]
          /\ \A t \in Sessions : t # s => (pool.st[t] = "none" => pool'.st[t] = "none")
    BY <1>3 DEF Reserves
  <2>2. UNCHANGED <<rec, checked, saver, source>>
    BY <1>3 DEF Reserves, versions
  <2>3. \A t \in Sessions : pin'[t] = IF t = s THEN source ELSE pin[t]
    BY <2>1, Types
  <2>4. \A w \in Savers : saver[w].pc \in {"pool", "delete"} => source \notin saver[w].cand
    BY Types DEF PruneInv
  <2>5. QED
    BY <2>1, <2>2, <2>3, <2>4 DEF ProtInv, Members
<1>4. ASSUME NEW c \in Clients, Records(c) PROVE ProtInv'
  <2>1. req[c].s \notin checked
    BY <1>4 DEF Records, OwnerInv, Early, Shape, Fits, Saga
  <2>2. UNCHANGED <<pool, pin, checked, saver>> /\ rec' = [rec EXCEPT ![req[c].s] = "starting"]
    BY <1>4 DEF Records, versions
  <2>3. \A s \in Sessions : s \in checked => rec'[s] = rec[s]
    BY <2>1, <2>2, Types
  <2>4. QED
    BY <2>2, <2>3 DEF ProtInv, Members
<1>5. ASSUME NEW c \in Clients, Checks(c) PROVE ProtInv'
  <2>1. /\ UNCHANGED <<pool, pin, rec, saver>>
        /\ checked' = checked \union {req[c].s} /\ pin[req[c].s] > cutoff
    BY <1>5 DEF Checks, versions
  <2>2. req[c].s \in Sessions
    BY <1>5, Types, Numbers DEF Checks, Shape, Fits, Saga, Requests
  <2>3. pin[req[c].s] \in Nat
    BY <2>2, Types, Numbers
  <2>4. \A w \in Savers : saver[w].pc \in {"pool", "delete"} => pin[req[c].s] \notin saver[w].cand
    BY <2>1, <2>3, Types DEF PruneInv
  <2>5. QED
    BY <2>1, <2>4 DEF ProtInv, Members
<1>6. CASE Passes
  BY <1>1, <1>6 DEF Passes, versions
<1>7. ASSUME NEW w \in Savers, NEW r \in Saves, SaveGoes(w, r),
             \A s \in Sessions : pin[s] \in r.cand \ r.prot =>
               /\ r.pc = "delete" => s \notin Members(pool)
               /\ r.pc \in {"pool", "delete"} => ~(s \in checked /\ rec[s] \in Present)
      PROVE  ProtInv'
  <2>1. \A x \in Savers : saver'[x] = IF x = w THEN r ELSE saver[x]
    BY <1>7, Types DEF SaveGoes
  <2>2. QED
    BY <1>7, <2>1 DEF SaveGoes, ProtInv, Members
<1>8. ASSUME NEW w \in Savers, Writes(w) \/ Lists(w) \/ Deletes(w) \/ Quits(w) PROVE ProtInv'
  BY <1>7, <1>8, Defaults DEF Writes, Lists, Deletes, Quits
<1>9. ASSUME NEW w \in Savers, Scans(w) PROVE ProtInv'
  BY <1>7, <1>9 DEF Scans
<1>10. ASSUME NEW w \in Savers, Reads(w) PROVE ProtInv'
  BY <1>7, <1>10 DEF Reads, ProtInv
<1>11. QED
  BY <1>2, <1>3, <1>4, <1>5, <1>6, <1>8, <1>9, <1>10 DEF ClientDoes, SaverDoes

LEMMA VersionKeptKept ==
    ASSUME TypeOK, AppInv, ClientDoes \/ Passes \/ SaverDoes
    PROVE  VersionKept'
<1> USE DEF AppInv
<1>1. ASSUME Fades, ver' = ver PROVE VersionKept'
  BY <1>1 DEF Fades, Shrinks, VersionKept, Members
<1>2. ASSUME NEW c \in Clients, Moves(c) PROVE VersionKept'
  BY <1>1, <1>2 DEF Moves, versions
<1>3. ASSUME NEW c \in Clients, Reserves(c) PROVE VersionKept'
  <2>1. PICK s \in Sessions :
          /\ pin[s] = 0 /\ pin' = [pin EXCEPT ![s] = source]
          /\ \A t \in Sessions : t # s => (pool.st[t] = "none" => pool'.st[t] = "none")
    BY <1>3 DEF Reserves
  <2>2. UNCHANGED <<rec, checked, ver, source>>
    BY <1>3 DEF Reserves, versions
  <2>3. \A t \in Sessions : pin'[t] = IF t = s THEN source ELSE pin[t]
    BY <2>1, Types
  <2>4. QED
    BY <2>1, <2>2, <2>3 DEF VersionKept, Members, HeadInv
<1>4. ASSUME NEW c \in Clients, Records(c) PROVE VersionKept'
  <2>1. req[c].s \notin checked
    BY <1>4 DEF Records, OwnerInv, Early, Shape, Fits, Saga
  <2>2. UNCHANGED <<pool, pin, checked, ver>> /\ rec' = [rec EXCEPT ![req[c].s] = "starting"]
    BY <1>4 DEF Records, versions
  <2>3. \A s \in Sessions : s \in checked => rec'[s] = rec[s]
    BY <2>1, <2>2, Types
  <2>4. QED
    BY <2>2, <2>3 DEF VersionKept, Members
<1>5. ASSUME NEW c \in Clients, Checks(c) PROVE VersionKept'
  <2>1. /\ UNCHANGED <<pool, pin, rec, ver>>
        /\ checked' = checked \union {req[c].s} /\ pin[req[c].s] > cutoff
    BY <1>5 DEF Checks, versions
  <2>2. req[c].s \in Sessions
    BY <1>5, Types, Numbers DEF Checks, Shape, Fits, Saga, Requests
  <2>3. pin[req[c].s] \in Versions
    BY <1>5, <2>2, Types, Numbers DEF Checks, OwnerInv
  <2>4. ver[pin[req[c].s]] # "pruned"
    <3>1. \A m, n \in Nat : n > m => ~(n <= m)
      OBVIOUS
    <3>2. pin[req[c].s] \in Nat /\ cutoff \in Nat
      BY <2>3, Types, Numbers
    <3>3. ~(pin[req[c].s] <= cutoff)
      BY <2>1, <3>1, <3>2
    <3>4. QED
      BY <2>3, <3>3 DEF PruneInv
  <2>5. QED
    BY <2>1, <2>4 DEF VersionKept, Members
<1>6. CASE Passes
  BY <1>1, <1>6 DEF Passes, versions
<1>7. \A s \in Sessions : s \in Members(pool) \/ s \in checked => pin[s] \in Versions
  BY Types, Numbers DEF OwnerInv
<1>8. ASSUME NEW w \in Savers, Writes(w) PROVE VersionKept'
  <2>1. PICK v \in Versions : ver' = [ver EXCEPT ![v] = "kept"]
    BY <1>8 DEF Writes
  <2>2. \A x \in Versions : ver'[x] = "pruned" => ver[x] = "pruned"
    BY <2>1, Types
  <2>3. UNCHANGED <<pool, pin, rec, checked>>
    BY <1>8 DEF Writes, SaveGoes
  <2>4. QED
    BY <1>7, <2>2, <2>3 DEF VersionKept, Members
<1>9. ASSUME NEW w \in Savers, Lists(w) \/ Scans(w) \/ Reads(w) \/ Quits(w) PROVE VersionKept'
  BY <1>9 DEF Lists, Scans, Reads, Quits, SaveGoes, VersionKept, Members
<1>10. ASSUME NEW w \in Savers, Deletes(w) PROVE VersionKept'
  <2>1. /\ UNCHANGED <<pool, pin, rec, checked>> /\ saver[w].pc = "delete"
        /\ \A v \in Versions :
             ver'[v] = IF v \in saver[w].cand \ saver[w].prot THEN "pruned" ELSE ver[v]
    BY <1>10 DEF Deletes, SaveGoes
  <2>2. QED
    BY <1>7, <2>1 DEF VersionKept, ProtInv, Members
<1>11. QED
  BY <1>2, <1>3, <1>4, <1>5, <1>6, <1>8, <1>9, <1>10 DEF ClientDoes, SaverDoes

LEMMA MarkKept ==
    ASSUME TypeOK, MarkInv, ClientDoes \/ Passes \/ SaverDoes
    PROVE  MarkInv'
<1>0. sweep'.todo = sweep.todo => Candidate' = Candidate
  BY DEF Candidate
<1>1. sweep.pc # "idle" => Candidate \in sweep.todo /\ Candidate \in Sessions
  BY CandidateIs, Types DEF MarkInv
<1>2. ASSUME UNCHANGED sweep, \A s \in Sessions : pin[s] # 0 => pin'[s] # 0,
             \A s \in Sessions : pin[s] # 0 /\ pool.st[s] \in {"retiring", "none"}
                                  => pool'.st[s] \in {"retiring", "none"}
      PROVE  MarkInv'
  BY <1>0, <1>1, <1>2, Types DEF MarkInv
<1>3. ASSUME NEW c \in Clients, Moves(c) PROVE MarkInv'
  BY <1>2, <1>3 DEF Moves, Fades, Shrinks
<1>4. ASSUME NEW c \in Clients, Reserves(c) PROVE MarkInv'
  <2>1. PICK s \in Sessions :
          /\ pin[s] = 0 /\ pin' = [pin EXCEPT ![s] = source]
          /\ \A t \in Sessions : t # s =>
               /\ pool.st[t] = "none" => pool'.st[t] = "none"
               /\ pool.st[t] = "retiring" => pool'.st[t] \in {"retiring", "none"}
    BY <1>4 DEF Reserves
  <2>2. \A t \in Sessions : pin[t] # 0 => t # s /\ pin'[t] = pin[t]
    BY <2>1, Types
  <2>3. UNCHANGED sweep
    BY <1>4 DEF Reserves
  <2>4. QED
    BY <1>2, <2>1, <2>2, <2>3
<1>5. ASSUME NEW c \in Clients, Records(c) \/ Checks(c) PROVE MarkInv'
  BY <1>2, <1>5 DEF Records, Checks
<1>6. CASE Passes
  <2>1. /\ pin' = pin
        /\ \A s \in Sessions : pool.st[s] \in {"retiring", "none"} => pool'.st[s] \in {"retiring", "none"}
    BY <1>6 DEF Passes, Fades, Shrinks
  <2>2. CASE UNCHANGED sweep
    BY <1>2, <2>1, <2>2
  <2>3. CASE sweep'.pc = "idle" /\ sweep'.todo = {}
    BY <2>3 DEF MarkInv
  <2>4. CASE sweep'.pc = "mark" /\ sweep'.todo # {} /\ \A s \in sweep'.todo : pin[s] # 0
    BY <2>1, <2>4 DEF MarkInv
  <2>5. CASE /\ sweep'.todo = sweep.todo /\ sweep.pc # "idle"
             /\ pool'.st[Candidate] \in {"retiring", "none"}
    BY <1>0, <2>1, <2>5 DEF MarkInv
  <2>6. QED
    BY <1>6, <2>2, <2>3, <2>4, <2>5 DEF Passes, Swept
<1>7. CASE SaverDoes
  BY <1>2, <1>7 DEF SaverDoes, Writes, Lists, Scans, Reads, Deletes, Quits, SaveGoes
<1>8. QED
  BY <1>3, <1>4, <1>5, <1>6, <1>7 DEF ClientDoes

-----------------------------------------------------------------------------
(* The theorems. *)

LEMMA InitHolds == Init => TypeOK /\ AppInv
<1> SUFFICES ASSUME Init PROVE TypeOK /\ AppInv
  OBVIOUS
<1>1. /\ source = 1 /\ cutoff = 0 /\ saver = [w \in Savers |-> NoSave] /\ pin = [s \in Sessions |-> 0]
      /\ checked = {} /\ req = [c \in Clients |-> NoRequest] /\ sweep = NoSweep
      /\ ver = [v \in Versions |-> IF v = 1 THEN "kept" ELSE "none"]
      /\ pool.st = [s \in Sessions |-> "none"]
  BY DEF Init
<1>2. TypesHold
  <2>1. pool \in Pools
    BY Numbers DEF Init, Pools, MemberStates
  <2>2. ver \in [Versions -> {"none", "kept", "pruned"}] /\ rec \in [Sessions -> Statuses]
    BY DEF Init, Statuses
  <2>3. /\ saver \in [Savers -> Saves] /\ req \in [Clients -> Requests] /\ sweep \in Sweeps
        /\ pin \in [Sessions -> 0..MaxVersions]
    BY <1>1, Numbers, Defaults
  <2>4. QED
    BY <1>1, <2>1, <2>2, <2>3, Numbers DEF Boxes, Standing, Init, TypesHold
<1>3. Shape /\ OwnerInv
  BY <1>1, Defaults DEF Shape, Fits, Saga, OwnerInv, Members
<1>4. HeadInv
  <2>1. \A v \in Versions : v \in Nat /\ v # 0
    BY Numbers
  <2>2. \A v \in Nat : v # 0 => (v <= 1 <=> v = 1)
    OBVIOUS
  <2>3. \A v \in Versions : ver[v] = IF v = 1 THEN "kept" ELSE "none"
    BY <1>1
  <2>4. 1 \in Versions
    BY Numbers
  <2>5. QED
    BY <1>1, <2>1, <2>2, <2>3, <2>4 DEF HeadInv
<1>5. PruneInv /\ ProtInv
  BY <1>1, Defaults DEF PruneInv, ProtInv
<1>6. VersionKept
  BY <1>1 DEF VersionKept, Members
<1>7. MarkInv
  BY <1>1, Defaults DEF MarkInv
<1>8. QED
  BY <1>2, <1>3, <1>4, <1>5, <1>6, <1>7, TypesAre DEF AppInv

LEMMA StepKeeps ==
    ASSUME TypeOK, AppInv, [Next]_vars
    PROVE  TypeOK' /\ AppInv'
<1>1. CASE Next
  <2>1. ClientDoes \/ Passes \/ SaverDoes
    BY <1>1, StepEffect
  <2>2. TypeOK' /\ Shape' /\ OwnerInv'
    BY <2>1, TypesKept, ShapeKept, OwnerKept DEF AppInv
  <2>3. HeadInv' /\ PruneInv' /\ MarkInv'
    BY <2>1, HeadInvKept, PruneKept, MarkKept DEF AppInv
  <2>4. ProtInv' /\ VersionKept'
    BY <2>1, ProtKept, VersionKeptKept
  <2>5. QED
    BY <2>2, <2>3, <2>4 DEF AppInv
<1>2. CASE UNCHANGED vars
  <2>1. TypeOK'
    BY <1>2 DEF vars, versions, runtime, clock, TypeOK
  <2>2. AppInv'
    BY <1>2 DEF vars, versions, runtime, clock, AppInv, Shape, Fits, OwnerInv, HeadInv, PruneInv,
       ProtInv,
       VersionKept, MarkInv, Members, Candidate
  <2>3. QED
    BY <2>1, <2>2
<1>3. QED
  BY <1>1, <1>2

\* The inductive invariant.
LEMMA InvHolds == Spec => [](TypeOK /\ AppInv)
<1>1. TypeOK /\ AppInv /\ [Next]_vars => (TypeOK /\ AppInv)'
  BY StepKeeps
<1>2. QED
  BY InitHolds, <1>1, PTL DEF Spec

\* The pool, the session records, the requests, the sweep and the saves have the types
\* of AppPoolStore.ts and SessionService.ts in every reachable state.
THEOREM TypeCorrect == Spec => []TypeOK
  BY InvHolds, PTL

\* The version that a member of the pool or a session let past the cutoff runs is never
\* pruned, for any number of saves that prune at once, of requests that create sessions,
\* and of failures and crashes in between.  createSession writes the record before it
\* reads the cutoff, pruneVersions moves the cutoff before it reads the records and then
\* the pool: whichever comes first, the other one sees it.
THEOREM VersionKeptHolds == Spec => []VersionKept
<1>1. TypeOK /\ AppInv => VersionKept
  BY DEF AppInv
<1>2. QED
  BY InvHolds, <1>1, PTL

-----------------------------------------------------------------------------
(* Visits keep their session. *)

\* Nobody has asked to stop, replace or undo the session of u, and u is not being admitted.
Undisturbed(u) ==
    /\ ~pool'.deleted /\ req[u].pc # "confirm"
    /\ \A c \in Clients : req[c].old # pool.asg[u] /\ req[c].s # pool.asg[u]

LEMMA VisitsRouted ==
    ASSUME TypeOK, NEW u \in Visitors, Held(pool, u), NEW c \in Clients, Route(c) \/ RouteRestart(c)
    PROVE  pool'.asg[u] = pool.asg[u]
<1> DEFINE v == req[c].v
           p == observeVersion(expireAppPresence(pool), v)
<1>1. v \in 0..MaxVersions /\ req[c].old \in 0..MaxSessions
  BY Types DEF Requests
<1>2. p \in Pools /\ p.asg[u] = pool.asg[u] /\ p.asg[u] # 0
  BY <1>1, RoutedPool DEF Held
<1>3. \/ pool' = pool \/ pool' = p
      \/ /\ p.asg[c] = 0 /\ WithRoom(p, v) # {}
         /\ pool' = [p EXCEPT !.asg[c] = Preferred(p, WithRoom(p, v)),
                              !.idle = @ \ {Preferred(p, WithRoom(p, v))}]
      \/ /\ p.asg[c] = 0 /\ Unused # {}
         /\ pool' = [Reserve(p, NextSession, 0) EXCEPT !.asg[c] = NextSession]
      \/ /\ Unused # {} /\ pool' = Reserve(p, NextSession, req[c].old)
  BY DEF Route, RouteRestart, Put, Keep
<1> HIDE DEF p, v
<1>4. CASE /\ p.asg[c] = 0 /\ WithRoom(p, v) # {}
           /\ pool' = [p EXCEPT !.asg[c] = Preferred(p, WithRoom(p, v)),
                              !.idle = @ \ {Preferred(p, WithRoom(p, v))}]
  <2> DEFINE s == Preferred(p, WithRoom(p, v))
  <2>1. s \in 0..MaxSessions
    <3>1. WithRoom(p, v) \subseteq Sessions
      BY DEF WithRoom, currentVersionMembers
    <3>2. QED
      BY <1>2, <1>4, <3>1, PreferredIs, Numbers
  <2>2. pool' = [p EXCEPT !.asg[c] = s, !.idle = @ \ {s}]
    BY <1>4
  <2> HIDE DEF s
  <2>3. \A x \in Visitors : pool'.asg[x] = IF x = c THEN s ELSE p.asg[x]
    BY <1>2, <2>1, <2>2, AssignShrinks DEF Pools
  <2>4. QED
    BY <1>2, <1>4, <2>3
<1>5. CASE /\ p.asg[c] = 0 /\ Unused # {}
           /\ pool' = [Reserve(p, NextSession, 0) EXCEPT !.asg[c] = NextSession]
  <2> DEFINE s == NextSession
             k == Reserve(p, s, 0)
  <2>1. s \in Sessions /\ s \in 0..MaxSessions
    BY <1>5, NextSessionIs, Numbers
  <2>2. pool' = [k EXCEPT !.asg[c] = s]
    BY <1>5
  <2> HIDE DEF s
  <2>3. k \in Pools /\ k.asg = p.asg
    BY <1>2, <2>1, Numbers, ReserveMeans
  <2> HIDE DEF k
  <2>4. \A x \in Visitors : pool'.asg[x] = IF x = c THEN s ELSE k.asg[x]
    BY <2>1, <2>2, <2>3, AssignMeans DEF Pools
  <2>5. QED
    BY <1>2, <1>5, <2>3, <2>4
<1>6. CASE Unused # {} /\ pool' = Reserve(p, NextSession, req[c].old)
  BY <1>1, <1>2, <1>6, NextSessionIs, ReserveMeans
<1>7. QED
  BY <1>2, <1>3, <1>4, <1>5, <1>6

LEMMA VisitsConfirmed ==
    ASSUME TypeOK, NEW u \in Visitors, Held(pool, u), Undisturbed(u), NEW c \in Clients, Confirm(c)
    PROVE  pool'.asg[u] = pool.asg[u]
<1> DEFINE q == [pool EXCEPT !.asg[c] = 0]
<1>1. c # u /\ req[c].s # pool.asg[u] /\ pool \in Pools
  BY Types DEF Confirm, Undisturbed, At
<1>2. pool' = pool \/ pool' = releaseReservation(pool, req[c].s) \/ pool' = expireAppPresence(q)
  BY DEF Confirm, Put, Keep
<1>3. q \in Pools /\ q.st = pool.st /\ q.asg[u] = pool.asg[u]
  <2> DEFINE asg == [pool.asg EXCEPT ![c] = 0]
  <2>1. asg \in [Visitors -> 0..MaxSessions] /\ asg[u] = pool.asg[u]
    BY <1>1, Fields, Numbers
  <2>2. q = [pool EXCEPT !.asg = asg]
    BY <1>1, Fields DEF Pools
  <2> HIDE DEF asg, q
  <2>3. QED
    BY <1>1, <2>1, <2>2 DEF Pools
<1> HIDE DEF q
<1>4. Held(q, u)
  BY <1>3 DEF Held
<1>5. QED
  BY <1>1, <1>2, <1>3, <1>4, ReleaseShrinks, ExpireHolds

LEMMA VisitsSwept ==
    ASSUME TypeOK, MarkInv, NEW u \in Visitors, Held(pool, u), rec[pool.asg[u]] = "running",
           SweepStep \/ SweepFails
    PROVE  pool'.asg[u] = pool.asg[u]
<1>0. pool \in Pools /\ pool.asg[u] \in Sessions
  BY Types, Numbers DEF Held
<1>1. CASE SweepSync
  BY <1>0, <1>1, SynchronizeShrinks DEF SweepSync, Put
<1>2. CASE SweepMark
  <2> DEFINE p == expireAppPresence(pool)
             q == Retired(p, {Candidate})
  <2>1. p \in Pools /\ p.asg[u] = pool.asg[u] /\ Held(p, u) /\ p.st = pool.st
    BY <1>0, ExpireHolds, ExpireShrinks DEF Shrinks
  <2>2. pool' = p \/ (MayRetire(p, Candidate) /\ pool' = expireAppPresence(q))
    BY <1>2 DEF SweepMark, Put
  <2> HIDE DEF p
  <2>3. ASSUME MayRetire(p, Candidate), pool' = expireAppPresence(q) PROVE pool'.asg[u] = pool.asg[u]
    <3>1. u \in Occupants(p, p.asg[u]) /\ p.st[p.asg[u]] \in {"ready", "draining"}
      BY <2>1 DEF Occupants, Held
    <3>2. Candidate # p.asg[u]
      BY <2>3, <3>1 DEF MayRetire
    <3>3. {Candidate} \intersect Sessions \subseteq Members(p)
      BY <2>3 DEF MayRetire, Members
    <3>4. /\ Shrinks(p, q) /\ q.asg = p.asg
          /\ \A s \in Sessions : q.st[s] = IF s \in {Candidate} THEN "retiring" ELSE p.st[s]
      BY <2>1, <3>3, RetiredShrinks
    <3> HIDE DEF q
    <3>5. q \in Pools /\ Held(q, u)
      BY <1>0, <2>1, <3>1, <3>2, <3>4 DEF Shrinks, Held
    <3>6. QED
      BY <2>1, <2>3, <3>4, <3>5, ExpireHolds
  <2>4. QED
    BY <2>1, <2>2, <2>3
<1>3. CASE SweepRemove
  <2> DEFINE q == Dropped(pool, Candidate)
  <2>1. Candidate # pool.asg[u]
    BY <1>3 DEF SweepRemove, MarkInv, Held
  <2>2. /\ q \in Pools /\ q.asg = pool.asg
        /\ \A t \in Sessions : q.st[t] = IF t = Candidate THEN "none" ELSE pool.st[t]
    BY <1>0, DroppedShrinks DEF Shrinks
  <2>3. pool' = expireAppPresence(q)
    BY <1>3 DEF SweepRemove, Put
  <2> HIDE DEF q
  <2>4. Held(q, u)
    BY <1>0, <2>1, <2>2 DEF Held
  <2>5. QED
    BY <2>2, <2>3, <2>4, ExpireHolds
<1>4. CASE SweepRead \/ SweepDestroy \/ SweepFails
  BY <1>4 DEF SweepRead, SweepDestroy, SweepFails
<1>5. QED
  BY <1>1, <1>2, <1>3, <1>4 DEF SweepStep

LEMMA VisitsStep ==
    ASSUME TypeOK, MarkInv, Next, NEW u \in Visitors, Held(pool, u), rec[pool.asg[u]] = "running",
           Undisturbed(u)
    PROVE  pool'.asg[u] = pool.asg[u]
<1>0. pool \in Pools
  BY Types
<1>1. ASSUME NEW x \in Visitors, Open(x) \/ Presence(x) \/ Lapse(x) PROVE pool'.asg[u] = pool.asg[u]
  BY <1>0, <1>1, ExpireHolds DEF Open, Ask, Presence, Lapse, Put
<1>2. ASSUME NEW a \in Admins, NEW s \in Sessions, Restart(a, s) \/ Stop(a, s)
      PROVE  pool'.asg[u] = pool.asg[u]
  BY <1>2 DEF Restart, Stop, Ask
<1>3. ASSUME NEW c \in Clients, ClientStep(c) \/ Fail(c) \/ UndoFails(c) \/ Crash(c)
      PROVE  pool'.asg[u] = pool.asg[u]
  <2>0. req[c].old # pool.asg[u] /\ req[c].s # pool.asg[u]
    BY DEF Undisturbed
  <2>1. CASE Synchronize(c)
    BY <1>0, <2>1, SynchronizeShrinks DEF Synchronize, Put
  <2>2. CASE Route(c) \/ RouteRestart(c)
    BY <2>2, VisitsRouted
  <2>3. CASE Confirm(c)
    BY <2>3, VisitsConfirmed
  <2>4. CASE InvalidateOld(c)
    BY <1>0, <2>0, <2>4, InvalidateShrinks DEF InvalidateOld, Put
  <2>5. CASE UndoPool(c)
    BY <1>0, <2>0, <2>5, InvalidateShrinks, ReleaseShrinks DEF UndoPool, Put
  <2>6. CASE Complete(c)
    BY <1>0, <2>6, CompletedShrinks DEF Complete, Put, Keep, InTime
  <2>7. CASE Fail(c)
    <3>1. pool' = pool \/ (InTime(req[c].s) /\ pool' = Completed(pool, req[c].s))
      BY <2>7 DEF Fail, Put, Keep
    <3>2. QED
      BY <1>0, <3>1, CompletedShrinks DEF InTime
  <2>8. CASE Terminate(c) \/ DestroyOld(c) \/ Boot(c) \/ Record(c)
    BY <2>8 DEF Terminate, DestroyOld, Boot, Record
  <2>9. CASE Check(c) \/ Run(c) \/ UndoBox(c) \/ UndoRecord(c) \/ UndoFails(c) \/ Crash(c)
    BY <2>9 DEF Check, Run, UndoBox, UndoRecord, UndoFails, Crash
  <2>10. QED
    BY <1>3, <2>1, <2>2, <2>3, <2>4, <2>5, <2>6, <2>7, <2>8, <2>9 DEF ClientStep
<1>4. CASE SweepStep \/ SweepFails
  BY <1>4, VisitsSwept
<1>5. ASSUME NEW w \in Savers, \/ Save(w) \/ Prune(w) \/ ScanSessions(w) \/ ReadPool(w)
                               \/ DeleteVersions(w) \/ PruneFails(w)
      PROVE  pool'.asg[u] = pool.asg[u]
  BY <1>5 DEF Save, Prune, ScanSessions, ReadPool, DeleteVersions, PruneFails
<1>6. ASSUME NEW s \in Sessions, Passing(s) \/ BoxStep(s) PROVE pool'.asg[u] = pool.asg[u]
  BY <1>6 DEF Passing, BoxStep, Late, IdlePasses, expireStale, KernelUse, ReapOrphan, Reclaim
<1>7. ASSUME retireForDeletion PROVE FALSE
  BY <1>0, <1>7, DeletionShrinks DEF retireForDeletion, Put, Undisturbed
<1>8. QED
  BY <1>1, <1>2, <1>3, <1>4, <1>5, <1>6, <1>7 DEF Next, BoxStep

\* No step takes a renewed visit away from its running session, except the admission of
\* that visit, the deletion of the notebook, and requests to stop, replace or undo the
\* session: whatever versions are saved, and however often the pool is swept.
THEOREM VisitsKeptHolds == Spec => VisitsKept
<1>1. ASSUME TypeOK, AppInv, [Next]_vars, NEW u \in Visitors, Held(pool, u), rec[pool.asg[u]] = "running",
             Undisturbed(u), ~UNCHANGED vars
      PROVE  pool'.asg[u] = pool.asg[u]
  BY <1>1, VisitsStep DEF AppInv
<1>2. TypeOK /\ AppInv /\ [Next]_vars =>
        [\A u \in Visitors :
           LET s == pool.asg[u] IN
           /\ s # 0 /\ u \notin lapsed
           /\ pool.st[s] \in {"ready", "draining"} /\ rec[s] = "running"
           =>
                 \/ pool'.asg[u] = s
                 \/ pool'.deleted
                 \/ req[u].pc = "confirm"
                 \/ \E c \in Clients : req[c].old = s \/ req[c].s = s]_vars
  BY <1>1 DEF Held, Undisturbed
<1>3. QED
  BY InvHolds, <1>2, PTL DEF Spec, VisitsKept
=============================================================================
