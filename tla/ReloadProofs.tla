----------------------------- MODULE ReloadProofs -----------------------------
(***************************************************************************)
(* Proofs about `Reload`: for every set of units, every sequence of unit   *)
(* directories and every interleaving of reloads with starts, stops and    *)
(* exits, the directory decides, a start and its process have one          *)
(* definition, and a listener is the one that is held.                     *)
(***************************************************************************)
EXTENDS Reload, WellFoundedInduction, SequenceTheorems, TLAPS

(* The definitions there are. *)
Configs == {InstanceOf} \cup UNION {{d.files[u] : u \in DOMAIN d.files} : d \in UNION Histories}
Runtime ==
  [config : Configs, pending : SUBSET Configs,
   state : {"Inactive", "Active", "Deactivating", "RestartWait", "Failed"},
   restart_at : BOOLEAN, queued : BOOLEAN, retired : BOOLEAN]

(* A runtime has its fields, and a flow is the start of a unit that is     *)
(* there, by the definition the unit has.                                  *)
RuntimeOK(r) == r = [u \in DOMAIN r |-> r[u]] /\ \A u \in DOMAIN r : r[u] \in Runtime
FlowsOK(r, f) == \A u \in DOMAIN f : u \in Live(r) /\ f[u] = r[u].config
(* The definition the next start will use, as a set; a step keeps it.      *)
Said(runtime) == IF runtime.pending = {} THEN {runtime.config} ELSE runtime.pending
Keeps(old, new) == \A c : Said(old) = {c} => Said(new) = {c}
Wins(r, d) ==
  \A u \in Live(r) \ Instances :
    /\ u \in DOMAIN d.files
    /\ Said(r[u]) = {d.files[u]}
Down(r, f) == \A u \in DOMAIN r : r[u].retired => r[u].state # "Active" /\ u \notin DOMAIN f

(* What is handed out is what is held, and no path is held twice.          *)
Held(s) ==
  /\ s.held = [u \in DOMAIN s.held |-> s.held[u]]
  /\ s.fds = s.held
  /\ \A u, v \in DOMAIN s.held : s.held[u] = s.held[v] => u = v

(* The inductive invariant. *)
ReloadInv ==
  /\ loaded \in UNION Histories
  /\ RuntimeOK(rt)
  /\ FlowsOK(rt, flows)
  /\ Wins(rt, loaded)
  /\ Down(rt, flows)
  /\ Held([held |-> held, fds |-> fds])

-------------------------------------------------------------------------------
(* Sockets. *)

(* A set of natural numbers has a least member: what the inductions below  *)
(* over the units of a directory start from.                               *)
LEMMA LeastNumber ==
  ASSUME NEW S \in SUBSET Nat, S # {}
  PROVE  \E n \in S : \A k \in S : n <= k
  <1> DEFINE R == OpToRel(<, Nat)
  <1>1. IsWellFoundedOn(R, Nat)
    BY NatLessThanWellFounded
  <1>2. \A x, y \in Nat : x < y => <<x, y>> \in R
    BY DEF OpToRel
  <1> HIDE DEF R
  <1>3. PICK n \in S : \A y \in S : ~(<<y, n>> \in R)
    BY <1>1, WFMin
  <1>4. ASSUME NEW k \in S PROVE n <= k
    <2>1. k \in Nat /\ n \in Nat
      OBVIOUS
    <2>2. ~(k < n)
      BY <1>2, <1>3, <2>1
    <2> QED BY <2>1, <2>2
  <1> QED BY <1>4

(* One unit's socket is reconciled: what is handed out stays what is held. *)
LEMMA ReconcileHeld ==
  ASSUME NEW s, DOMAIN s = {"held", "fds"}, Held(s), NEW u, NEW path, NEW broken
  PROVE  /\ DOMAIN reconcile_socket(s, u, path, broken) = {"held", "fds"}
         /\ Held(reconcile_socket(s, u, path, broken))
  <1> DEFINE t == reconcile_socket(s, u, path, broken)
             b == Bind(s.held, u, path, broken)
             h == IF u \in DOMAIN s.held /\ s.held[u] = path THEN s.held ELSE b
  <1>1. CASE path = None
    BY <1>1 DEF reconcile_socket, Held, Without
  <1>2. CASE path # None
    <2>1. /\ t.held = h
          /\ t.fds = IF u \in DOMAIN h THEN Put(s.fds, u, h[u]) ELSE Without(s.fds, {u})
          /\ DOMAIN t = {"held", "fds"}
      BY <1>2 DEF reconcile_socket
    <2>2. /\ h = [x \in DOMAIN h |-> h[x]]
          /\ h = s.held \/ h = Put(s.held, u, path)
          /\ \A x, y \in DOMAIN h : h[x] = h[y] => x = y
      BY DEF Held, Bind, Put
    <2>3. t.fds = h
      <3> HIDE DEF h
      <3>1. CASE h = s.held
        BY <3>1, <2>1, <2>2 DEF Held, Put, Without
      <3>2. CASE h = Put(s.held, u, path)
        BY <3>2, <2>1, <2>2 DEF Held, Put, Without
      <3> QED BY <3>1, <3>2, <2>2
    <2>4. DOMAIN t = {"held", "fds"} /\ Held(t)
      <3> HIDE DEF h, t
      <3> QED BY <2>1, <2>2, <2>3 DEF Held
    <2> QED BY <2>4
  <1> QED BY <1>1, <1>2

(* All of them, in any order: by induction on the number that is done.     *)
LEMMA SocketsHeld ==
  ASSUME Len(UnitNames) \in Nat,
         NEW s0, DOMAIN s0 = {"held", "fds"}, Held(s0), NEW files, NEW broken
  PROVE  Held(Sockets(s0, files, broken))
  <1> DEFINE N == Len(UnitNames)
             Step(t, n) == IF UnitNames[n] \notin DOMAIN files THEN t
                           ELSE reconcile_socket(t, UnitNames[n], files[UnitNames[n]].path, broken)
             Body(f, m) == [n \in 0 .. m |-> IF n = 0 THEN s0 ELSE Step(f[n - 1], n)]
             Run == CHOOSE f : f = Body(f, N)
             Done == {m \in 0 .. N : \E f : f = Body(f, m)}
  <1> HIDE DEF N, Step
  <1>1. N \in Nat
    BY DEF N
  <1>2. 0 \in Done
    <2> DEFINE f0 == [n \in 0 .. 0 |-> s0]
    <2>1. f0 = Body(f0, 0)
      OBVIOUS
    <2>2. \E f : f = Body(f, 0)
      BY <2>1
    <2> QED BY <2>2, <1>1
  <1>3. ASSUME NEW m \in 0 .. N, m # N, m \in Done
        PROVE  m + 1 \in Done
    <2>1. PICK f : f = Body(f, m)
      BY <1>3
    <2> DEFINE g == [n \in 0 .. m + 1 |-> IF n <= m THEN f[n] ELSE Step(f[m], m + 1)]
    <2>2. ASSUME NEW n \in 0 .. m + 1
          PROVE  g[n] = IF n = 0 THEN s0 ELSE Step(g[n - 1], n)
      <3>1. CASE n <= m
        <4>1. f[n] = IF n = 0 THEN s0 ELSE Step(f[n - 1], n)
          BY <2>1, <3>1, <1>1
        <4>2. n # 0 => g[n - 1] = f[n - 1]
          BY <3>1, <1>1
        <4> QED BY <4>1, <4>2, <3>1, <1>1
      <3>2. CASE n = m + 1
        BY <3>2, <1>1
      <3> QED BY <3>1, <3>2, <1>1
    <2>3. g = Body(g, m + 1)
      BY <2>2
    <2> HIDE DEF g
    <2> QED BY <2>3, <1>1, <1>3
  <1>4. N \in Done
    <2> SUFFICES ASSUME N \notin Done PROVE FALSE
      OBVIOUS
    <2> DEFINE Open == {m \in 0 .. N : m \notin Done}
    <2> HIDE DEF Done
    <2>1. Open \in SUBSET Nat /\ Open # {}
      BY <1>1
    <2> HIDE DEF Open
    <2>2. PICK m \in Open : \A k \in Open : m <= k
      BY <2>1, LeastNumber
    <2>3. m # 0 /\ m - 1 \in 0 .. N /\ m - 1 # N /\ m - 1 \in Done
      BY <2>2, <1>2, <1>1 DEF Open
    <2> QED BY <2>3, <1>3, <2>2, <1>1 DEF Open
  <1>5. Run = Body(Run, N)
    BY <1>4
  <1>6. /\ Run[0] = s0
        /\ \A n \in 1 .. N : Run[n] = Step(Run[n - 1], n)
    <2> HIDE DEF Run
    <2> QED BY <1>5, <1>1
  <1>7. Sockets(s0, files, broken) = Run[N]
    BY DEF Sockets, N, Step
  <1> DEFINE Good(t) == DOMAIN t = {"held", "fds"} /\ Held(t)
  <1>8. ASSUME NEW t, Good(t), NEW n
        PROVE  Good(Step(t, n))
    BY <1>8, ReconcileHeld DEF Step
  <1> HIDE DEF Run, Good
  <1>9. Good(Run[N])
    <2> DEFINE Bad == {n \in 0 .. N : ~Good(Run[n])}
    <2> SUFFICES ASSUME N \in Bad PROVE FALSE
      BY <1>1
    <2>1. Bad \in SUBSET Nat /\ Bad # {}
      BY <1>1
    <2> HIDE DEF Bad
    <2>2. PICK n \in Bad : \A k \in Bad : n <= k
      BY <2>1, LeastNumber
    <2>3. n # 0
      BY <1>6, <2>2 DEF Good, Bad
    <2>4. Good(Run[n - 1])
      BY <2>2, <2>3, <1>1 DEF Bad
    <2> QED BY <2>4, <2>3, <2>2, <1>6, <1>8, <1>1 DEF Bad
  <1> QED BY <1>7, <1>9 DEF Good

-------------------------------------------------------------------------------
(* Definitions. *)

(* Every definition a directory has is one of the definitions there are.   *)
LEMMA FilesAreConfigs ==
  ASSUME NEW d \in UNION Histories, NEW u \in DOMAIN d.files
  PROVE  d.files[u] \in Configs /\ u \notin Instances /\ u \in Units
  BY ReloadAssumption DEF Configs

(* A runtime made anew. *)
LEMMA NewRuntimeOK ==
  ASSUME NEW c \in Configs
  PROVE  /\ NewRuntime(c) \in Runtime
         /\ NewRuntime(c).config = c /\ NewRuntime(c).pending = {}
         /\ NewRuntime(c).state = "Inactive" /\ NewRuntime(c).retired = FALSE
  BY DEF NewRuntime, Runtime

(* The names of the units are a sequence of some length.                   *)
LEMMA NamesAreFinite == Len(UnitNames) \in Nat
  BY ReloadAssumption, LenProperties

(* adopt: the definition that waited is in force, or nothing has changed.  *)
LEMMA AdoptFacts ==
  ASSUME NEW r, NEW u \in DOMAIN r, r[u] \in Runtime
  PROVE  /\ adopt(r, u) \in Runtime
         /\ adopt(r, u).state = r[u].state /\ adopt(r, u).retired = r[u].retired
         /\ is_up(r, u) => adopt(r, u) = r[u]
         /\ Keeps(r[u], adopt(r, u))
  <1>1. CASE is_up(r, u) \/ r[u].pending = {}
    BY <1>1 DEF adopt, Keeps
  <1>2. CASE ~is_up(r, u) /\ r[u].pending # {}
    <2> DEFINE c == CHOOSE d \in r[u].pending : TRUE
    <2>1. c \in r[u].pending /\ c \in Configs
      BY <1>2 DEF Runtime
    <2>2. adopt(r, u) = [r[u] EXCEPT !.config = c, !.pending = {}]
      BY <1>2 DEF adopt
    <2> HIDE DEF c
    <2>3. /\ adopt(r, u) \in Runtime
          /\ adopt(r, u).state = r[u].state /\ adopt(r, u).retired = r[u].retired
          /\ adopt(r, u).config = c /\ adopt(r, u).pending = {}
      BY <2>1, <2>2 DEF Runtime
    <2> QED BY <2>1, <2>3, <1>2 DEF Keeps, Said
  <1> QED BY <1>1, <1>2

(* add_with_in_flight: the unit is there, by the definition of the file,   *)
(* in force or waiting; what runs or starts keeps the one it has.          *)
LEMMA AddFacts ==
  ASSUME NEW r, NEW u \in DOMAIN r, r[u] \in Runtime, NEW c \in Configs
  PROVE  /\ add_with_in_flight(r, u, c) \in Runtime
         /\ add_with_in_flight(r, u, c).retired = FALSE
         /\ Said(add_with_in_flight(r, u, c)) = {c}
         /\ add_with_in_flight(r, u, c).state = r[u].state
         /\ is_up(r, u) \/ u \in DOMAIN flows => add_with_in_flight(r, u, c).config = r[u].config
  <1> DEFINE a == add_with_in_flight(r, u, c)
             kept == [r[u] EXCEPT !.retired = FALSE, !.pending = {}]
  <1>1. /\ kept \in Runtime /\ kept.retired = FALSE /\ kept.pending = {}
        /\ kept.config = r[u].config /\ kept.state = r[u].state
    BY DEF Runtime
  <1>2. a = IF kept.config = c THEN kept
            ELSE IF is_up(r, u) \/ u \in DOMAIN flows THEN [kept EXCEPT !.pending = {c}]
            ELSE [kept EXCEPT !.config = c]
    BY DEF add_with_in_flight
  <1> HIDE DEF kept, a
  <1>3. CASE kept.config = c
    BY <1>1, <1>2, <1>3 DEF Said, a
  <1>4. CASE kept.config # c /\ (is_up(r, u) \/ u \in DOMAIN flows)
    <2>1. /\ a \in Runtime /\ a.retired = FALSE /\ a.pending = {c}
          /\ a.config = r[u].config /\ a.state = r[u].state
      BY <1>1, <1>2, <1>4 DEF Runtime
    <2> QED BY <2>1 DEF Said, a
  <1>5. CASE kept.config # c /\ ~(is_up(r, u) \/ u \in DOMAIN flows)
    <2>1. /\ a \in Runtime /\ a.retired = FALSE /\ a.pending = {}
          /\ a.config = c /\ a.state = r[u].state
      BY <1>1, <1>2, <1>5 DEF Runtime
    <2> QED BY <2>1, <1>5 DEF Said, a
  <1> QED BY <1>3, <1>4, <1>5

-------------------------------------------------------------------------------
(* The steps. *)

(* Reading the directory: what is pruned, what is gone and what is new.    *)
LEMMA ReloadStep ==
  ASSUME ReloadInv, NEW dir \in Edits, NEW broken, reload(dir, broken)
  PROVE  /\ ReloadInv'
         /\ \A u \in DOMAIN rt \cap DOMAIN rt' :
              /\ u \in DOMAIN flows => rt'[u].config = rt[u].config
              /\ is_up(rt, u) => rt'[u].config = rt[u].config
  <1> DEFINE r0 == prune_retired(rt)
             gone == Gone(r0, dir)
             r1 == StopGone(r0, gone)
             r2 == Registered(r1, dir.files)
             s0 == [held |-> Without(held, gone), fds |-> Without(fds, gone)]
             s1 == Sockets(s0, dir.files, broken)
  <1>1. /\ rt' = r2
        /\ held' = s1.held /\ fds' = s1.fds
        /\ flows' = Without(flows, {u \in DOMAIN flows : u \notin Live(r2)})
        /\ loaded' = dir
    BY DEF reload, after_reload
  <1>2. dir \in UNION Histories
    BY DEF Edits
  <1>3. ASSUME NEW u \in DOMAIN r0
        PROVE  /\ u \in DOMAIN rt /\ r0[u] = rt[u] /\ r0[u] \in Runtime
               /\ is_up(r0, u) <=> is_up(rt, u)
    BY DEF ReloadInv, RuntimeOK, prune_retired, Without, is_up
  <1>4. \A u \in DOMAIN rt : ~rt[u].retired => u \in DOMAIN r0
    BY DEF prune_retired, Without
  <1>5. \A u \in gone : u \in Live(r0) /\ u \notin DOMAIN dir.files
    BY DEF Gone
  <1>6. \A u \in Live(r0) \ gone : u \in DOMAIN dir.files \/ u \in Instances
    BY DEF Gone
  <1>7. DOMAIN r1 = DOMAIN r0
    BY DEF StopGone
  <1>8. ASSUME NEW u \in DOMAIN r1
        PROVE  /\ r1[u] \in Runtime
               /\ r1[u].config = r0[u].config /\ r1[u].pending = r0[u].pending
               /\ u \notin gone => r1[u] = r0[u]
               /\ u \in gone => r1[u].retired /\ r1[u].state # "Active"
               /\ is_up(r1, u) <=> is_up(r0, u)
    <2>1. r0[u] \in Runtime /\ u \in DOMAIN r0
      BY <1>3, <1>7
    <2> HIDE DEF r0, gone
    <2>2. CASE u \notin gone
      BY <2>1, <2>2 DEF StopGone, is_up
    <2>3. CASE u \in gone /\ is_up(r0, u)
      <3>1. r1[u] = retire([r0[u] EXCEPT !.state = "Deactivating"])
        BY <2>1, <2>3 DEF StopGone
      <3>2. /\ r1[u] \in Runtime
            /\ r1[u].config = r0[u].config /\ r1[u].pending = r0[u].pending
            /\ r1[u].state = "Deactivating" /\ r1[u].retired = TRUE
        BY <2>1, <3>1 DEF retire, Runtime
      <3> QED BY <3>2, <2>3, <2>1, <1>7 DEF is_up
    <2>4. CASE u \in gone /\ ~is_up(r0, u)
      <3>1. r1[u] = retire(r0[u])
        BY <2>1, <2>4 DEF StopGone
      <3>2. /\ r1[u] \in Runtime
            /\ r1[u].config = r0[u].config /\ r1[u].pending = r0[u].pending
            /\ r1[u].state = r0[u].state /\ r1[u].retired = TRUE
        BY <2>1, <3>1 DEF retire, Runtime
      <3> QED BY <3>2, <2>4, <2>1, <1>7 DEF is_up
    <2> QED BY <2>2, <2>3, <2>4
  <1>9. DOMAIN r2 = DOMAIN r1 \cup DOMAIN dir.files
    BY DEF Registered
  <1>10. r2 = [u \in DOMAIN r2 |-> r2[u]]
    BY DEF Registered
  <1>11. ASSUME NEW u \in DOMAIN dir.files
         PROVE  /\ r2[u] \in Runtime /\ r2[u].retired = FALSE
                /\ Said(r2[u]) = {dir.files[u]}
                /\ u \in DOMAIN r1 => r2[u].state = r1[u].state
                /\ u \in DOMAIN r1 /\ (is_up(r1, u) \/ u \in DOMAIN flows) => r2[u].config = r1[u].config
    <2>1. r2[u] = add_with_in_flight(r1, u, dir.files[u])
      BY DEF Registered
    <2>2. dir.files[u] \in Configs
      BY <1>2, FilesAreConfigs
    <2>3. u \in DOMAIN r1 => r1[u] \in Runtime
      BY <1>8
    <2> DEFINE a == add_with_in_flight(r1, u, dir.files[u])
    <2> HIDE DEF r1, r2
    <2>4. CASE u \in DOMAIN r1
      <3>1. /\ a \in Runtime /\ a.retired = FALSE /\ Said(a) = {dir.files[u]}
            /\ a.state = r1[u].state
            /\ is_up(r1, u) \/ u \in DOMAIN flows => a.config = r1[u].config
        BY <2>2, <2>3, <2>4, AddFacts
      <3> HIDE DEF a
      <3> QED BY <3>1, <2>1 DEF a
    <2>5. CASE u \notin DOMAIN r1
      <3>1. r2[u] = NewRuntime(dir.files[u])
        BY <2>1, <2>5 DEF add_with_in_flight
      <3> QED BY <3>1, <2>2, <2>5, NewRuntimeOK DEF Said
    <2> QED BY <2>4, <2>5
  <1>12. \A u \in DOMAIN r1 : u \notin DOMAIN dir.files => r2[u] = r1[u]
    BY DEF Registered
  <1> HIDE DEF r0, r1, r2, gone
  <1>13. ASSUME NEW u \in DOMAIN rt, u \in DOMAIN r2, u \in DOMAIN flows \/ is_up(rt, u)
         PROVE  r2[u].config = rt[u].config
    <2>1. u \in DOMAIN r0
      BY <1>13, <1>4 DEF ReloadInv, FlowsOK, Live, prune_retired, Without, r0
    <2>2. r1[u].config = rt[u].config /\ u \in DOMAIN r1 /\ (is_up(r1, u) <=> is_up(rt, u))
      BY <2>1, <1>3, <1>7, <1>8
    <2> QED BY <2>2, <1>11, <1>12, <1>13
  <1>14. RuntimeOK(r2)
    BY <1>8, <1>9, <1>10, <1>11, <1>12 DEF RuntimeOK
  <1>15. FlowsOK(r2, flows')
    <2> SUFFICES ASSUME NEW u \in DOMAIN flows' PROVE u \in Live(r2) /\ flows'[u] = r2[u].config
      BY DEF FlowsOK
    <2>1. u \in DOMAIN flows /\ u \in Live(r2) /\ flows'[u] = flows[u]
      BY <1>1 DEF Without
    <2>2. u \in DOMAIN rt /\ flows[u] = rt[u].config
      BY <2>1 DEF ReloadInv, FlowsOK, Live
    <2> QED BY <2>1, <2>2, <1>13 DEF Live
  <1>16. Wins(r2, dir)
    <2> SUFFICES ASSUME NEW u \in Live(r2) \ Instances
                 PROVE  /\ u \in DOMAIN dir.files
                        /\ Said(r2[u]) = {dir.files[u]}
      BY DEF Wins
    <2>1. u \in DOMAIN dir.files
      <3> SUFFICES ASSUME u \notin DOMAIN dir.files PROVE FALSE
        OBVIOUS
      <3>1. u \in DOMAIN r1 /\ r2[u] = r1[u] /\ ~r1[u].retired
        BY <1>9, <1>12 DEF Live
      <3>2. u \notin gone /\ u \in Live(r0)
        BY <3>1, <1>8, <1>7 DEF Live
      <3> QED BY <3>2, <1>6
    <2> QED BY <2>1, <1>11
  <1>17. Down(r2, flows')
    <2> SUFFICES ASSUME NEW u \in DOMAIN r2, r2[u].retired
                 PROVE  r2[u].state # "Active" /\ u \notin DOMAIN flows'
      BY DEF Down
    <2>1. u \notin DOMAIN dir.files /\ u \in DOMAIN r1 /\ r2[u] = r1[u]
      BY <1>9, <1>11, <1>12
    <2>2. u \notin gone => r1[u] = rt[u] /\ u \in DOMAIN rt
      BY <2>1, <1>3, <1>7, <1>8
    <2>3. r2[u].state # "Active"
      BY <2>1, <2>2, <1>8 DEF ReloadInv, Down
    <2>4. u \notin DOMAIN flows'
      BY <1>1 DEF Without, Live
    <2> QED BY <2>3, <2>4
  <1>18. Held([held |-> held', fds |-> fds'])
    <2>1. Held(s0) /\ DOMAIN s0 = {"held", "fds"}
      BY DEF ReloadInv, Held, Without
    <2> HIDE DEF s0
    <2>2. Held(s1)
      BY <2>1, NamesAreFinite, SocketsHeld
    <2> HIDE DEF s1
    <2> QED BY <2>2, <1>1 DEF Held
  <1>19. ReloadInv'
    BY <1>1, <1>2, <1>14, <1>15, <1>16, <1>17, <1>18 DEF ReloadInv
  <1>20. \A u \in DOMAIN rt \cap DOMAIN rt' :
              /\ u \in DOMAIN flows => rt'[u].config = rt[u].config
              /\ is_up(rt, u) => rt'[u].config = rt[u].config
    BY <1>1, <1>13
  <1> QED BY <1>19, <1>20

(* What keeps the invariant when one unit's runtime changes: it keeps what *)
(* the directory says of it, and it is not brought up once it is removed.  *)
LEMMA OneUnit ==
  ASSUME ReloadInv, NEW u \in DOMAIN rt, NEW n \in Runtime,
         n.retired = rt[u].retired,
         n.retired => n.state # "Active",
         Keeps(rt[u], n),
         UNCHANGED <<loaded, held, fds>>,
         rt' = [rt EXCEPT ![u] = n],
         \A v \in DOMAIN flows' :
           \/ v \in DOMAIN flows /\ flows'[v] = flows[v] /\ (v = u => n.config = rt[u].config)
           \/ v = u /\ ~n.retired /\ flows'[v] = n.config
  PROVE  ReloadInv'
  <1>1. DOMAIN rt' = DOMAIN rt /\ rt'[u] = n /\ \A v \in DOMAIN rt : v # u => rt'[v] = rt[v]
    BY DEF ReloadInv, RuntimeOK
  <1>2. RuntimeOK(rt')
    BY <1>1 DEF ReloadInv, RuntimeOK
  <1>3. \A v : v \in Live(rt') <=> v \in Live(rt)
    BY <1>1 DEF Live
  <1>4. FlowsOK(rt', flows')
    <2> SUFFICES ASSUME NEW v \in DOMAIN flows' PROVE v \in Live(rt') /\ flows'[v] = rt'[v].config
      BY DEF FlowsOK
    <2>1. CASE v \in DOMAIN flows /\ flows'[v] = flows[v] /\ (v = u => n.config = rt[u].config)
      BY <2>1, <1>1, <1>3 DEF ReloadInv, FlowsOK, Live
    <2>2. CASE v = u /\ ~n.retired /\ flows'[v] = n.config
      BY <2>2, <1>1 DEF Live
    <2> QED BY <2>1, <2>2
  <1>5. Wins(rt', loaded')
    <2> SUFFICES ASSUME NEW v \in Live(rt') \ Instances
                 PROVE  /\ v \in DOMAIN loaded.files
                        /\ Said(rt'[v]) = {loaded.files[v]}
      BY DEF Wins
    <2>1. /\ v \in DOMAIN loaded.files /\ v \in DOMAIN rt
          /\ Said(rt[v]) = {loaded.files[v]}
      BY <1>3 DEF ReloadInv, Wins, Live
    <2>2. CASE v = u
      BY <2>1, <2>2, <1>1 DEF Keeps
    <2>3. CASE v # u
      BY <2>1, <2>3, <1>1
    <2> QED BY <2>2, <2>3
  <1>6. Down(rt', flows')
    <2> SUFFICES ASSUME NEW v \in DOMAIN rt', rt'[v].retired
                 PROVE  rt'[v].state # "Active" /\ v \notin DOMAIN flows'
      BY DEF Down
    <2>1. rt'[v].state # "Active"
      BY <1>1 DEF ReloadInv, Down
    <2>2. v \notin DOMAIN flows'
      BY <1>1 DEF ReloadInv, Down
    <2> QED BY <2>1, <2>2
  <1> QED BY <1>2, <1>4, <1>5, <1>6 DEF ReloadInv

(* Only definitions, states and flows matter to the invariant.             *)
LEMMA NothingChanged ==
  ASSUME ReloadInv, UNCHANGED <<loaded, rt, flows, held, fds>>
  PROVE  ReloadInv'
  BY DEF ReloadInv

(* A change of a unit's timers and of its queued start.                    *)
LEMMA TimersOnly ==
  ASSUME ReloadInv, NEW u \in DOMAIN rt, NEW n \in Runtime,
         n.config = rt[u].config, n.pending = rt[u].pending,
         n.state = rt[u].state, n.retired = rt[u].retired,
         UNCHANGED <<loaded, flows, held, fds>>,
         rt' = [rt EXCEPT ![u] = n]
  PROVE  ReloadInv'
  <1>1. n.retired => n.state # "Active"
    BY DEF ReloadInv, Down
  <1>2. \A v \in DOMAIN flows' : v \in DOMAIN flows /\ flows'[v] = flows[v]
    OBVIOUS
  <1>3. Keeps(rt[u], n)
    BY DEF Keeps, Said
  <1> QED BY <1>1, <1>2, <1>3, OneUnit

(* Begin, over a runtime whose timers have changed.                        *)
LEMMA BeginStep ==
  ASSUME ReloadInv, NEW u \in DOMAIN rt, NEW m \in Runtime,
         m.config = rt[u].config, m.pending = rt[u].pending,
         m.state = rt[u].state, m.retired = rt[u].retired,
         Begin([rt EXCEPT ![u] = m], u),
         UNCHANGED <<loaded, held, fds>>
  PROVE  /\ ReloadInv'
         /\ DOMAIN rt' = DOMAIN rt
         /\ \A v \in DOMAIN rt : v \in DOMAIN flows \/ is_up(rt, v) => rt'[v].config = rt[v].config
  <1> DEFINE r == [rt EXCEPT ![u] = m]
             n == adopt(r, u)
  <1>1. DOMAIN r = DOMAIN rt /\ r[u] = m /\ \A v \in DOMAIN rt : v # u => r[v] = rt[v]
    BY DEF ReloadInv, RuntimeOK
  <1>2. CASE u \in DOMAIN flows
    <2>1. rt' = r /\ flows' = flows
      BY <1>2 DEF Begin
    <2>2. ReloadInv'
      BY <2>1, TimersOnly
    <2> QED BY <2>1, <2>2, <1>1
  <1>3. CASE u \notin DOMAIN flows
    <2>1. /\ rt' = Put(r, u, n)
          /\ flows' = IF n.retired THEN flows ELSE Put(flows, u, n.config)
      BY <1>3 DEF Begin
    <2>2. /\ n \in Runtime
          /\ n.state = m.state /\ n.retired = m.retired
          /\ is_up(r, u) => n = m
          /\ Keeps(m, n)
      <3> HIDE DEF r
      <3> QED BY <1>1, AdoptFacts
    <2> HIDE DEF n
    <2>3. rt' = [rt EXCEPT ![u] = n]
      BY <2>1, <1>1 DEF Put, ReloadInv, RuntimeOK
    <2>4. n.retired => n.state # "Active"
      BY <2>2 DEF ReloadInv, Down
    <2>5. \A v \in DOMAIN flows' :
             \/ v \in DOMAIN flows /\ flows'[v] = flows[v] /\ (v = u => n.config = rt[u].config)
             \/ v = u /\ ~n.retired /\ flows'[v] = n.config
      BY <2>1, <1>3 DEF Put
    <2>9. Keeps(rt[u], n)
      BY <2>2 DEF Keeps, Said
    <2>10. n.retired = rt[u].retired
      BY <2>2
    <2> HIDE DEF r
    <2>6. ReloadInv'
      BY <2>2, <2>3, <2>4, <2>5, <2>9, <2>10, OneUnit
    <2>7. DOMAIN rt' = DOMAIN rt /\ rt'[u] = n /\ \A v \in DOMAIN rt : v # u => rt'[v] = rt[v]
      BY <2>3 DEF ReloadInv, RuntimeOK
    <2>8. is_up(rt, u) => n.config = rt[u].config
      BY <2>2, <1>1 DEF is_up
    <2> QED BY <2>6, <2>7, <2>8, <1>3
  <1> QED BY <1>2, <1>3

(* What OneDefinition says of a step. *)
Steady ==
  \A u \in DOMAIN rt \cap DOMAIN rt' :
    /\ u \in DOMAIN flows /\ rt'[u].state = "Active" => rt'[u].config = flows[u]
    /\ is_up(rt, u) /\ is_up(rt', u) => rt'[u].config = rt[u].config

(* It is enough that what starts or runs keeps its definition.             *)
LEMMA SteadyIfKept ==
  ASSUME ReloadInv,
         \A u \in DOMAIN rt \cap DOMAIN rt' :
           u \in DOMAIN flows \/ is_up(rt, u) => rt'[u].config = rt[u].config
  PROVE  Steady
  BY DEF Steady, ReloadInv, FlowsOK

(* A refused directory leaves the flows of the units that are there.       *)
LEMMA RejectedStep ==
  ASSUME ReloadInv, reload_rejected
  PROVE  ReloadInv' /\ Steady
  <1>1. UNCHANGED <<loaded, rt, held, fds>>
    BY DEF reload_rejected
  <1>2. flows' = Without(flows, {u \in DOMAIN flows : u \notin Live(rt)})
    BY DEF reload_rejected, after_reload
  <1>3. \A u \in DOMAIN flows' : u \in DOMAIN flows /\ flows'[u] = flows[u]
    BY <1>2 DEF Without
  <1>4. FlowsOK(rt, flows') /\ Down(rt, flows')
    BY <1>3 DEF ReloadInv, FlowsOK, Down
  <1>5. ReloadInv'
    BY <1>1, <1>4 DEF ReloadInv
  <1> QED BY <1>1, <1>5, SteadyIfKept

(* A client's start makes an instance over whatever the name has.          *)
LEMMA ControlStartStep ==
  ASSUME ReloadInv, NEW u \in Units, control_start(u)
  PROVE  ReloadInv' /\ Steady
  <1>1. UNCHANGED <<loaded, flows, held, fds>>
    BY DEF control_start
  <1>2. CASE u \in Live(rt)
    <2>1. rt' = rt
      BY <1>2 DEF control_start
    <2>2. ReloadInv'
      BY <1>1, <2>1, NothingChanged
    <2> QED BY <2>1, <2>2, SteadyIfKept
  <1>3. CASE u \notin Live(rt)
    <2> DEFINE n == NewRuntime(InstanceOf)
    <2>1. rt' = Put(rt, u, n) /\ u \in Instances
      BY <1>3 DEF control_start
    <2>2. n \in Runtime /\ n.state = "Inactive" /\ n.retired = FALSE
      BY NewRuntimeOK DEF Configs
    <2> HIDE DEF n
    <2>3. /\ DOMAIN rt' = DOMAIN rt \cup {u} /\ rt'[u] = n
          /\ \A v \in DOMAIN rt : v # u => rt'[v] = rt[v]
          /\ rt' = [v \in DOMAIN rt' |-> rt'[v]]
      BY <2>1 DEF Put
    <2>4. u \notin DOMAIN flows
      BY <1>3 DEF ReloadInv, FlowsOK
    <2>5. RuntimeOK(rt')
      BY <2>2, <2>3 DEF ReloadInv, RuntimeOK
    <2>6. FlowsOK(rt', flows)
      BY <2>3, <2>4 DEF ReloadInv, FlowsOK, Live
    <2>7. Wins(rt', loaded)
      BY <2>1, <2>3 DEF ReloadInv, Wins, Live
    <2>8. Down(rt', flows)
      BY <2>2, <2>3 DEF ReloadInv, Down
    <2>9. ReloadInv'
      BY <1>1, <2>5, <2>6, <2>7, <2>8 DEF ReloadInv
    <2>10. Steady
      BY <2>2, <2>3, <2>4 DEF Steady, ReloadInv, FlowsOK, is_up
    <2> QED BY <2>9, <2>10
  <1> QED BY <1>2, <1>3

(* A step that sets a unit's state and timers, and may drop its flow.      *)
LEMMA StateStep ==
  ASSUME ReloadInv, NEW u \in DOMAIN rt, NEW n \in Runtime,
         n.config = rt[u].config, n.pending = rt[u].pending, n.retired = rt[u].retired,
         n.retired => n.state # "Active",
         UNCHANGED <<loaded, held, fds>>,
         rt' = [rt EXCEPT ![u] = n],
         flows' = flows \/ flows' = Without(flows, {u})
  PROVE  ReloadInv' /\ Steady
  <1>1. \A v \in DOMAIN flows' : v \in DOMAIN flows /\ flows'[v] = flows[v]
    BY DEF Without
  <1>2. Keeps(rt[u], n)
    BY DEF Keeps, Said
  <1>3. ReloadInv'
    BY <1>1, <1>2, OneUnit
  <1>4. \A v \in DOMAIN rt \cap DOMAIN rt' : rt'[v].config = rt[v].config
    BY DEF ReloadInv, RuntimeOK
  <1> QED BY <1>3, <1>4, SteadyIfKept

(* A client's stop. *)
LEMMA ControlStopStep ==
  ASSUME ReloadInv, NEW u \in Units, control_stop(u)
  PROVE  ReloadInv' /\ Steady
  <1> DEFINE st == IF is_up(rt, u) THEN "Deactivating" ELSE "Inactive"
             n == [rt[u] EXCEPT !.queued = FALSE, !.restart_at = FALSE, !.state = st]
  <1>1. u \in DOMAIN rt /\ rt[u] \in Runtime
    BY DEF control_stop, Live, ReloadInv, RuntimeOK
  <1>2. rt' = [rt EXCEPT ![u] = n]
    BY <1>1 DEF control_stop, ReloadInv, RuntimeOK
  <1>3. st \in {"Deactivating", "Inactive"}
    OBVIOUS
  <1> HIDE DEF st
  <1>4. /\ n \in Runtime /\ n.config = rt[u].config /\ n.pending = rt[u].pending
        /\ n.retired = rt[u].retired /\ n.state # "Active"
    BY <1>1, <1>3 DEF Runtime
  <1>5. UNCHANGED <<loaded, held, fds>> /\ flows' = Without(flows, {u})
    BY DEF control_stop
  <1> HIDE DEF n
  <1> QED BY <1>1, <1>2, <1>4, <1>5, StateStep

(* The end of a start. *)
LEMMA FlowEndsStep ==
  ASSUME ReloadInv, NEW u \in Units, flow_ends(u)
  PROVE  ReloadInv' /\ Steady
  <1>1. u \in DOMAIN rt /\ rt[u] \in Runtime /\ ~rt[u].retired
    BY DEF flow_ends, ReloadInv, FlowsOK, Live, RuntimeOK
  <1>2. PICK st \in {"Active", "Failed"} : rt' = [rt EXCEPT ![u].state = st, ![u].restart_at = FALSE]
    BY DEF flow_ends
  <1> DEFINE n == [rt[u] EXCEPT !.state = st, !.restart_at = FALSE]
  <1>3. rt' = [rt EXCEPT ![u] = n]
    BY <1>1, <1>2 DEF ReloadInv, RuntimeOK
  <1>4. /\ n \in Runtime /\ n.config = rt[u].config /\ n.pending = rt[u].pending
        /\ n.retired = rt[u].retired
    BY <1>1 DEF Runtime
  <1>5. UNCHANGED <<loaded, held, fds>> /\ flows' = Without(flows, {u})
    BY DEF flow_ends
  <1> HIDE DEF n
  <1> QED BY <1>1, <1>3, <1>4, <1>5, StateStep

(* The end of a process. *)
LEMMA ExitStep ==
  ASSUME ReloadInv, NEW u \in Units, exit(u)
  PROVE  ReloadInv' /\ Steady
  <1>1. u \in DOMAIN rt /\ rt[u] \in Runtime
    BY DEF exit, is_up, ReloadInv, RuntimeOK
  <1>2. PICK restart \in BOOLEAN :
          rt' = [rt EXCEPT ![u].state = IF restart THEN "RestartWait" ELSE "Inactive",
                           ![u].restart_at = restart]
    BY DEF exit
  <1> DEFINE st == IF restart THEN "RestartWait" ELSE "Inactive"
             n == [rt[u] EXCEPT !.state = st, !.restart_at = restart]
  <1>3. rt' = [rt EXCEPT ![u] = n]
    BY <1>1, <1>2 DEF ReloadInv, RuntimeOK
  <1>4. st \in {"RestartWait", "Inactive"}
    OBVIOUS
  <1> HIDE DEF st
  <1>5. /\ n \in Runtime /\ n.config = rt[u].config /\ n.pending = rt[u].pending
        /\ n.retired = rt[u].retired /\ n.state # "Active"
    BY <1>1, <1>4 DEF Runtime
  <1>6. UNCHANGED <<loaded, flows, held, fds>>
    BY DEF exit
  <1> HIDE DEF n
  <1> QED BY <1>1, <1>3, <1>5, <1>6, StateStep

(* Steps that leave definitions, states and flows alone.                   *)
LEMMA QuietStep ==
  ASSUME ReloadInv, UNCHANGED <<loaded, rt, flows, held, fds>>
  PROVE  ReloadInv' /\ Steady
  BY NothingChanged, SteadyIfKept

(* The timers of a restart and of a queued start.                          *)
LEMMA BeginIsSteady ==
  ASSUME ReloadInv, NEW u \in DOMAIN rt, NEW m \in Runtime,
         m.config = rt[u].config, m.pending = rt[u].pending,
         m.state = rt[u].state, m.retired = rt[u].retired,
         Begin([rt EXCEPT ![u] = m], u),
         UNCHANGED <<loaded, held, fds>>
  PROVE  ReloadInv' /\ Steady
  <1>1. /\ ReloadInv' /\ DOMAIN rt' = DOMAIN rt
        /\ \A v \in DOMAIN rt : v \in DOMAIN flows \/ is_up(rt, v) => rt'[v].config = rt[v].config
    BY BeginStep
  <1> QED BY <1>1, SteadyIfKept

(* due_restarts. *)
LEMMA RestartDueStep ==
  ASSUME ReloadInv, NEW u \in Units, restart_due(u)
  PROVE  ReloadInv' /\ Steady
  <1> DEFINE m == [rt[u] EXCEPT !.restart_at = FALSE]
  <1>1. u \in DOMAIN rt /\ rt[u] \in Runtime
    BY DEF restart_due, ReloadInv, RuntimeOK
  <1>2. /\ m \in Runtime /\ m.config = rt[u].config /\ m.pending = rt[u].pending
        /\ m.state = rt[u].state /\ m.retired = rt[u].retired
    BY <1>1 DEF Runtime
  <1>3. [rt EXCEPT ![u].restart_at = FALSE] = [rt EXCEPT ![u] = m]
    BY <1>1
  <1> HIDE DEF m
  <1>4. Begin([rt EXCEPT ![u] = m], u) /\ UNCHANGED <<loaded, held, fds>>
    BY <1>3 DEF restart_due
  <1> QED BY <1>1, <1>2, <1>4, BeginIsSteady

(* due_queued_starts. *)
LEMMA QueuedDueStep ==
  ASSUME ReloadInv, NEW u \in Units, queued_due(u)
  PROVE  ReloadInv' /\ Steady
  <1> DEFINE m == [rt[u] EXCEPT !.queued = FALSE]
  <1>1. u \in DOMAIN rt /\ rt[u] \in Runtime
    BY DEF queued_due, ReloadInv, RuntimeOK
  <1>2. /\ m \in Runtime /\ m.config = rt[u].config /\ m.pending = rt[u].pending
        /\ m.state = rt[u].state /\ m.retired = rt[u].retired
    BY <1>1 DEF Runtime
  <1>3. [rt EXCEPT ![u].queued = FALSE] = [rt EXCEPT ![u] = m]
    BY <1>1
  <1> HIDE DEF m
  <1>4. UNCHANGED <<loaded, held, fds>>
    BY DEF queued_due
  <1>5. CASE rt[u].retired \/ rt[u].state = "Active"
    <2>1. rt' = [rt EXCEPT ![u] = m] /\ flows' = flows
      BY <1>3, <1>5 DEF queued_due
    <2>2. m.retired => m.state # "Active"
      BY <1>1, <1>2 DEF ReloadInv, Down
    <2> QED BY <1>1, <1>2, <1>4, <2>1, <2>2, StateStep
  <1>6. CASE ~(rt[u].retired \/ rt[u].state = "Active")
    <2>1. Begin([rt EXCEPT ![u] = m], u)
      BY <1>3, <1>6 DEF queued_due
    <2> QED BY <1>1, <1>2, <1>4, <2>1, BeginIsSteady
  <1> QED BY <1>5, <1>6

(* A job's next unit. *)
LEMMA JobNextStep ==
  ASSUME ReloadInv, NEW i, job_next(i)
  PROVE  ReloadInv' /\ Steady
  <1> DEFINE u == Head(jobs[i].rest)
             quiet == UNCHANGED <<rt, flows>>
             queues == u \in DOMAIN rt /\ rt' = [rt EXCEPT ![u].queued = TRUE] /\ flows' = flows
             begins == u \in DOMAIN rt /\ Begin(rt, u)
  <1>1. quiet \/ queues \/ begins
    BY DEF job_next
  <1>2. UNCHANGED <<loaded, held, fds>>
    BY DEF job_next
  <1> HIDE DEF u
  <1>3. CASE quiet
    BY <1>2, <1>3, QuietStep
  <1>4. CASE queues
    <2> DEFINE m == [rt[u] EXCEPT !.queued = TRUE]
    <2>1. u \in DOMAIN rt /\ rt[u] \in Runtime
      BY <1>4 DEF ReloadInv, RuntimeOK
    <2>2. /\ m \in Runtime /\ m.config = rt[u].config /\ m.pending = rt[u].pending
          /\ m.state = rt[u].state /\ m.retired = rt[u].retired
      BY <2>1 DEF Runtime
    <2>3. rt' = [rt EXCEPT ![u] = m] /\ flows' = flows
      BY <1>4, <2>1
    <2> HIDE DEF m
    <2>4. m.retired => m.state # "Active"
      BY <2>1, <2>2 DEF ReloadInv, Down
    <2> QED BY <2>1, <2>2, <2>3, <2>4, <1>2, StateStep
  <1>5. CASE begins
    <2> DEFINE m == rt[u]
    <2>1. u \in DOMAIN rt /\ m \in Runtime
      BY <1>5 DEF ReloadInv, RuntimeOK
    <2>2. rt = [rt EXCEPT ![u] = m]
      BY <2>1 DEF ReloadInv, RuntimeOK
    <2>3. Begin([rt EXCEPT ![u] = m], u)
      BY <1>5, <2>2
    <2> QED BY <2>1, <2>3, <1>2, BeginIsSteady
  <1> QED BY <1>1, <1>3, <1>4, <1>5

(* Every step keeps the invariant, and what starts or runs keeps its       *)
(* definition.                                                             *)
LEMMA NextStep ==
  ASSUME ReloadInv, ReloadNext
  PROVE  ReloadInv' /\ Steady
  <1>1. ASSUME NEW dir \in Edits, NEW broken, reload(dir, broken)
        PROVE  ReloadInv' /\ Steady
    BY <1>1, ReloadStep, SteadyIfKept
  <1>2. ASSUME NEW i, job_wait(i)
        PROVE  ReloadInv' /\ Steady
    BY <1>2, QuietStep DEF job_wait
  <1>3. CASE stray_exit
    BY <1>3, QuietStep DEF stray_exit
  <1> QED BY <1>1, <1>2, <1>3, RejectedStep, ControlStartStep, ControlStopStep, JobNextStep,
             RestartDueStep, QueuedDueStep, FlowEndsStep, ExitStep DEF ReloadNext

(* The units and sockets a boot prepares.                                  *)
LEMMA InitHolds ==
  ASSUME ReloadInit
  PROVE  ReloadInv
  <1> DEFINE files == loaded.files
             s0 == [held |-> <<>>, fds |-> <<>>]
  <1>1. loaded \in UNION Histories /\ flows = <<>>
    BY DEF ReloadInit
  <1>2. PICK broken \in SUBSET Paths(files) :
          /\ held = Sockets(s0, files, broken).held /\ fds = Sockets(s0, files, broken).fds
          /\ \E dead \in SUBSET DOMAIN files :
               rt = [u \in DOMAIN files |->
                       [NewRuntime(files[u]) EXCEPT !.state = IF u \in dead THEN "Failed" ELSE "Inactive"]]
    <2>1. PICK broken \in SUBSET Paths(files) :
            LET s == Sockets(s0, files, broken)
                deaf == {u \in DOMAIN files : files[u].path # None /\ u \notin DOMAIN s.held}
                required == [u \in DOMAIN files |-> files[u].requires]
                fails(u) == deaf \cap ({u} \cup Reach(required, u)) # {}
            IN /\ rt = [u \in DOMAIN files |->
                          [NewRuntime(files[u]) EXCEPT !.state = IF fails(u) THEN "Failed" ELSE "Inactive"]]
               /\ held = s.held /\ fds = s.fds
      BY DEF ReloadInit
    <2> DEFINE s == Sockets(s0, files, broken)
               deaf == {u \in DOMAIN files : files[u].path # None /\ u \notin DOMAIN s.held}
               required == [u \in DOMAIN files |-> files[u].requires]
               dead == {u \in DOMAIN files : deaf \cap ({u} \cup Reach(required, u)) # {}}
    <2>2. /\ held = s.held /\ fds = s.fds
          /\ rt = [u \in DOMAIN files |->
                     [NewRuntime(files[u]) EXCEPT !.state = IF u \in dead THEN "Failed" ELSE "Inactive"]]
      BY <2>1
    <2> HIDE DEF s, dead
    <2>3. dead \in SUBSET DOMAIN files
      BY DEF dead
    <2> QED BY <2>2, <2>3 DEF s
  <1>3. PICK dead \in SUBSET DOMAIN files :
          rt = [u \in DOMAIN files |->
                  [NewRuntime(files[u]) EXCEPT !.state = IF u \in dead THEN "Failed" ELSE "Inactive"]]
    BY <1>2
  <1>4. DOMAIN rt = DOMAIN files /\ rt = [u \in DOMAIN rt |-> rt[u]]
    BY <1>3
  <1>5. ASSUME NEW u \in DOMAIN rt
        PROVE  /\ rt[u] \in Runtime /\ rt[u].config = files[u] /\ rt[u].pending = {}
               /\ rt[u].retired = FALSE
    <2>1. files[u] \in Configs
      BY <1>1, <1>4, FilesAreConfigs
    <2>2. \E st \in {"Failed", "Inactive"} : rt[u] = [NewRuntime(files[u]) EXCEPT !.state = st]
      BY <1>3, <1>4
    <2> HIDE DEF files
    <2> QED BY <2>1, <2>2, NewRuntimeOK DEF Runtime
  <1>6. RuntimeOK(rt)
    BY <1>4, <1>5 DEF RuntimeOK
  <1>7. FlowsOK(rt, flows) /\ Down(rt, flows)
    <2>1. DOMAIN flows = {}
      BY <1>1
    <2>2. \A u \in DOMAIN rt : ~rt[u].retired
      BY <1>5
    <2> QED BY <2>1, <2>2 DEF FlowsOK, Down
  <1>8. Wins(rt, loaded)
    BY <1>4, <1>5 DEF Wins, Live, Said
  <1>9. Held([held |-> held, fds |-> fds])
    <2>1. Held(s0) /\ DOMAIN s0 = {"held", "fds"}
      BY DEF Held
    <2> HIDE DEF s0, files
    <2>2. Held(Sockets(s0, files, broken))
      BY <2>1, NamesAreFinite, SocketsHeld
    <2> QED BY <2>2, <1>2 DEF Held
  <1> QED BY <1>1, <1>6, <1>7, <1>8, <1>9 DEF ReloadInv

-------------------------------------------------------------------------------
(* The theorems. *)

(* The invariant holds in every reachable state.                           *)
LEMMA ReloadInvariant == ReloadSpec => []ReloadInv
  <1>1. ReloadInv /\ UNCHANGED reloadVars => ReloadInv'
    BY NothingChanged DEF reloadVars
  <1>2. ReloadInv /\ [ReloadNext]_reloadVars => ReloadInv'
    BY <1>1, NextStep
  <1> QED BY InitHolds, <1>2, PTL DEF ReloadSpec

(* Whatever was deferred, withdrawn, removed and brought back, for every   *)
(* sequence of directories: the next start of a unit uses the definition   *)
(* of the last directory that was accepted, and a unit that is gone from   *)
(* it stays down.                                                          *)
THEOREM DirectoryDecidesAlways == ReloadSpec => []DirectoryDecides
  <1>1. ReloadInv => DirectoryDecides
    BY DEF ReloadInv, Wins, Said, Down, DirectoryDecides, DirectoryWins, RemovedStaysDown
  <1> QED BY <1>1, ReloadInvariant, PTL

(* For every directory, and whichever binds fail: the descriptor a service *)
(* is handed is that of the socket rinit holds for it, and no path is held *)
(* for two units.                                                          *)
THEOREM ListenerIsHeldAlways == ReloadSpec => []ListenerIsHeld
  <1>1. ReloadInv => ListenerIsHeld
    BY DEF ReloadInv, Held, ListenerIsHeld
  <1> QED BY <1>1, ReloadInvariant, PTL

(* The commands of a start and its process come from one definition, and   *)
(* no reload changes it while the process runs.                            *)
THEOREM OneDefinitionAlways == ReloadSpec => OneDefinition
  <1>1. ReloadInv /\ [ReloadNext]_reloadVars => [Steady]_reloadVars
    BY NextStep
  <1> QED BY <1>1, ReloadInvariant, PTL DEF ReloadSpec, OneDefinition, Steady
===============================================================================
