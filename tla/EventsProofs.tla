----------------------------- MODULE EventsProofs -----------------------------
(***************************************************************************)
(* Proofs about two of the machines of the `events` run.                   *)
(*                                                                         *)
(* `Login`: for every console, every pair of account files and whatever is *)
(* typed, through failing calls, interruptions and restarts of rgetty, a   *)
(* shell is earned, its terminal is its user's and utmp counts it.         *)
(*                                                                         *)
(* `Activation`: for every choice of its three times, a service is stopped *)
(* as idle only when it is.                                                *)
(***************************************************************************)
EXTENDS Activation, Login, WellFoundedInduction, SequenceTheorems, FiniteSetTheorems, TLAPS

(* The account files of a console. *)
LineOf(c, name) == Find(c.passwd, LAMBDA line : line.name = name /\ Numeric(line.uid))
ShadowOf(c, name) == Find(c.shadow, LAMBDA line : line.name = name)
Denied(line) == shadow_login_denied(line, Today)
HashOf(c, user) ==
  IF ShadowOf(c, user.name) # <<>> /\ Denied(ShadowOf(c, user.name)[1]) THEN <<>>
  ELSE IF user.password \notin {"x", Blank} THEN <<user.password>>
  ELSE IF ShadowOf(c, user.name) = <<>> THEN <<>>
  ELSE <<ShadowOf(c, user.name)[1].hash>>

(* What rlogin knows of a name: before it asks for the password, after it  *)
(* was judged, and after the accounting.                                   *)
InPlace(c, name) == LineOf(c, name)[1].uid = 0 => c.secure
Asks(c, name) == LineOf(c, name) # <<>> => InPlace(c, name) /\ HashOf(c, LineOf(c, name)[1]) # <<>>
Passes(c, name, password) ==
  /\ LineOf(c, name) # <<>>
  /\ InPlace(c, name)
  /\ HashOf(c, LineOf(c, name)[1]) # <<>>
  /\ verify_hash(password, HashOf(c, LineOf(c, name)[1])[1])
Admitted(c, name) == ~(c.nologin /\ LineOf(c, name)[1].uid # 0)

(* The records have their fields. *)
IsTty(t) == DOMAIN t = {"owner", "mode", "flags", "echo", "ahead", "fg"} /\ t = [x \in DOMAIN t |-> t[x]]
IsGetty(g) ==
  /\ DOMAIN g = {"at", "starts", "tries", "user", "killed"}
  /\ g.at \in {None, "open", "prompt", "spawn", "wait"} /\ g.killed \in BOOLEAN
IsLogin(l) == DOMAIN l = {"at", "user", "force", "failures", "signals", "cred", "name", "password"}

(* Who is logging in: the name that was typed, and what it has shown.      *)
Named == {"check", "password", "granted", "identity", "exec", "shell"}
WhoOK(c, l) ==
  /\ l.force = Blank
  /\ l.at \in {None, "start", "name"} \cup Named
  /\ l.at \in Named => l.user = l.name /\ l.user # Blank
  /\ l.at = "password" => Asks(c, l.user)
  /\ l.at \in {"granted", "identity", "exec", "shell"} => Passes(c, l.user, l.password)
  /\ l.at \in {"identity", "exec", "shell"} => Admitted(c, l.user)
  /\ l.at \in {"exec", "shell"} => l.cred = l.user /\ l.signals = "default"

(* rlogin runs in the session of an rgetty that waits, on a terminal.      *)
PhaseOK(c, g, l) ==
  /\ l.at # None => g.at = "wait"
  /\ g.at \in {"prompt", "spawn", "wait"} => c.kind = "tty"

(* The terminal, from the prompt to the shell. *)
Fresh ==
  [owner |-> "root", mode |-> "private", flags |-> "sane", echo |-> TRUE, ahead |-> FALSE, fg |-> "getty"]
TtyOK(c, g, l, t) ==
  /\ g.at \in {"prompt", "spawn"} => t = Fresh
  /\ l.at # None => t.fg = "login"
  /\ l.at \notin {None, "shell"} => t.flags = "sane"
  /\ l.at \notin {None, "shell", "password"} => t.echo = TRUE
  /\ l.at = "exec" => t.owner = l.user /\ t.mode = "private"
  /\ l.at = "shell" /\ t.flags = "sane" => t.owner = l.user /\ t.mode = "private" /\ t.echo = TRUE
  /\ c.kind # "tty" => t.owner = "nobody"

(* A user is on record from the accounting until rgetty has ended, or is   *)
(* left there by an rgetty that was killed until the next one has opened   *)
(* the terminal.                                                           *)
Id == tty_id(Real)
UtmpOK(c, g, l, m) ==
  /\ m = [id \in {Id} |-> m[id]]
  /\ c.writable =>
       /\ m[Id].kind = "USER" => g.at = "wait" \/ (g.at \in {None, "open"} /\ g.killed)
       /\ l.at \in {"identity", "exec", "shell"} => m[Id].kind = "USER" /\ m[Id].user = l.user

(* The inductive invariant. *)
Good(c, g, l, t, m) ==
  /\ c \in Consoles
  /\ IsTty(t) /\ IsGetty(g) /\ IsLogin(l)
  /\ WhoOK(c, l)
  /\ PhaseOK(c, g, l)
  /\ TtyOK(c, g, l, t)
  /\ UtmpOK(c, g, l, m)
LoginInv == Good(console, getty, login, tty, utmp)

-------------------------------------------------------------------------------
(* The account files. *)

(* A set of natural numbers has a least member. *)
LEMMA LeastNumber ==
  ASSUME NEW S \in SUBSET Nat, S # {}
  PROVE  \E n \in S : \A k \in S : n <= k
  <1> DEFINE R == OpToRel(<, Nat)
  <1>1. IsWellFoundedOn(R, Nat)
    BY NatLessThanWellFounded
  <1>2. \A x, y \in Nat : x < y => <<x, y>> \in R
    BY DEF OpToRel
  <1> HIDE DEF R
  <1>3. PICK n \in S : \A y \in S : ~(<<y, n>> \in R)
    BY <1>1, WFMin
  <1>4. ASSUME NEW k \in S PROVE n <= k
    <2>1. k \in Nat /\ n \in Nat
      OBVIOUS
    <2>2. ~(k < n)
      BY <1>2, <1>3, <2>1
    <2> QED BY <2>1, <2>2
  <1> QED BY <1>4

(* The operators of `Login`, for its console. *)
LEMMA Accounts ==
  /\ \A name : parse_passwd(name) = LineOf(console, name)
  /\ \A user : password_hash(user) = HashOf(console, user)
  BY DEF parse_passwd, LineOf, password_hash, HashOf, shadow_fields, ShadowOf, Denied

(* `parse_passwd` returns a line of the file: one of the name, with a      *)
(* number for the user.                                                    *)
LEMMA LineFound ==
  ASSUME NEW c \in Consoles, NEW name, LineOf(c, name) # <<>>
  PROVE  /\ LineOf(c, name)[1] \in ToSet(c.passwd)
         /\ LineOf(c, name)[1].name = name
         /\ Numeric(LineOf(c, name)[1].uid)
  <1> DEFINE hits == {i \in DOMAIN c.passwd : c.passwd[i].name = name /\ Numeric(c.passwd[i].uid)}
             least == CHOOSE i \in hits : \A j \in hits : i <= j
  <1>1. LineOf(c, name) = IF hits = {} THEN <<>> ELSE <<c.passwd[least]>>
    BY DEF LineOf, Find
  <1>2. hits # {}
    BY <1>1
  <1>3. hits \in SUBSET Nat
    BY AccountsAssumption
  <1>4. least \in hits
    <2> HIDE DEF hits
    <2>1. PICK n \in hits : \A k \in hits : n <= k
      BY <1>2, <1>3, LeastNumber
    <2> QED BY <2>1
  <1>5. LineOf(c, name)[1] = c.passwd[least]
    BY <1>1, <1>2
  <1> HIDE DEF least
  <1> QED BY <1>4, <1>5 DEF ToSet

(* `shadow_fields` returns the first line of the name, and nothing only if *)
(* there is none.                                                          *)
LEMMA ShadowFound ==
  ASSUME NEW c \in Consoles, NEW name
  PROVE  /\ ShadowOf(c, name) = <<>> <=> ~\E i \in DOMAIN c.shadow : c.shadow[i].name = name
         /\ ShadowOf(c, name) # <<>> =>
              /\ ShadowOf(c, name)[1] = FirstOf(c.shadow, name)
              /\ ShadowOf(c, name)[1] \in ToSet(c.shadow)
  <1> DEFINE hits == {i \in DOMAIN c.shadow : c.shadow[i].name = name}
             least == CHOOSE i \in hits : \A j \in hits : i <= j
             First(line) == \E i \in DOMAIN c.shadow :
                              c.shadow[i] = line /\ line.name = name /\ \A j \in 1 .. i - 1 : c.shadow[j].name # name
  <1>1. ShadowOf(c, name) = IF hits = {} THEN <<>> ELSE <<c.shadow[least]>>
    BY DEF ShadowOf, Find
  <1>2. ShadowOf(c, name) = <<>> <=> hits = {}
    BY <1>1
  <1>3. CASE hits = {}
    BY <1>2, <1>3
  <1>4. CASE hits # {}
    <2>1. DOMAIN c.shadow = 1 .. Len(c.shadow) /\ Len(c.shadow) \in Nat
      BY AccountsAssumption
    <2>2. hits \in SUBSET Nat
      BY <2>1
    <2>3. least \in hits /\ \A j \in hits : least <= j
      <3> HIDE DEF hits
      <3>1. PICK n \in hits : \A k \in hits : n <= k
        BY <1>4, <2>2, LeastNumber
      <3> QED BY <3>1
    <2>4. ShadowOf(c, name)[1] = c.shadow[least]
      BY <1>1, <1>4
    <2> HIDE DEF least
    <2>5. c.shadow[least] \in ToSet(c.shadow)
      BY <2>3 DEF ToSet
    <2>6. First(c.shadow[least])
      BY <2>1, <2>3
    <2>7. ASSUME NEW line, First(line)
          PROVE  line = c.shadow[least]
      <3>1. PICK i \in DOMAIN c.shadow :
              c.shadow[i] = line /\ line.name = name /\ \A j \in 1 .. i - 1 : c.shadow[j].name # name
        BY <2>7
      <3>2. i \in hits /\ least <= i
        BY <3>1, <2>3
      <3>3. ~(least < i)
        BY <3>1, <2>1, <2>3
      <3> QED BY <3>1, <3>2, <3>3, <2>1, <2>3
    <2>8. FirstOf(c.shadow, name) = CHOOSE line \in ToSet(c.shadow) : First(line)
      BY DEF FirstOf
    <2> HIDE DEF First
    <2>9. FirstOf(c.shadow, name) = c.shadow[least]
      BY <2>5, <2>6, <2>7, <2>8
    <2> QED BY <2>3, <2>4, <2>5, <2>9, <1>2, <1>4
  <1> QED BY <1>3, <1>4

(* A name that passed and was admitted has earned its shell.               *)
LEMMA PassedIsEarned ==
  ASSUME console \in Consoles, NEW name, NEW password,
         Passes(console, name, password), Admitted(console, name)
  PROVE  Earned(name, password)
  <1> DEFINE line == LineOf(console, name)[1]
             shadow == ShadowOf(console, name)
             hash == HashOf(console, line)
  <1>1. line \in ToSet(console.passwd) /\ line.name = name /\ Numeric(line.uid)
    BY LineFound DEF Passes
  <1>2. hash # <<>> /\ verify_hash(password, hash[1])
    BY DEF Passes
  <1>3. IF line.uid = 0 THEN console.secure ELSE ~console.nologin
    BY DEF Passes, InPlace, Admitted
  <1>4. hash = IF shadow # <<>> /\ Denied(shadow[1]) THEN <<>>
               ELSE IF line.password \notin {"x", Blank} THEN <<line.password>>
               ELSE IF shadow = <<>> THEN <<>>
               ELSE <<shadow[1].hash>>
    BY <1>1 DEF HashOf
  <1> HIDE DEF line, hash
  <1>5. HasShadow(name) => shadow # <<>> /\ shadow[1] = FirstOf(console.shadow, name)
    BY ShadowFound DEF HasShadow
  <1>6. shadow # <<>> => shadow[1] = FirstOf(console.shadow, name) /\ shadow[1] \in ToSet(console.shadow)
    BY ShadowFound
  <1> HIDE DEF shadow
  <1>7. HasShadow(name) => ~Expired(FirstOf(console.shadow, name))
    <2> SUFFICES ASSUME HasShadow(name) PROVE ~Expired(shadow[1])
      BY <1>5
    <2>1. ~Denied(shadow[1])
      BY <1>2, <1>4, <1>5
    <2>2. /\ shadow[1].last \in Int /\ shadow[1].max \in Int /\ shadow[1].expire \in Int
          /\ Today \in Int
      BY <1>5, <1>6, AccountsAssumption
    <2> QED BY <2>1, <2>2 DEF Denied, shadow_login_denied, Expired, Numeric
  <1>8. hash[1] = IF line.password \in {"x", Blank} THEN FirstOf(console.shadow, name).hash ELSE line.password
    BY <1>2, <1>4, <1>6
  <1>9. hash[1] = Blank \/ (hash[1] = password /\ Crypted(hash[1]))
    BY <1>2 DEF verify_hash
  <1> QED BY <1>1, <1>3, <1>7, <1>8, <1>9 DEF Earned

-------------------------------------------------------------------------------
(* The command line rgetty makes for rlogin. *)

(* `parse_args` takes one argument after the other. *)
Result(a) == [a EXCEPT !.bad = @ \/ a.value # None]
InOrder(args, run) ==
  /\ parse_args(args) = Result(run[Len(args)])
  /\ run[0] = NoArguments
  /\ \A n \in 1 .. Len(args) : run[n] = Argument(run[n - 1], args[n])
LEMMA ArgumentsInOrder ==
  ASSUME NEW args, Len(args) \in Nat
  PROVE  \E run : InOrder(args, run)
  <1> DEFINE N == Len(args)
             Step(t, n) == Argument(t, args[n])
             Body(f, m) == [n \in 0 .. m |-> IF n = 0 THEN NoArguments ELSE Step(f[n - 1], n)]
             Run == CHOOSE f : f = Body(f, N)
             Done == {m \in 0 .. N : \E f : f = Body(f, m)}
  <1> HIDE DEF N, Step
  <1>1. N \in Nat
    BY DEF N
  <1>2. 0 \in Done
    <2> DEFINE f0 == [n \in 0 .. 0 |-> NoArguments]
    <2>1. f0 = Body(f0, 0)
      OBVIOUS
    <2>2. \E f : f = Body(f, 0)
      BY <2>1
    <2> QED BY <2>2, <1>1
  <1>3. ASSUME NEW m \in 0 .. N, m # N, m \in Done
        PROVE  m + 1 \in Done
    <2>1. PICK f : f = Body(f, m)
      BY <1>3
    <2> DEFINE g == [n \in 0 .. m + 1 |-> IF n <= m THEN f[n] ELSE Step(f[m], m + 1)]
    <2>2. ASSUME NEW n \in 0 .. m + 1
          PROVE  g[n] = IF n = 0 THEN NoArguments ELSE Step(g[n - 1], n)
      <3>1. CASE n <= m
        <4>1. f[n] = IF n = 0 THEN NoArguments ELSE Step(f[n - 1], n)
          BY <2>1, <3>1, <1>1
        <4>2. n # 0 => g[n - 1] = f[n - 1]
          BY <3>1, <1>1
        <4> QED BY <4>1, <4>2, <3>1, <1>1
      <3>2. CASE n = m + 1
        BY <3>2, <1>1
      <3> QED BY <3>1, <3>2, <1>1
    <2>3. g = Body(g, m + 1)
      BY <2>2
    <2> HIDE DEF g
    <2> QED BY <2>3, <1>1, <1>3
  <1>4. N \in Done
    <2> SUFFICES ASSUME N \notin Done PROVE FALSE
      OBVIOUS
    <2> DEFINE Open == {m \in 0 .. N : m \notin Done}
    <2> HIDE DEF Done
    <2>1. Open \in SUBSET Nat /\ Open # {}
      BY <1>1
    <2> HIDE DEF Open
    <2>2. PICK m \in Open : \A k \in Open : m <= k
      BY <2>1, LeastNumber
    <2>3. m # 0 /\ m - 1 \in 0 .. N /\ m - 1 # N /\ m - 1 \in Done
      BY <2>2, <1>2, <1>1 DEF Open
    <2> QED BY <2>3, <1>3, <2>2, <1>1 DEF Open
  <1>5. Run = Body(Run, N)
    BY <1>4
  <1>6. parse_args(args) = Result(Run[N])
    BY DEF parse_args, N, Step, Result
  <1>7. /\ Run[0] = NoArguments
        /\ \A n \in 1 .. N : Run[n] = Step(Run[n - 1], n)
    <2> HIDE DEF Run
    <2> QED BY <1>5, <1>1
  <1> HIDE DEF Run
  <1>8. InOrder(args, Run)
    BY <1>6, <1>7 DEF N, Step, InOrder
  <1> QED BY <1>8

(* What is left to read: the parser between two arguments. *)
Parsed(name, options, value) ==
  [username |-> name, force_user |-> Blank, bad |-> FALSE, options |-> options, value |-> value]

(* The arguments rgetty gives: the option with its host is taken, "--"     *)
(* ends the options, and whatever follows is the name.                     *)
LEMMA ArgumentSteps ==
  /\ Argument(Parsed(Blank, TRUE, None), "-h") = Parsed(Blank, TRUE, "-h")
  /\ Argument(Parsed(Blank, TRUE, "-h"), "here") = Parsed(Blank, TRUE, None)
  /\ Argument(Parsed(Blank, TRUE, None), "--") = Parsed(Blank, FALSE, None)
  /\ \A arg : Argument(Parsed(Blank, FALSE, None), arg) = Parsed(arg, FALSE, None)
  BY DEF Argument, Option, Operand, Parsed, None

(* Whatever the name looks like, rlogin takes it for the name and nothing  *)
(* else: `-f` typed at rgetty's prompt is not the option.                  *)
LEMMA NameIsOperand ==
  ASSUME NEW user
  PROVE  /\ parse_args(LoginArgs(user)).username = user
         /\ parse_args(LoginArgs(user)).force_user = Blank
         /\ ~parse_args(LoginArgs(user)).bad
  <1> DEFINE args == LoginArgs(user)
  <1>0. NoArguments = Parsed(Blank, TRUE, None)
    BY DEF NoArguments, Parsed
  <1>1. /\ Result(Parsed(user, FALSE, None)).username = user
        /\ Result(Parsed(user, FALSE, None)).force_user = Blank
        /\ ~Result(Parsed(user, FALSE, None)).bad
    BY DEF Parsed, Result
  <1>2. CASE console.host /\ user = Blank
    <2>1. Len(args) = 3 /\ args[1] = "-h" /\ args[2] = "here" /\ args[3] = "--"
      BY <1>2 DEF LoginArgs
    <2> HIDE DEF args
    <2>2. PICK run : InOrder(args, run)
      BY <2>1, ArgumentsInOrder
    <2>3. run[1] = Argument(run[0], "-h") /\ run[2] = Argument(run[1], "here") /\ run[3] = Argument(run[2], "--")
      BY <2>1, <2>2 DEF InOrder
    <2>4. run[3] = Parsed(Blank, FALSE, None)
      BY <2>2, <2>3, <1>0, ArgumentSteps DEF InOrder
    <2>5. parse_args(args) = Result(Parsed(user, FALSE, None))
      BY <2>1, <2>2, <2>4, <1>2 DEF InOrder
    <2> QED BY <2>5, <1>1 DEF args
  <1>3. CASE console.host /\ user # Blank
    <2>1. Len(args) = 4 /\ args[1] = "-h" /\ args[2] = "here" /\ args[3] = "--" /\ args[4] = user
      BY <1>3 DEF LoginArgs
    <2> HIDE DEF args
    <2>2. PICK run : InOrder(args, run)
      BY <2>1, ArgumentsInOrder
    <2>3. /\ run[1] = Argument(run[0], "-h") /\ run[2] = Argument(run[1], "here")
          /\ run[3] = Argument(run[2], "--") /\ run[4] = Argument(run[3], user)
      BY <2>1, <2>2 DEF InOrder
    <2>4. run[4] = Parsed(user, FALSE, None)
      BY <2>2, <2>3, <1>0, ArgumentSteps DEF InOrder
    <2>5. parse_args(args) = Result(Parsed(user, FALSE, None))
      BY <2>1, <2>2, <2>4 DEF InOrder
    <2> QED BY <2>5, <1>1 DEF args
  <1>4. CASE ~console.host /\ user = Blank
    <2>1. Len(args) = 1 /\ args[1] = "--"
      BY <1>4 DEF LoginArgs
    <2> HIDE DEF args
    <2>2. PICK run : InOrder(args, run)
      BY <2>1, ArgumentsInOrder
    <2>3. run[1] = Argument(run[0], "--")
      BY <2>1, <2>2 DEF InOrder
    <2>4. run[1] = Parsed(Blank, FALSE, None)
      BY <2>2, <2>3, <1>0, ArgumentSteps DEF InOrder
    <2>5. parse_args(args) = Result(Parsed(user, FALSE, None))
      BY <2>1, <2>2, <2>4, <1>4 DEF InOrder
    <2> QED BY <2>5, <1>1 DEF args
  <1>5. CASE ~console.host /\ user # Blank
    <2>1. Len(args) = 2 /\ args[1] = "--" /\ args[2] = user
      BY <1>5 DEF LoginArgs
    <2> HIDE DEF args
    <2>2. PICK run : InOrder(args, run)
      BY <2>1, ArgumentsInOrder
    <2>3. run[1] = Argument(run[0], "--") /\ run[2] = Argument(run[1], user)
      BY <2>1, <2>2 DEF InOrder
    <2>4. run[2] = Parsed(user, FALSE, None)
      BY <2>2, <2>3, <1>0, ArgumentSteps DEF InOrder
    <2>5. parse_args(args) = Result(Parsed(user, FALSE, None))
      BY <2>1, <2>2, <2>4 DEF InOrder
    <2> QED BY <2>5, <1>1 DEF args
  <1> QED BY <1>2, <1>3, <1>4, <1>5

-------------------------------------------------------------------------------
(* The moves of the two processes. *)

(* rlogin is gone: what holds of the rest holds without it.                *)
LEMMA LoginGone ==
  ASSUME NEW c, NEW g, NEW l, NEW t, NEW m, Good(c, g, l, t, m)
  PROVE  Good(c, g, NoLogin, t, m)
  <1>1. IsLogin(NoLogin) /\ NoLogin.at = None /\ NoLogin.force = Blank
    BY DEF IsLogin, NoLogin
  <1>2. WhoOK(c, NoLogin)
    BY <1>1 DEF WhoOK, Named, None
  <1>3. PhaseOK(c, g, NoLogin)
    BY <1>1 DEF PhaseOK, Good
  <1>4. TtyOK(c, g, NoLogin, t)
    BY <1>1 DEF TtyOK, Good, None
  <1>5. UtmpOK(c, g, NoLogin, m)
    BY <1>1 DEF UtmpOK, Good, None
  <1> QED BY <1>1, <1>2, <1>3, <1>4, <1>5 DEF Good

(* rgetty is gone, and its session with it: when it was killed, or when no *)
(* user is on record.                                                      *)
Ended(g, killed) == [g EXCEPT !.at = None, !.user = Blank, !.tries = 0, !.killed = @ \/ killed]
LEMMA GettyGone ==
  ASSUME NEW c, NEW g, NEW l, NEW t, NEW m, Good(c, g, l, t, m), NEW killed \in BOOLEAN,
         killed \/ g.at # "wait" \/ (c.writable => m[Id].kind # "USER")
  PROVE  Good(c, Ended(g, killed), NoLogin, t, m)
  <1> DEFINE e == Ended(g, killed)
  <1>1. DOMAIN e = DOMAIN g /\ e.at = None /\ e.killed = (g.killed \/ killed)
    BY DEF Ended, Good, IsGetty
  <1>2. e.killed \in BOOLEAN
    BY <1>1
  <1>3. Good(c, g, NoLogin, t, m) /\ NoLogin.at = None
    BY LoginGone DEF NoLogin
  <1> HIDE DEF e
  <1>4. IsGetty(e)
    BY <1>1, <1>2 DEF Good, IsGetty
  <1>5. PhaseOK(c, e, NoLogin)
    BY <1>1, <1>3 DEF PhaseOK, None
  <1>6. TtyOK(c, e, NoLogin, t)
    BY <1>1, <1>3 DEF TtyOK, Good, None
  <1>7. c.writable /\ m[Id].kind = "USER" => e.killed
    <2> SUFFICES ASSUME c.writable, m[Id].kind = "USER" PROVE g.killed \/ killed
      BY <1>1
    <2>1. g.at = "wait" \/ (g.at \in {None, "open"} /\ g.killed)
      BY DEF Good, UtmpOK
    <2> QED BY <2>1
  <1>8. UtmpOK(c, e, NoLogin, m)
    BY <1>1, <1>3, <1>7 DEF UtmpOK, Good, None
  <1> QED BY <1>3, <1>4, <1>5, <1>6, <1>8 DEF Good, e

(* rlogin goes on, before the accounting.                                  *)
LEMMA LoginGoesOn ==
  ASSUME NEW c, NEW g, NEW l, NEW t, NEW m, Good(c, g, l, t, m),
         l.at \in {"start", "name", "check"},
         NEW next, IsLogin(next), WhoOK(c, next), next.at \in {"name", "check", "password", "granted"}
  PROVE  Good(c, g, next, t, m)
  <1>1. PhaseOK(c, g, next)
    BY DEF PhaseOK, Good, None
  <1>2. TtyOK(c, g, next, t)
    BY DEF TtyOK, Good, None
  <1>3. UtmpOK(c, g, next, m)
    BY DEF UtmpOK, Good
  <1> QED BY <1>1, <1>2, <1>3 DEF Good

(* A try that failed: rlogin asks again, or ends.                          *)
LEMMA TryFails ==
  ASSUME NEW c, NEW l, IsLogin(l), l.force = Blank
  PROVE  \/ FailedTry(l) = NoLogin
         \/ IsLogin(FailedTry(l)) /\ WhoOK(c, FailedTry(l)) /\ FailedTry(l).at = "name"
  <1> DEFINE k == l.failures + 1
             f == [l EXCEPT !.failures = k, !.at = "name", !.user = Blank]
  <1>1. FailedTry(l) = NoLogin \/ FailedTry(l) = f
    BY DEF FailedTry
  <1> HIDE DEF k
  <1>2. IsLogin(f) /\ f.at = "name" /\ f.force = Blank
    BY DEF IsLogin
  <1>3. WhoOK(c, f)
    <2> HIDE DEF f
    <2> QED BY <1>2 DEF WhoOK, Named
  <1> QED BY <1>1, <1>2, <1>3

(* What is judged: the name passes, or the try has failed.                 *)
LEMMA Judged ==
  ASSUME NEW c, NEW g, NEW l, NEW t, NEW m, Good(c, g, l, t, m), l.at = "check"
  PROVE  /\ Good(c, g, FailedTry(l), t, m)
         /\ Asks(c, l.user) => Good(c, g, [l EXCEPT !.at = "password"], t, m)
         /\ Passes(c, l.user, l.password) => Good(c, g, [l EXCEPT !.at = "granted"], t, m)
  <1>1. l.force = Blank /\ IsLogin(l) /\ l.user = l.name /\ l.user # Blank
    BY DEF Good, WhoOK, Named
  <1>2. Good(c, g, FailedTry(l), t, m)
    BY <1>1, TryFails, LoginGone, LoginGoesOn
  <1>3. ASSUME NEW at \in {"password", "granted"},
               at = "password" => Asks(c, l.user),
               at = "granted" => Passes(c, l.user, l.password)
        PROVE  Good(c, g, [l EXCEPT !.at = at], t, m)
    <2> DEFINE n == [l EXCEPT !.at = at]
    <2>1. /\ IsLogin(n) /\ n.at = at /\ n.user = l.user /\ n.name = l.name
          /\ n.force = l.force /\ n.password = l.password
      BY <1>1 DEF IsLogin
    <2> HIDE DEF n
    <2>2. WhoOK(c, n)
      BY <2>1, <1>1, <1>3 DEF WhoOK, Named
    <2>3. Good(c, g, n, t, m)
      BY <2>1, <2>2, LoginGoesOn
    <2> QED BY <2>3 DEF n
  <1> QED BY <1>2, <1>3

(* A record of utmp is written, or the file is not ours to write.          *)
LEMMA Recorded ==
  ASSUME LoginInv, NEW path, tty_id(path) = Id, NEW kind, NEW user,
         record(kind, path, user)
  PROVE  /\ utmp' = [id \in {Id} |-> utmp'[id]]
         /\ console.writable => utmp'[Id].kind = kind /\ utmp'[Id].user = user
  <1>1. utmp = [id \in {Id} |-> utmp[id]]
    BY DEF LoginInv, Good, UtmpOK
  <1>2. utmp' = IF console.writable THEN [utmp EXCEPT ![Id] = [kind |-> kind, user |-> user]] ELSE utmp
    BY DEF record
  <1> QED BY <1>1, <1>2

-------------------------------------------------------------------------------
(* rgetty keeps the invariant. *)

(* The start of rgetty. *)
LEMMA getty_start_Inv ==
  ASSUME LoginInv, getty_start
  PROVE  LoginInv'
  <1>1. /\ IsGetty(getty') /\ getty'.at = "open" /\ getty'.killed = getty.killed /\ login.at = None
    BY DEF LoginInv, Good, IsGetty, PhaseOK, getty_start, None
  <1>2. PhaseOK(console, getty', login)
    BY <1>1 DEF PhaseOK
  <1>3. TtyOK(console, getty', login, tty)
    BY <1>1 DEF TtyOK, LoginInv, Good, None
  <1>4. UtmpOK(console, getty', login, utmp)
    BY <1>1 DEF UtmpOK, LoginInv, Good, None, getty_start
  <1> QED BY <1>1, <1>2, <1>3, <1>4 DEF LoginInv, Good, getty_start

(* `open_tty` steps: the terminal is a terminal before it changes hands,   *)
(* and is made new by the last of them.                                    *)
LEMMA Opened ==
  ASSUME NEW n \in 0 .. 11, IsTty(tty), \A i \in 1 .. n : Possible(OpenSteps[i])
  PROVE  /\ IsTty(OpenedUpTo(n))
         /\ console.kind # "tty" => OpenedUpTo(n).owner = tty.owner
         /\ n = 11 => OpenedUpTo(n) = Fresh /\ console.kind = "tty"
  <1> DEFINE reached(step) == \E i \in 1 .. n : OpenSteps[i] = step
             t == IF reached("tcsetattr") THEN configure_termios(tty) ELSE tty
             o == OpenedUpTo(n)
  <1>1. o = [t EXCEPT !.fg = IF reached("tcsetpgrp") THEN "getty" ELSE @,
                      !.owner = IF reached("fchown") THEN "root" ELSE @,
                      !.mode = IF reached("fchmod") THEN "private" ELSE @,
                      !.ahead = IF reached("tcflush") THEN FALSE ELSE @]
    BY DEF OpenedUpTo
  <1>2. n >= 2 => console.kind = "tty"
    <2> SUFFICES ASSUME n >= 2 PROVE console.kind = "tty"
      OBVIOUS
    <2>1. Possible("isatty")
      BY DEF OpenSteps
    <2> QED BY <2>1 DEF Possible
  <1>3. reached("fchown") => n >= 2
    BY DEF OpenSteps
  <1>4. n = 11 => /\ reached("tcsetattr") /\ reached("tcsetpgrp") /\ reached("fchown")
                  /\ reached("fchmod") /\ reached("tcflush")
    BY DEF OpenSteps
  <1> HIDE DEF reached, o
  <1>5. IsTty(t) /\ t.owner = tty.owner /\ (reached("tcsetattr") => t.echo = TRUE /\ t.flags = "sane")
    BY DEF configure_termios, IsTty
  <1> HIDE DEF t
  <1>6. /\ IsTty(o)
        /\ o.owner = IF reached("fchown") THEN "root" ELSE tty.owner
    BY <1>1, <1>5 DEF IsTty
  <1>7. ASSUME n = 11 PROVE o = Fresh
    <2>1. /\ o.owner = "root" /\ o.mode = "private" /\ o.flags = "sane" /\ o.echo = TRUE
          /\ o.ahead = FALSE /\ o.fg = "getty"
      BY <1>1, <1>4, <1>5, <1>7 DEF IsTty
    <2> QED BY <2>1, <1>6 DEF IsTty, Fresh
  <1> QED BY <1>2, <1>3, <1>6, <1>7 DEF o

(* The terminal is opened, or rgetty gives up half-way.                    *)
LEMMA open_tty_Inv ==
  ASSUME LoginInv, open_tty
  PROVE  LoginInv'
  <1>0. /\ Len(OpenSteps) = 11
        /\ getty.at = "open" /\ login.at = None
    BY DEF OpenSteps, open_tty, LoginInv, Good, PhaseOK
  <1>1. PICK n \in 0 .. 11 :
          /\ \A i \in 1 .. n : Possible(OpenSteps[i])
          /\ tty' = OpenedUpTo(n)
          /\ IF n < 11 THEN GettyExit(FALSE) /\ UNCHANGED utmp
             ELSE /\ getty' = [getty EXCEPT !.at = IF console.prompt THEN "prompt" ELSE "spawn", !.killed = FALSE]
                  /\ record("LOGIN", console.path, "LOGIN")
                  /\ UNCHANGED login
    BY <1>0 DEF open_tty
  <1>2. console' = console
    BY DEF open_tty
  <1>3. /\ IsTty(tty')
        /\ console.kind # "tty" => tty'.owner = tty.owner
        /\ n = 11 => tty' = Fresh /\ console.kind = "tty"
    BY <1>1, Opened DEF LoginInv, Good
  <1>4. CASE n < 11
    <2>1. Good(console, getty, login, tty', utmp)
      <3>1. TtyOK(console, getty, login, tty')
        BY <1>0, <1>3 DEF TtyOK, LoginInv, Good, None
      <3> QED BY <3>1, <1>3 DEF LoginInv, Good
    <2>2. Good(console, Ended(getty, FALSE), NoLogin, tty', utmp)
      BY <2>1, <1>0, GettyGone
    <2>3. getty' = Ended(getty, FALSE) /\ login' = NoLogin /\ utmp' = utmp
      BY <1>1, <1>4 DEF GettyExit, Ended
    <2> QED BY <2>2, <2>3, <1>2 DEF LoginInv
  <1>5. CASE n = 11
    <2>1. /\ getty' = [getty EXCEPT !.at = IF console.prompt THEN "prompt" ELSE "spawn", !.killed = FALSE]
          /\ record("LOGIN", console.path, "LOGIN")
          /\ login' = login
      BY <1>1, <1>5
    <2>2. IsGetty(getty') /\ getty'.at \in {"prompt", "spawn"}
      BY <2>1 DEF LoginInv, Good, IsGetty
    <2>3. /\ utmp' = [id \in {Id} |-> utmp'[id]]
          /\ console.writable => utmp'[Id].kind = "LOGIN"
      BY <2>1, Recorded, PathAssumption DEF LoginInv, Good, Id
    <2>4. PhaseOK(console, getty', login)
      BY <2>2, <1>0, <1>3, <1>5 DEF PhaseOK
    <2>5. TtyOK(console, getty', login, tty')
      BY <2>2, <1>0, <1>3, <1>5 DEF TtyOK, None
    <2>6. UtmpOK(console, getty', login, utmp')
      BY <2>2, <2>3, <1>0 DEF UtmpOK, None
    <2> QED BY <2>1, <2>2, <2>4, <2>5, <2>6, <1>2, <1>3 DEF LoginInv, Good
  <1> QED BY <1>4, <1>5

(* A name is typed at rgetty's prompt, or the time is up.                  *)
LEMMA prompt_username_Inv ==
  ASSUME LoginInv, prompt_username
  PROVE  LoginInv'
  <1>0. console' = console /\ tty' = tty /\ utmp' = utmp /\ getty.at = "prompt"
    BY DEF prompt_username
  <1>1. CASE GettyExit(FALSE)
    <2>1. Good(console, Ended(getty, FALSE), NoLogin, tty, utmp)
      BY <1>0, GettyGone DEF LoginInv
    <2> QED BY <2>1, <1>0, <1>1 DEF LoginInv, GettyExit, Ended
  <1>2. CASE \E name \in Typed.names :
               /\ getty' = [getty EXCEPT !.user = name, !.tries = @ + 1,
                                         !.at = IF name # Blank \/ getty.tries + 1 = 3 THEN "spawn" ELSE @]
               /\ UNCHANGED login
    <2>1. PICK name \in Typed.names :
               /\ getty' = [getty EXCEPT !.user = name, !.tries = @ + 1,
                                         !.at = IF name # Blank \/ getty.tries + 1 = 3 THEN "spawn" ELSE @]
               /\ UNCHANGED login
      BY <1>2
    <2>2. /\ DOMAIN getty' = DOMAIN getty
          /\ getty'.at \in {"prompt", "spawn"} /\ getty'.killed = getty.killed
      BY <2>1, <1>0 DEF LoginInv, Good, IsGetty
    <2>3. IsGetty(getty')
      BY <2>2 DEF LoginInv, Good, IsGetty
    <2>4. login.at = None
      BY <1>0 DEF LoginInv, Good, PhaseOK
    <2>5. PhaseOK(console, getty', login)
      BY <2>2, <2>4, <1>0 DEF LoginInv, Good, PhaseOK
    <2>6. TtyOK(console, getty', login, tty)
      BY <2>2, <1>0 DEF LoginInv, Good, TtyOK
    <2>7. UtmpOK(console, getty', login, utmp)
      BY <2>2, <2>4, <1>0 DEF LoginInv, Good, UtmpOK, None
    <2> QED BY <2>1, <2>3, <2>5, <2>6, <2>7, <1>0 DEF LoginInv, Good
  <1> QED BY <1>1, <1>2 DEF prompt_username

(* rlogin is run with the terminal, or rgetty gives up.                    *)
LEMMA spawn_login_Inv ==
  ASSUME LoginInv, spawn_login
  PROVE  LoginInv'
  <1>0. /\ console' = console /\ utmp' = utmp /\ getty.at = "spawn" /\ login.at = None
        /\ tty = Fresh /\ console.kind = "tty"
    BY DEF spawn_login, LoginInv, Good, PhaseOK, TtyOK
  <1>1. /\ IsTty(tty') /\ tty'.flags = "sane" /\ tty'.echo = TRUE
    BY <1>0 DEF spawn_login, IsTty, Fresh
  <1>2. CASE GettyExit(FALSE)
    <2> DEFINE e == Ended(getty, FALSE)
    <2>1. Good(console, e, NoLogin, tty, utmp)
      BY <1>0, GettyGone DEF LoginInv
    <2>2. e.at = None /\ NoLogin.at = None
      BY DEF Ended, LoginInv, Good, IsGetty, NoLogin
    <2> HIDE DEF e
    <2>3. TtyOK(console, e, NoLogin, tty')
      BY <2>2, <1>0 DEF TtyOK, None
    <2> QED BY <2>1, <2>3, <1>0, <1>1, <1>2 DEF LoginInv, Good, GettyExit, Ended, e
  <1>3. CASE /\ tty'.fg = "login"
             /\ getty' = [getty EXCEPT !.at = "wait"]
             /\ login' = [NoLogin EXCEPT !.at = "start"]
    <2>1. /\ IsGetty(getty') /\ getty'.at = "wait"
          /\ IsLogin(login') /\ login'.at = "start" /\ login'.force = Blank
      BY <1>3 DEF LoginInv, Good, IsGetty, IsLogin, NoLogin
    <2>2. WhoOK(console, login')
      BY <2>1 DEF WhoOK, Named
    <2>3. PhaseOK(console, getty', login')
      BY <2>1, <1>0 DEF PhaseOK
    <2>4. TtyOK(console, getty', login', tty')
      BY <2>1, <1>0, <1>1, <1>3 DEF TtyOK, None
    <2>5. UtmpOK(console, getty', login', utmp)
      BY <2>1 DEF UtmpOK, LoginInv, Good
    <2> QED BY <2>1, <2>2, <2>3, <2>4, <2>5, <1>0, <1>1 DEF LoginInv, Good
  <1> QED BY <1>2, <1>3 DEF spawn_login

(* The session has ended, and is taken from the record.                    *)
LEMMA session_end_Inv ==
  ASSUME LoginInv, session_end
  PROVE  LoginInv'
  <1>0. /\ console' = console /\ tty' = tty /\ login.at = None
        /\ getty' = Ended(getty, FALSE) /\ login' = NoLogin
        /\ record("DEAD", console.path, Blank)
    BY DEF session_end, GettyExit, Ended
  <1>1. /\ utmp' = [id \in {Id} |-> utmp'[id]]
        /\ console.writable => utmp'[Id].kind = "DEAD"
    BY <1>0, Recorded, PathAssumption DEF LoginInv, Good, Id
  <1>2. UtmpOK(console, getty, login, utmp')
    BY <1>0, <1>1 DEF UtmpOK, None
  <1>3. Good(console, getty, login, tty, utmp')
    BY <1>2 DEF LoginInv, Good
  <1>4. Good(console, Ended(getty, FALSE), NoLogin, tty, utmp')
    BY <1>3, <1>1, GettyGone
  <1> QED BY <1>4, <1>0 DEF LoginInv

(* rgetty is killed: the record of its user is left. *)
LEMMA getty_killed_Inv ==
  ASSUME LoginInv, getty_killed
  PROVE  LoginInv'
  <1>1. Good(console, Ended(getty, TRUE), NoLogin, tty, utmp)
    BY GettyGone DEF LoginInv
  <1> QED BY <1>1 DEF LoginInv, getty_killed, GettyExit, Ended

-------------------------------------------------------------------------------
(* rlogin keeps the invariant. *)

(* rlogin ends and leaves the rest as it is. *)
LEMMA ExitsInv ==
  ASSUME LoginInv, Exits, console' = console, getty' = getty
  PROVE  LoginInv'
  <1>1. Good(console, getty, NoLogin, tty, utmp)
    BY LoginGone DEF LoginInv
  <1> QED BY <1>1 DEF LoginInv, Exits

(* The command line is read. *)
LEMMA login_run_Inv ==
  ASSUME LoginInv, login_run
  PROVE  LoginInv'
  <1> DEFINE user == getty.user
             next == [login EXCEPT !.at = IF user = Blank THEN "name" ELSE "check", !.user = user,
                                   !.name = user, !.force = Blank, !.signals = "ignored"]
  <1>0. console' = console /\ getty' = getty /\ login.at = "start"
    BY DEF login_run
  <1>1. CASE Exits
    BY <1>0, <1>1, ExitsInv
  <1>2. CASE login' = next /\ UNCHANGED <<tty, utmp>>
    <2>1. /\ IsLogin(login') /\ login'.user = user /\ login'.name = user /\ login'.force = Blank
          /\ login'.at = IF user = Blank THEN "name" ELSE "check"
      BY <1>2 DEF LoginInv, Good, IsLogin
    <2>2. WhoOK(console, login')
      BY <2>1 DEF WhoOK, Named
    <2>3. login'.at \in {"name", "check", "password", "granted"}
      BY <2>1
    <2>4. Good(console, getty, login', tty, utmp)
      BY <2>1, <2>2, <2>3, <1>0, LoginGoesOn DEF LoginInv
    <2> QED BY <2>4, <1>0, <1>2 DEF LoginInv
  <1>3. Exits \/ (login' = next /\ UNCHANGED <<tty, utmp>>)
    <2> DEFINE args == parse_args(LoginArgs(user))
    <2>1. \/ Exits
          \/ /\ login' = [login EXCEPT !.at = IF args.username = Blank THEN "name" ELSE "check",
                            !.user = args.username, !.name = getty.user,
                            !.force = args.force_user, !.signals = "ignored"]
             /\ UNCHANGED <<tty, utmp>>
      BY DEF login_run
    <2>2. args.username = user /\ args.force_user = Blank
      BY NameIsOperand
    <2> HIDE DEF args
    <2> QED BY <2>1, <2>2
  <1> QED BY <1>1, <1>2, <1>3

(* A name is typed at rlogin's prompt. *)
LEMMA read_name_Inv ==
  ASSUME LoginInv, read_name
  PROVE  LoginInv'
  <1>0. console' = console /\ getty' = getty /\ login.at = "name"
    BY DEF read_name
  <1>1. CASE Exits
    BY <1>0, <1>1, ExitsInv
  <1>2. CASE /\ \E name \in Typed.names :
                  login' = IF name = Blank THEN FailedTry(login)
                           ELSE [login EXCEPT !.at = "check", !.user = name, !.name = name, !.password = None]
             /\ UNCHANGED <<tty, utmp>>
    <2>1. PICK name \in Typed.names :
            login' = IF name = Blank THEN FailedTry(login)
                     ELSE [login EXCEPT !.at = "check", !.user = name, !.name = name, !.password = None]
      BY <1>2
    <2>2. IsLogin(login) /\ login.force = Blank
      BY DEF LoginInv, Good, WhoOK
    <2>3. CASE name = Blank
      <3>1. Good(console, getty, FailedTry(login), tty, utmp)
        BY <2>2, <1>0, TryFails, LoginGone, LoginGoesOn DEF LoginInv
      <3> QED BY <3>1, <2>1, <2>3, <1>0, <1>2 DEF LoginInv
    <2>4. CASE name # Blank
      <3>1. /\ IsLogin(login') /\ login'.at = "check" /\ login'.user = name /\ login'.name = name
            /\ login'.force = Blank
        BY <2>1, <2>2, <2>4 DEF IsLogin
      <3>2. WhoOK(console, login')
        BY <3>1, <2>4 DEF WhoOK, Named
      <3>3. Good(console, getty, login', tty, utmp)
        BY <3>1, <3>2, <1>0, LoginGoesOn DEF LoginInv
      <3> QED BY <3>3, <1>0, <1>2 DEF LoginInv
    <2> QED BY <2>3, <2>4
  <1> QED BY <1>1, <1>2 DEF read_name

(* What is decided without the password: `-f` decides nothing, since       *)
(* rgetty never gives it.                                                  *)
LEMMA authenticate_Inv ==
  ASSUME LoginInv, authenticate
  PROVE  LoginInv'
  <1> DEFINE line == LineOf(console, login.user)
             hash == HashOf(console, line[1])
  <1>0. /\ console' = console /\ tty' = tty /\ getty' = getty /\ utmp' = utmp /\ login.at = "check"
        /\ login.force # login.user
    BY DEF authenticate, LoginInv, Good, WhoOK, Named
  <1>1. Candidate = line /\ password_hash(Candidate[1]) = hash
    BY Accounts DEF Candidate
  <1>2. IF Candidate = <<>>
        THEN login' = [login EXCEPT !.at = "password"]
        ELSE IF Candidate[1].uid = 0 /\ ~console.secure THEN Judge(FALSE)
        ELSE IF password_hash(Candidate[1]) = <<>> \/ Locked(password_hash(Candidate[1])[1]) THEN Judge(FALSE)
        ELSE IF password_hash(Candidate[1])[1] = Blank THEN Judge(TRUE)
        ELSE login' = [login EXCEPT !.at = "password"]
    BY <1>0 DEF authenticate, secure_tty
  <1> HIDE DEF line, hash
  <1>3. \/ /\ login' = [login EXCEPT !.at = "password"]
           /\ line # <<>> => hash # <<>> /\ (line[1].uid = 0 => console.secure)
        \/ login' = FailedTry(login)
        \/ /\ login' = [login EXCEPT !.at = "granted"]
           /\ line # <<>> /\ hash # <<>> /\ hash[1] = Blank /\ (line[1].uid = 0 => console.secure)
    BY <1>1, <1>2 DEF Judge
  <1>4. \/ login' = [login EXCEPT !.at = "password"] /\ Asks(console, login.user)
        \/ login' = FailedTry(login)
        \/ login' = [login EXCEPT !.at = "granted"] /\ Passes(console, login.user, login.password)
    BY <1>3 DEF line, hash, Asks, Passes, InPlace, verify_hash
  <1>5. Good(console, getty, login', tty, utmp)
    <2>1. /\ Good(console, getty, FailedTry(login), tty, utmp)
          /\ Asks(console, login.user) => Good(console, getty, [login EXCEPT !.at = "password"], tty, utmp)
          /\ Passes(console, login.user, login.password) =>
               Good(console, getty, [login EXCEPT !.at = "granted"], tty, utmp)
      BY <1>0, Judged, Zenon DEF LoginInv
    <2> QED BY <2>1, <1>4, Zenon
  <1> QED BY <1>0, <1>5 DEF LoginInv

(* The echo goes off. *)
LEMMA hide_echo_Inv ==
  ASSUME LoginInv, hide_echo
  PROVE  LoginInv'
  <1>0. /\ console' = console /\ getty' = getty /\ login' = login /\ utmp' = utmp
        /\ login.at = "password" /\ getty.at = "wait"
    BY DEF hide_echo, LoginInv, Good, PhaseOK, None
  <1>1. /\ IsTty(tty') /\ tty'.fg = tty.fg /\ tty'.flags = tty.flags /\ tty'.owner = tty.owner
    BY DEF hide_echo, LoginInv, Good, IsTty
  <1>2. TtyOK(console, getty, login, tty')
    BY <1>0, <1>1 DEF TtyOK, LoginInv, Good
  <1> QED BY <1>0, <1>1, <1>2 DEF LoginInv, Good

(* A password is typed, and the echo is on again.                          *)
LEMMA read_password_Inv ==
  ASSUME LoginInv, read_password
  PROVE  LoginInv'
  <1> DEFINE line == LineOf(console, login.user)
             hash == HashOf(console, line[1])
  <1>0. /\ console' = console /\ getty' = getty /\ utmp' = utmp
        /\ login.at = "password" /\ getty.at = "wait" /\ Asks(console, login.user)
        /\ login.force = Blank /\ login.user = login.name /\ login.user # Blank /\ IsLogin(login)
    BY DEF read_password, LoginInv, Good, PhaseOK, WhoOK, Named, None
  <1>1. /\ IsTty(tty') /\ tty'.fg = tty.fg /\ tty'.flags = tty.flags /\ tty'.owner = tty.owner
        /\ tty'.echo = TRUE
    BY DEF read_password, LoginInv, Good, IsTty
  <1>2. Good(console, getty, login, tty', utmp)
    <2>1. TtyOK(console, getty, login, tty')
      BY <1>0, <1>1 DEF TtyOK, LoginInv, Good
    <2> QED BY <2>1, <1>1 DEF LoginInv, Good
  <1>3. Candidate = line /\ password_hash(Candidate[1]) = hash
    BY Accounts DEF Candidate
  <1>4. CASE login' = NoLogin
    <2>1. Good(console, getty, NoLogin, tty', utmp)
      BY <1>2, LoginGone
    <2> QED BY <2>1, <1>0, <1>4 DEF LoginInv
  <1>5. ASSUME NEW next, IsLogin(next), WhoOK(console, next), next.at \in {"name", "granted"}
        PROVE  Good(console, getty, next, tty', utmp)
    <2>1. PhaseOK(console, getty, next)
      BY <1>0 DEF PhaseOK, LoginInv, Good
    <2>2. TtyOK(console, getty, next, tty')
      BY <1>0, <1>1, <1>2, <1>5 DEF TtyOK, Good, None
    <2>3. UtmpOK(console, getty, next, utmp)
      BY <1>5 DEF UtmpOK, LoginInv, Good
    <2> QED BY <2>1, <2>2, <2>3, <1>2, <1>5 DEF Good
  <1>6. ASSUME NEW password,
               login' = IF Candidate # <<>> /\ verify_hash(password, password_hash(Candidate[1])[1])
                        THEN [[login EXCEPT !.password = password] EXCEPT !.at = "granted"]
                        ELSE FailedTry([login EXCEPT !.password = password])
        PROVE  LoginInv'
    <2> DEFINE typed == [login EXCEPT !.password = password]
               next == [typed EXCEPT !.at = "granted"]
    <2>1. IsLogin(typed) /\ typed.force = Blank
      BY <1>0 DEF IsLogin
    <2>2. CASE login' = FailedTry(typed)
      <3> HIDE DEF typed
      <3>1. FailedTry(typed) = NoLogin \/ Good(console, getty, FailedTry(typed), tty', utmp)
        BY <2>1, <1>5, TryFails
      <3> QED BY <3>1, <2>2, <1>0, <1>4 DEF LoginInv
    <2>3. CASE /\ login' = next
               /\ line # <<>> /\ verify_hash(password, hash[1])
      <3>1. /\ IsLogin(next) /\ next.at = "granted" /\ next.user = login.user /\ next.name = login.name
            /\ next.force = Blank /\ next.password = password
        BY <1>0 DEF IsLogin
      <3> HIDE DEF next
      <3>2. Passes(console, login.user, password)
        BY <2>3, <1>0 DEF Passes, Asks
      <3> HIDE DEF line, hash
      <3>3. WhoOK(console, next)
        BY <3>1, <3>2, <1>0 DEF WhoOK, Named
      <3>4. Good(console, getty, next, tty', utmp)
        BY <3>1, <3>3, <1>5
      <3> QED BY <3>4, <2>3, <1>0 DEF LoginInv
    <2> QED BY <2>2, <2>3, <1>3, <1>6
  <1>7. \/ login' = NoLogin
        \/ \E password \in Typed.passwords :
             login' = IF Candidate # <<>> /\ verify_hash(password, password_hash(Candidate[1])[1])
                      THEN [[login EXCEPT !.password = password] EXCEPT !.at = "granted"]
                      ELSE FailedTry([login EXCEPT !.password = password])
    BY DEF read_password
  <1> QED BY <1>4, <1>6, <1>7

(* The user goes on record. *)
LEMMA account_Inv ==
  ASSUME LoginInv, account
  PROVE  LoginInv'
  <1>0. console' = console /\ getty' = getty /\ login.at = "granted" /\ getty.at = "wait"
    BY DEF account, LoginInv, Good, PhaseOK, None
  <1>1. CASE Exits
    BY <1>0, <1>1, ExitsInv
  <1>2. CASE /\ ~nologin
             /\ record("USER", Real, login.user)
             /\ login' = [login EXCEPT !.at = "identity"]
             /\ UNCHANGED tty
    <2>1. /\ IsLogin(login') /\ login'.at = "identity" /\ login'.user = login.user /\ login'.name = login.name
          /\ login'.force = login.force /\ login'.password = login.password
      BY <1>2 DEF LoginInv, Good, IsLogin
    <2>2. Admitted(console, login.user)
      <3>1. Candidate = LineOf(console, login.user)
        BY Accounts DEF Candidate
      <3> QED BY <3>1, <1>2 DEF Admitted, nologin
    <2>3. WhoOK(console, login')
      BY <2>1, <2>2, <1>0 DEF WhoOK, Named, LoginInv, Good
    <2>4. /\ utmp' = [id \in {Id} |-> utmp'[id]]
          /\ console.writable => utmp'[Id].kind = "USER" /\ utmp'[Id].user = login.user
      BY <1>2, Recorded DEF Id
    <2>5. PhaseOK(console, getty, login')
      BY <1>0 DEF PhaseOK, LoginInv, Good
    <2>6. TtyOK(console, getty, login', tty)
      BY <2>1, <1>0 DEF TtyOK, LoginInv, Good, None
    <2>7. UtmpOK(console, getty, login', utmp')
      BY <2>1, <2>4, <1>0 DEF UtmpOK
    <2> QED BY <2>1, <2>3, <2>5, <2>6, <2>7, <1>0, <1>2 DEF LoginInv, Good
  <1> QED BY <1>1, <1>2 DEF account

(* The terminal and the process become the user's. *)
LEMMA change_identity_Inv ==
  ASSUME LoginInv, change_identity
  PROVE  LoginInv'
  <1>0. /\ console' = console /\ getty' = getty /\ utmp' = utmp
        /\ login.at = "identity" /\ getty.at = "wait" /\ console.kind = "tty"
    BY DEF change_identity, LoginInv, Good, PhaseOK, None
  <1>1. /\ IsTty(tty') /\ tty'.fg = tty.fg /\ tty'.flags = tty.flags /\ tty'.echo = tty.echo
    BY DEF change_identity, LoginInv, Good, IsTty
  <1>2. CASE login' = NoLogin
    <2>1. TtyOK(console, getty, login, tty')
      BY <1>0, <1>1 DEF TtyOK, LoginInv, Good, None
    <2>2. Good(console, getty, login, tty', utmp)
      BY <2>1, <1>1 DEF LoginInv, Good
    <2>3. Good(console, getty, NoLogin, tty', utmp)
      BY <2>2, LoginGone
    <2> QED BY <2>3, <1>0, <1>2 DEF LoginInv
  <1>3. CASE /\ tty'.owner = login.user /\ tty'.mode = "private"
             /\ login' = [login EXCEPT !.at = "exec", !.cred = login.user, !.signals = "default"]
    <2>1. /\ IsLogin(login') /\ login'.at = "exec" /\ login'.user = login.user /\ login'.name = login.name
          /\ login'.force = login.force /\ login'.password = login.password
          /\ login'.cred = login.user /\ login'.signals = "default"
      BY <1>3 DEF LoginInv, Good, IsLogin
    <2>2. WhoOK(console, login')
      BY <2>1, <1>0 DEF WhoOK, Named, LoginInv, Good
    <2>3. PhaseOK(console, getty, login')
      BY <1>0 DEF PhaseOK, LoginInv, Good
    <2>4. TtyOK(console, getty, login', tty')
      BY <2>1, <1>0, <1>1, <1>3 DEF TtyOK, LoginInv, Good, None
    <2>5. UtmpOK(console, getty, login', utmp)
      BY <2>1, <1>0 DEF UtmpOK, LoginInv, Good
    <2> QED BY <2>1, <2>2, <2>3, <2>4, <2>5, <1>0, <1>1 DEF LoginInv, Good
  <1> QED BY <1>2, <1>3 DEF change_identity

(* The shell takes over. *)
LEMMA start_shell_Inv ==
  ASSUME LoginInv, start_shell
  PROVE  LoginInv'
  <1>0. console' = console /\ getty' = getty /\ login.at = "exec" /\ getty.at = "wait"
    BY DEF start_shell, LoginInv, Good, PhaseOK, None
  <1>1. CASE Exits
    BY <1>0, <1>1, ExitsInv
  <1>2. CASE login' = [login EXCEPT !.at = "shell"] /\ UNCHANGED <<tty, utmp>>
    <2>1. /\ IsLogin(login') /\ login'.at = "shell" /\ login'.user = login.user /\ login'.name = login.name
          /\ login'.force = login.force /\ login'.password = login.password
          /\ login'.cred = login.cred /\ login'.signals = login.signals
      BY <1>2 DEF LoginInv, Good, IsLogin
    <2>2. WhoOK(console, login')
      BY <2>1, <1>0 DEF WhoOK, Named, LoginInv, Good
    <2>3. PhaseOK(console, getty, login')
      BY <1>0 DEF PhaseOK, LoginInv, Good
    <2>4. TtyOK(console, getty, login', tty)
      BY <2>1, <1>0 DEF TtyOK, LoginInv, Good, None
    <2>5. UtmpOK(console, getty, login', utmp)
      BY <2>1, <1>0 DEF UtmpOK, LoginInv, Good
    <2> QED BY <2>1, <2>2, <2>3, <2>4, <2>5, <1>0, <1>2 DEF LoginInv, Good
  <1> QED BY <1>1, <1>2 DEF start_shell

(* The session sets its terminal. *)
LEMMA stty_Inv ==
  ASSUME LoginInv, stty
  PROVE  LoginInv'
  <1>0. /\ console' = console /\ getty' = getty /\ login' = login /\ utmp' = utmp
        /\ login.at = "shell" /\ getty.at = "wait" /\ console.kind = "tty"
    BY DEF stty, LoginInv, Good, PhaseOK, None
  <1>1. IsTty(tty') /\ tty'.fg = tty.fg /\ tty'.flags = "changed"
    BY DEF stty, LoginInv, Good, IsTty
  <1>2. TtyOK(console, getty, login, tty')
    BY <1>0, <1>1 DEF TtyOK, LoginInv, Good
  <1> QED BY <1>0, <1>1, <1>2 DEF LoginInv, Good

-------------------------------------------------------------------------------

(* The first state has the invariant. *)
LEMMA LoginInitInv ==
  ASSUME LoginInit
  PROVE  LoginInv
  <1>1. /\ IsTty(tty) /\ IsGetty(getty) /\ IsLogin(login) /\ getty.at = None /\ login.at = None
        /\ login.force = Blank /\ tty.owner = "nobody"
    BY DEF LoginInit, IsTty, IsGetty, IsLogin, NoGetty, NoLogin
  <1>2. WhoOK(console, login) /\ PhaseOK(console, getty, login) /\ TtyOK(console, getty, login, tty)
    BY <1>1 DEF WhoOK, PhaseOK, TtyOK, Named, None
  <1>3. UtmpOK(console, getty, login, utmp)
    <2>1. Lines = {Id}
      BY PathAssumption DEF LoginInit, Lines, Id
    <2>2. utmp = [id \in {Id} |-> [kind |-> "DEAD", user |-> Blank]]
      BY <2>1 DEF LoginInit
    <2> QED BY <2>2, <1>1 DEF UtmpOK, None
  <1> QED BY <1>1, <1>2, <1>3 DEF LoginInv, Good, LoginInit

(* Every step keeps it. *)
LEMMA LoginNextInv ==
  ASSUME LoginInv, [LoginNext]_loginVars
  PROVE  LoginInv'
  <1>1. CASE UNCHANGED loginVars
    BY <1>1 DEF LoginInv, loginVars
  <1>2. CASE interrupt
    BY <1>2, ExitsInv DEF interrupt
  <1>3. CASE logout
    BY <1>3, ExitsInv DEF logout
  <1>4. CASE RgettyStep
    BY <1>4, open_tty_Inv, spawn_login_Inv, session_end_Inv DEF RgettyStep
  <1>5. CASE RloginStep
    BY <1>5, login_run_Inv, authenticate_Inv, hide_echo_Inv, account_Inv, change_identity_Inv, start_shell_Inv
    DEF RloginStep
  <1>6. CASE Answer
    BY <1>6, prompt_username_Inv, read_name_Inv, read_password_Inv DEF Answer
  <1> QED BY <1>1, <1>2, <1>3, <1>4, <1>5, <1>6, getty_start_Inv, getty_killed_Inv, stty_Inv DEF LoginNext

(* What the invariant says of a login. *)
LEMMA InvIsSound ==
  ASSUME LoginInv
  PROVE  LoginIsSound
  <1>1. LoginIsEarned
    <2> SUFFICES ASSUME login.at = "shell"
                 PROVE  login.user = login.name /\ login.cred = login.user /\ Earned(login.name, login.password)
      BY DEF LoginIsEarned
    <2>1. /\ login.user = login.name /\ login.cred = login.user
          /\ Passes(console, login.user, login.password) /\ Admitted(console, login.user)
      BY DEF LoginInv, Good, WhoOK, Named
    <2>2. Earned(login.user, login.password)
      BY <2>1, PassedIsEarned DEF LoginInv, Good
    <2> QED BY <2>1, <2>2
  <1>2. TerminalIsYours
    <2>1. getty.at \in {"prompt", "spawn"} => tty = Fresh
      BY DEF LoginInv, Good, TtyOK
    <2>2. login.at = "shell" /\ tty.flags = "sane" =>
            tty.owner = login.user /\ tty.mode = "private" /\ tty.echo = TRUE /\ tty.fg = "login"
              /\ login.signals = "default"
      BY DEF LoginInv, Good, TtyOK, WhoOK, None
    <2>3. console.kind # "tty" => tty.owner = "nobody"
      BY DEF LoginInv, Good, TtyOK
    <2> QED BY <2>1, <2>2, <2>3 DEF TerminalIsYours, Fresh
  <1>3. SessionIsCounted
    <2> DEFINE users == {id \in DOMAIN utmp : utmp[id].kind = "USER"}
    <2> SUFFICES ASSUME console.writable
                 PROVE  /\ login.at = "shell" => user_count = 1 /\ utmp[Id].user = login.user
                        /\ getty.at = None /\ ~getty.killed => user_count = 0
      BY DEF SessionIsCounted, Id
    <2>1. DOMAIN utmp = {Id}
      BY DEF LoginInv, Good, UtmpOK
    <2>2. user_count = Cardinality(users)
      BY DEF user_count
    <2>3. ASSUME login.at = "shell" PROVE user_count = 1 /\ utmp[Id].user = login.user
      <3>1. utmp[Id].kind = "USER" /\ utmp[Id].user = login.user
        BY <2>3 DEF LoginInv, Good, UtmpOK
      <3>2. users = {Id}
        BY <2>1, <3>1
      <3> QED BY <3>1, <3>2, <2>2, FS_Singleton
    <2>4. ASSUME getty.at = None, ~getty.killed PROVE user_count = 0
      <3>1. utmp[Id].kind # "USER"
        BY <2>4 DEF LoginInv, Good, UtmpOK, None
      <3>2. users = {}
        BY <2>1, <3>1
      <3> QED BY <3>2, <2>2, FS_EmptySet
    <2> QED BY <2>3, <2>4
  <1> QED BY <1>1, <1>2, <1>3 DEF LoginIsSound

(* For every console, whatever its account files hold and whatever is      *)
(* typed, through tries, failing calls, interruptions and restarts of      *)
(* rgetty: a shell is earned by the account that gets it, on a clean       *)
(* terminal of its own, and utmp counts it as long as it runs and no       *)
(* longer (rgetty.rs, rlogin/main.rs, utmp.rs).                            *)
THEOREM LoginIsSoundAlways ==
  LoginSpec => []LoginIsSound
  <1>1. LoginInit => LoginInv
    BY LoginInitInv
  <1>2. LoginInv /\ [LoginNext]_loginVars => LoginInv'
    BY LoginNextInv
  <1>3. LoginInv => LoginIsSound
    BY InvIsSound
  <1> QED BY <1>1, <1>2, <1>3, PTL DEF LoginSpec

-------------------------------------------------------------------------------
(* The idle clock of a socket-activated unit.                              *)

(* The unit as the loop sees it.  A process is there from the spawn to the *)
(* reaping, and while it is there only its own flow is at work on it.      *)
UnitOK(u) ==
  /\ u \in [booting : BOOLEAN, state : {"Inactive", "Starting", "Active", "Deactivating", "RestartWait", "Failed"},
            proc : {"none", "alive", "dead"}, work : {"none", "job", "flow"}, pending : BOOLEAN,
            age : 0 .. Never, idle : 0 .. NoIdle, left : Nat]
  /\ u.booting => u.proc = "none" /\ u.work = "none" /\ u.state = "Inactive" /\ u.idle = NoIdle
  /\ u.pending => u.booting
  /\ u.state \in {"Starting", "Active"} => u.proc # "none"
  /\ u.proc # "none" => /\ u.state \in {"Starting", "Active", "Deactivating"}
                        /\ u.work = "none" \/ (u.work = "flow" /\ u.state = "Starting")
  /\ u.state = "Active" => u.work = "none"
(* An idle clock that has run as long as Refresh allows a new report.      *)
ClocksOK(u) == u.idle # NoIdle => u.age >= Cooldown \/ u.age + u.idle >= IdleTimeout
(* All that has connected is known: the idle clock counts from it.         *)
Counted == s.idle # NoIdle => quiet + s.idle >= IdleTimeout
IdleInv ==
  /\ UnitOK(s) /\ ClocksOK(s)
  /\ ready \in BOOLEAN /\ permit \in BOOLEAN /\ ran \in BOOLEAN
  /\ watcher \in {"permit", "readable"} /\ reports \in Nat /\ quiet \in 0 .. IdleTimeout
  /\ ~ready /\ reports = 0 => Counted
  /\ ran /\ s.state = "Active" /\ s.age >= Refresh => permit \/ watcher = "readable" \/ reports > 0
  /\ s.idle = 0 /\ s.state = "Active" /\ (ready \/ reports > 0) => quiet = 0

(* What the proofs use of the constants. *)
Numbers == /\ Refresh \in Nat /\ Cooldown \in Nat /\ IdleTimeout \in Nat /\ Reports \in Nat
           /\ 0 < Refresh /\ Refresh < Cooldown /\ Cooldown <= IdleTimeout
(* They are so. *)
LEMMA Bounds == Numbers /\ Restarts \in Nat
BY ActivationAssumption DEF Numbers

(* No clock runs yet. *)
LEMMA StartsIdle == Init => IdleInv
<1> SUFFICES ASSUME Init PROVE IdleInv
  OBVIOUS
<1>1. NoIdle \in 0 .. NoIdle /\ Never \in 0 .. Never /\ 0 \in 0 .. IdleTimeout /\ NoIdle # 0
  BY Bounds DEF Numbers, NoIdle, Never
<1>2. UnitOK(s) /\ s.idle = NoIdle /\ s.state = "Inactive"
  BY <1>1, Bounds DEF Init, UnitOK
<1> QED BY <1>1, <1>2 DEF Init, IdleInv, ClocksOK, Counted

(* Whatever the loop does to a unit, it keeps it well-formed, and its idle *)
(* clock goes on, stops, or starts from a connection or a spawn.           *)
Fine(u) == UnitOK(u) /\ ClocksOK(u)
Goes(u, v) == v.idle \in {u.idle, IdleTimeout}

(* A connection starts the idle clock anew. *)
LEMMA TryStartFine ==
  ASSUME NEW u, Fine(u), ~u.booting PROVE Fine(try_start_socket(u)) /\ try_start_socket(u).idle = IdleTimeout
<1> DEFINE noted == note_connection(u)
<1>1. IdleTimeout \in 0 .. NoIdle /\ 0 \in 0 .. Never /\ 0 + IdleTimeout >= IdleTimeout
  BY Bounds DEF Numbers, NoIdle, Never
<1>2. \A n \in 0 .. Never : n + IdleTimeout >= IdleTimeout
  BY Bounds DEF Numbers, Never
<1>3. Fine(noted) /\ noted.idle = IdleTimeout
  BY <1>1, <1>2 DEF Fine, UnitOK, ClocksOK, note_connection
<1>4. CASE is_running(u)
  BY <1>1, <1>3, <1>4 DEF Fine, UnitOK, ClocksOK, try_start_socket
<1>5. CASE ~is_running(u) /\ (u.work = "flow" \/ u.state = "Failed" \/ u.age < Cooldown)
  BY <1>3, <1>5 DEF try_start_socket
<1>6. CASE ~is_running(u) /\ ~(u.work = "flow" \/ u.state = "Failed" \/ u.age < Cooldown)
  <2>1. try_start_socket(u) = [noted EXCEPT !.work = "job", !.age = 0]
    BY <1>6 DEF try_start_socket
  <2>2. noted.proc = "none" /\ noted.state = u.state /\ ~noted.booting
    BY <1>6 DEF note_connection, is_running, Fine, UnitOK
  <2> QED BY <1>1, <1>3, <2>1, <2>2 DEF Fine, UnitOK, ClocksOK
<1> QED BY <1>4, <1>5, <1>6

(* During the boot it is only remembered. *)
LEMMA OnReportFine ==
  ASSUME NEW u, Fine(u)
  PROVE  Fine(on_report(u)) /\ on_report(u).idle = IF u.booting THEN NoIdle ELSE IdleTimeout
BY TryStartFine DEF Fine, UnitOK, ClocksOK, on_report

(* A stop leaves the clock alone. *)
LEMMA StopFine ==
  ASSUME NEW u, Fine(u), ~u.booting
  PROVE  Fine(request_stop(u)) /\ request_stop(u).idle = u.idle /\ ~request_stop(u).booting
BY DEF Fine, UnitOK, ClocksOK, request_stop, is_running

(* What rctl asks for leaves it alone. *)
LEMMA ControlFine ==
  ASSUME NEW u, Fine(u), ~u.booting, NEW request \in {"start", "stop", "reset-failed"}
  PROVE  Fine(on_control(u, request)) /\ on_control(u, request).idle = u.idle
<1>1. CASE request = "start"
  BY <1>1 DEF Fine, UnitOK, ClocksOK, on_control, is_running
<1>2. CASE request = "stop"
  BY <1>2, StopFine DEF on_control
<1>3. CASE request = "reset-failed"
  BY <1>3 DEF Fine, UnitOK, ClocksOK, on_control, is_running
<1> QED BY <1>1, <1>2, <1>3

(* An exit leaves it alone. *)
LEMMA ReapFine ==
  ASSUME NEW u, Fine(u), NEW outcome \in outcomes(u)
  PROVE  Fine(reap(u, outcome)) /\ reap(u, outcome).idle = u.idle
<1>1. CASE u.proc # "dead"
  BY <1>1 DEF reap
<1>2. CASE u.proc = "dead"
  <2> DEFINE v == reap(u, outcome)
             count == IF outcome = "RestartWait" THEN u.left - 1 ELSE u.left
             work == IF u.state = "Starting" THEN "none" ELSE u.work
  <2>1. outcome \in {"Inactive", "Failed", "RestartWait"} /\ (outcome = "RestartWait" => u.left > 0)
    BY <1>2 DEF outcomes
  <2>2. count \in Nat
    BY <2>1 DEF Fine, UnitOK
  <2>3. v = [u EXCEPT !.proc = "none", !.work = work, !.left = count, !.state = outcome]
    BY <1>2 DEF reap, Fine, UnitOK
  <2>4. work = "none" /\ ~u.booting
    BY <1>2 DEF Fine, UnitOK
  <2> HIDE DEF count, work
  <2> QED BY <2>1, <2>2, <2>3, <2>4 DEF Fine, UnitOK, ClocksOK
<1> QED BY <1>1, <1>2

(* A spawn starts the clock anew. *)
LEMMA AdvanceFine ==
  ASSUME NEW u, Fine(u), NEW step \in {"stay", "go", "fail"}
  PROVE  Fine(advance(u, step)) /\ Goes(u, advance(u, step))
<1>1. CASE step = "stay" \/ u.work = "none"
  BY <1>1 DEF advance, Goes
<1>2. CASE step = "fail" /\ u.work # "none"
  BY <1>2 DEF Fine, UnitOK, ClocksOK, advance, Goes, is_running
<1>3. CASE step = "go" /\ u.work = "job"
  BY <1>3 DEF Fine, UnitOK, ClocksOK, advance, Goes, is_running
<1>4. CASE step = "go" /\ u.work = "flow"
  <2>1. CASE is_running(u)
    BY <1>4, <2>1 DEF Fine, UnitOK, ClocksOK, advance, Goes, is_running
  <2>2. CASE ~is_running(u)
    <3>1. IdleTimeout \in 0 .. NoIdle /\ \A n \in 0 .. Never : n + IdleTimeout >= IdleTimeout
      BY Bounds DEF Numbers, NoIdle, Never
    <3>2. advance(u, step) = [u EXCEPT !.proc = "alive", !.state = "Starting", !.idle = IdleTimeout]
      BY <1>4, <2>2 DEF advance
    <3> QED BY <1>4, <3>1, <3>2 DEF Fine, UnitOK, ClocksOK, Goes
  <2> QED BY <2>1, <2>2
<1> QED BY <1>1, <1>2, <1>3, <1>4 DEF Fine, UnitOK

(* The end of the boot serves what was remembered. *)
LEMMA WakesFine ==
  ASSUME NEW u, Fine(u), NEW over \in BOOLEAN
  PROVE  LET v == wakes([u EXCEPT !.booting = @ /\ ~over])
         IN Fine(v) /\ Goes(u, v)
<1> DEFINE w == [u EXCEPT !.booting = @ /\ ~over]
           p == [w EXCEPT !.pending = FALSE]
<1>1. CASE ~(~w.booting /\ w.pending)
  BY <1>1 DEF Fine, UnitOK, ClocksOK, wakes, Goes
<1>2. CASE ~w.booting /\ w.pending
  <2>1. Fine(p) /\ ~p.booting
    BY <1>2 DEF Fine, UnitOK, ClocksOK
  <2>2. wakes(w) = try_start_socket(p)
    BY <1>2 DEF wakes
  <2> QED BY <2>1, <2>2, TryStartFine DEF Goes
<1> QED BY <1>1, <1>2

(* A restart leaves the clock alone. *)
LEMMA RestartFine ==
  ASSUME NEW u, Fine(u)
  PROVE  Fine(due_restart(u)) /\ due_restart(u).idle = u.idle
BY DEF Fine, UnitOK, ClocksOK, due_restart

(* A clock at zero stops the unit, and an Active one is then no more. *)
LEMMA DueIdleFine ==
  ASSUME NEW u, Fine(u)
  PROVE  LET v == due_idle_units(u) IN
         /\ Fine(v) /\ v.idle # 0
         /\ v.idle = IF u.idle = 0 THEN NoIdle ELSE u.idle
         /\ v.state = "Active" => v = u
<1> DEFINE w == [u EXCEPT !.idle = NoIdle]
<1>1. CASE u.idle # 0
  BY <1>1 DEF due_idle_units
<1>2. CASE u.idle = 0
  <2>1. ~u.booting /\ Fine(w) /\ ~w.booting /\ w.idle = NoIdle /\ NoIdle # 0
    BY <1>2, Bounds DEF Fine, UnitOK, ClocksOK, Numbers, NoIdle
  <2>2. due_idle_units(u) = request_stop(w)
    BY <1>2 DEF due_idle_units
  <2>3. request_stop(w).state # "Active"
    BY <2>1 DEF request_stop, Fine, UnitOK, is_running
  <2> QED BY <1>2, <2>1, <2>2, <2>3, StopFine
<1> QED BY <1>1, <1>2

(* A turn of the loop.  It takes a report or not, it leaves no idle clock  *)
(* at zero, and a service that stays Active has its permit.                *)
LEMMA TurnKeeps ==
  ASSUME IdleInv, NEW event \in {"wake", "report", "start", "stop", "reset-failed"},
         NEW step \in {"stay", "go", "fail"}, NEW over \in BOOLEAN, Turn(event, step, over)
  PROVE  IdleInv'
<1> DEFINE handled == CASE event = "report" -> on_report(s)
                       [] event \in {"start", "stop", "reset-failed"} /\ ~s.booting ->
                            on_control(s, event)
                       [] OTHER -> s
<1>1. Fine(handled) /\ handled.idle = IF event = "report" /\ ~s.booting THEN IdleTimeout ELSE s.idle
  <2>1. Fine(s) /\ (s.booting => s.idle = NoIdle)
    BY DEF IdleInv, Fine, UnitOK
  <2>2. CASE event = "report"
    BY <2>1, <2>2, OnReportFine
  <2>3. CASE event \in {"start", "stop", "reset-failed"} /\ ~s.booting
    BY <2>1, <2>3, ControlFine
  <2>4. CASE event # "report" /\ ~(event \in {"start", "stop", "reset-failed"} /\ ~s.booting)
    BY <2>1, <2>4
  <2> QED BY <2>2, <2>3, <2>4
<1>2. PICK outcome \in outcomes(handled) :
        LET started == advance(reap(handled, outcome), step)
            woken == wakes([started EXCEPT !.booting = @ /\ ~over])
            restarted == IF over THEN due_restart(woken) ELSE woken
        IN /\ s' = due_idle_units(restarted)
           /\ permit' = (permit \/ rearms(woken))
  BY DEF Turn
<1> HIDE DEF handled
<1> DEFINE started == advance(reap(handled, outcome), step)
           woken == wakes([started EXCEPT !.booting = @ /\ ~over])
           restarted == IF over THEN due_restart(woken) ELSE woken
<1>3. Fine(started) /\ started.idle \in {handled.idle, IdleTimeout}
  BY <1>1, ReapFine, AdvanceFine DEF Goes
<1>4. Fine(woken) /\ woken.idle \in {handled.idle, IdleTimeout}
  <2> HIDE DEF started
  <2> QED BY <1>3, WakesFine DEF Goes
<1> HIDE DEF woken
<1>5. Fine(restarted) /\ restarted.idle = woken.idle /\ (restarted.state = "Active" => restarted = woken)
  <2>1. due_restart(woken).state = "Active" => due_restart(woken) = woken
    BY <1>4 DEF due_restart, Fine, UnitOK
  <2> QED BY <1>4, <2>1, RestartFine
<1> HIDE DEF restarted
<1>6. s' = due_idle_units(restarted) /\ permit' = (permit \/ rearms(woken))
  BY <1>2 DEF woken, restarted
<1>7. /\ Fine(s') /\ s'.idle # 0
      /\ s'.idle = IF restarted.idle = 0 THEN NoIdle ELSE restarted.idle
      /\ s'.state = "Active" => s' = restarted
  BY <1>5, <1>6, DueIdleFine
<1>8. /\ IdleTimeout \in Nat /\ IdleTimeout > 0 /\ quiet \in Nat /\ quiet' = quiet /\ ready' = ready
      /\ watcher' = watcher /\ ran' = TRUE
      /\ reports' = IF event = "report" THEN reports - 1 ELSE reports
      /\ event = "report" => reports > 0
  BY Bounds DEF Turn, Numbers, IdleInv
<1>9. reports \in Nat /\ reports' \in Nat
  BY <1>8 DEF IdleInv
<1>10. s'.idle = NoIdle \/ s'.idle = IdleTimeout \/ s'.idle = handled.idle
  BY <1>4, <1>5, <1>7
<1>11. event = "report" /\ ~s.booting => s'.idle = IdleTimeout
  BY <1>1, <1>4, <1>5, <1>7, <1>8
<1>12. ~ready' /\ reports' = 0 => Counted'
  <2> SUFFICES ASSUME ~ready, reports' = 0, s'.idle # NoIdle PROVE quiet + s'.idle >= IdleTimeout
    BY <1>8 DEF Counted
  <2>1. CASE s'.idle = IdleTimeout
    BY <1>8, <2>1
  <2>2. CASE s'.idle = s.idle /\ event # "report"
    BY <1>8, <2>2 DEF IdleInv, Counted
  <2>3. s.booting => s.idle = NoIdle
    BY DEF IdleInv, UnitOK
  <2> QED BY <1>1, <1>10, <1>11, <2>1, <2>2, <2>3
<1>13. s'.state = "Active" /\ s'.age >= Refresh => permit'
  <2> SUFFICES ASSUME s'.state = "Active", s'.age >= Refresh PROVE rearms(woken)
    BY <1>6
  <2>1. s' = woken
    BY <1>5, <1>7
  <2>2. ~woken.booting /\ ~woken.pending /\ woken.work # "flow" /\ woken.proc # "none" /\ woken.age >= Refresh
    BY <1>4, <2>1 DEF Fine, UnitOK
  <2> QED BY <2>2 DEF rearms, is_running
<1>14. permit' \in BOOLEAN /\ ran' \in BOOLEAN
  BY <1>6, <1>8
<1> QED BY <1>7, <1>8, <1>9, <1>12, <1>13, <1>14 DEF IdleInv, Fine

(* Time passes only when the watcher has nothing to do: a connection that  *)
(* waits for a permit is not there when the idle clock runs out, because   *)
(* by then the permit has come back.                                       *)
LEMMA TickKeeps == ASSUME IdleInv, Tick PROVE IdleInv'
<1>1. Numbers
  BY Bounds
<1>2. /\ s.age \in Nat /\ s.age <= Cooldown + 1 /\ s.idle \in Nat /\ s.idle <= IdleTimeout + 1 /\ s.idle > 0
      /\ quiet \in Nat /\ quiet <= IdleTimeout
  BY <1>1 DEF IdleInv, UnitOK, Tick, Numbers, Never, NoIdle
<1> DEFINE age == IF s.age < Cooldown THEN s.age + 1 ELSE s.age
           idle == IF s.idle = NoIdle THEN s.idle ELSE s.idle - 1
<1>3. s' = [s EXCEPT !.age = age, !.idle = idle]
  BY DEF Tick, IdleInv, UnitOK
<1>4. /\ age \in 0 .. Never /\ idle \in 0 .. NoIdle /\ (s.idle = NoIdle <=> idle = NoIdle)
      /\ idle # NoIdle => idle = s.idle - 1
  BY <1>1, <1>2 DEF Numbers, Never, NoIdle
<1>5. UnitOK(s') /\ s'.age = age /\ s'.idle = idle /\ s'.state = s.state
  <2> HIDE DEF age, idle
  <2> QED BY <1>3, <1>4 DEF IdleInv, UnitOK
<1>6. ClocksOK(s')
  <2>1. s.idle # NoIdle => s.age >= Cooldown \/ s.age + s.idle >= IdleTimeout
    BY DEF IdleInv, ClocksOK
  <2>2. idle # NoIdle => age >= Cooldown \/ age + idle >= IdleTimeout
    BY <1>1, <1>2, <1>4, <2>1 DEF Numbers
  <2> QED BY <1>5, <2>2 DEF ClocksOK
<1>7. /\ ready' = ready /\ permit' = permit /\ ran' = FALSE /\ ran /\ watcher' = watcher
      /\ reports' = reports /\ reports = 0
      /\ ~(watcher = "permit" /\ permit) /\ ~(watcher = "readable" /\ ready)
      /\ quiet' = IF quiet < IdleTimeout THEN quiet + 1 ELSE quiet
  BY DEF Tick
<1>8. quiet' \in 0 .. IdleTimeout
  BY <1>1, <1>2, <1>7 DEF Numbers
<1>9. ~ready' /\ reports' = 0 => Counted'
  <2> SUFFICES ASSUME ~ready, idle # NoIdle PROVE quiet' + idle >= IdleTimeout
    BY <1>5, <1>7 DEF Counted
  <2>1. quiet + s.idle >= IdleTimeout
    BY <1>4, <1>7 DEF IdleInv, Counted
  <2> QED BY <1>1, <1>2, <1>4, <1>7, <2>1 DEF Numbers
<1>10. s'.idle = 0 /\ s'.state = "Active" => ~ready
  <2> SUFFICES ASSUME idle = 0, s.state = "Active" PROVE ~ready
    BY <1>5
  <2>1. s.idle = 1 /\ s.idle # NoIdle
    BY <1>1, <1>2 DEF Numbers, NoIdle
  <2>2. s.age >= Refresh
    BY <1>1, <1>2, <2>1 DEF IdleInv, ClocksOK, Numbers
  <2>3. permit \/ watcher = "readable"
    BY <1>7, <2>2 DEF IdleInv
  <2> QED BY <1>7, <2>3 DEF IdleInv
<1>11. reports' \in Nat /\ ~(reports' > 0)
  BY <1>7
<1>12. ready' \in BOOLEAN /\ permit' \in BOOLEAN /\ ran' \in BOOLEAN /\ watcher' \in {"permit", "readable"}
  BY <1>7 DEF IdleInv
<1>13. s'.idle = 0 /\ s'.state = "Active" /\ (ready' \/ reports' > 0) => quiet' = 0
  <2> HIDE DEF age, idle
  <2> QED BY <1>7, <1>10, <1>11, Zenon
<1>14. ~ran'
  BY <1>7
<1> HIDE DEF age, idle
<1> QED BY <1>5, <1>6, <1>8, <1>9, <1>11, <1>12, <1>13, <1>14, Zenon DEF IdleInv

(* Clients, the service and the watcher. *)
LEMMA WorldKeeps == ASSUME IdleInv, Connect \/ Accept \/ Exit \/ take_permit \/ report PROVE IdleInv'
<1>1. CASE Connect
  <2>1. s' = s /\ 0 \in 0 .. IdleTimeout
    BY <1>1, Bounds DEF Connect, Numbers
  <2> QED BY <1>1, <2>1 DEF Connect, IdleInv, Counted
<1>2. CASE Accept
  BY <1>2 DEF Accept, IdleInv, Counted
<1>3. CASE Exit
  <2>1. /\ UnitOK(s') /\ ClocksOK(s')
        /\ s'.idle = s.idle /\ s'.age = s.age /\ s'.state = s.state
    BY <1>3 DEF Exit, IdleInv, UnitOK, ClocksOK
  <2> QED BY <1>3, <2>1 DEF Exit, IdleInv, Counted
<1>4. CASE take_permit
  BY <1>4 DEF take_permit, IdleInv, Counted
<1>5. CASE report
  <2>1. reports' \in Nat /\ reports' > 0
    BY <1>5 DEF report, IdleInv
  <2>2. reports' # 0
    BY <2>1
  <2>3. s' = s /\ quiet' = quiet /\ ready /\ ready' = FALSE /\ permit' = permit /\ ran' = ran /\ watcher' = "permit"
    BY <1>5 DEF report
  <2> QED BY <2>1, <2>2, <2>3, Zenon DEF IdleInv
<1> QED BY <1>1, <1>2, <1>3, <1>4, <1>5

(* A service is stopped for being idle only if nobody has connected for    *)
(* the time its unit gives, but for those that came within one refresh,    *)
(* for every choice of the three times (sync_socket_activation,            *)
(* try_start_socket, due_idle_units).                                      *)
THEOREM IdleAlwaysMeansQuiet == Spec => IdleMeansQuiet
<1>1. Init => IdleInv
  BY StartsIdle
<1>2. IdleInv /\ [Next]_vars => IdleInv'
  <2> SUFFICES ASSUME IdleInv, [Next]_vars PROVE IdleInv'
    OBVIOUS
  <2>1. CASE UNCHANGED vars
    BY <2>1 DEF vars, IdleInv, Counted
  <2>2. CASE loop
    BY <2>2, TurnKeeps DEF loop
  <2> QED BY <2>1, <2>2, WorldKeeps, TickKeeps DEF Next
<1>3. IdleInv /\ [Next]_vars =>
        [s.idle = 0 /\ s'.idle = NoIdle /\ s.state = "Active" /\ s'.state = "Deactivating"
           => quiet >= IdleTimeout \/ quiet < Refresh]_vars
  <2> SUFFICES ASSUME IdleInv, Next, s.idle = 0, s'.idle = NoIdle, s.state = "Active", s'.state = "Deactivating"
               PROVE  quiet >= IdleTimeout \/ quiet < Refresh
    OBVIOUS
  <2>1. ~ready /\ reports = 0 => quiet >= IdleTimeout
    BY Bounds DEF IdleInv, Counted, Numbers, NoIdle
  <2>2. ready \/ reports > 0 => quiet < Refresh
    BY Bounds DEF IdleInv, Numbers
  <2> QED BY <2>1, <2>2 DEF IdleInv
<1> QED BY <1>1, <1>2, <1>3, PTL DEF Spec, IdleMeansQuiet
===============================================================================
