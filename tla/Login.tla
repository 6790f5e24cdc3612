-------------------------------- MODULE Login --------------------------------
(***************************************************************************)
(* A console: rgetty opens the terminal, asks for a name and waits for     *)
(* rlogin, which checks the password and becomes the user's shell          *)
(* (rinit-tools/src/bin/rgetty.rs, rlogin/main.rs and src/utmp.rs).  Both  *)
(* may fail at any call, rgetty may be killed at any time and is started   *)
(* again by its unit, and a session leaves the terminal as its user likes. *)
(*                                                                         *)
(* The kernel ends a session with its leader: when rgetty dies, the rest   *)
(* of it gets SIGHUP and loses its descriptors of the terminal.            *)
(***************************************************************************)
EXTENDS Integers, Sequences, SequencesExt, FiniteSets

CONSTANTS
  Consoles,   \* the consoles: path, kind, ctty, prompt, timeout, host,
              \* passwd, shadow, secure, nologin, writable
  Typed,      \* the names and passwords that are typed
  Today,      \* the day of the login
  Gettys      \* bound on the starts of rgetty

VARIABLES
  console,    \* the console, chosen once
  tty,        \* the terminal: owner, mode, flags, echo, input typed ahead, foreground group
  getty,      \* rgetty, and whether it was killed since it wrote its last record
  login,      \* rlogin, and the shell it becomes
  utmp        \* the record of every line
loginVars == <<console, tty, getty, login, utmp>>

None == "none"
Blank == ""   \* an empty name, password field or line
MAX_FAILURES == 3

-------------------------------------------------------------------------------
(* The account files: sequences of lines, the first of a name counts.      *)

(* A field is a number, not set, or not a number.                          *)
Unset == -1
Malformed == -2
Numeric(field) == field >= 0

Find(lines, P(_)) ==
  LET hits == {i \in DOMAIN lines : P(lines[i])}
  IN IF hits = {} THEN <<>> ELSE <<lines[CHOOSE i \in hits : \A j \in hits : i <= j]>>

(* A line of /etc/passwd without numbers for the user is passed over; one  *)
(* of /etc/shadow is taken as it is.                                       *)
parse_passwd(name) == Find(console.passwd, LAMBDA line : line.name = name /\ Numeric(line.uid))
shadow_fields(name) == Find(console.shadow, LAMBDA line : line.name = name)

shadow_login_denied_bug(line, today) ==
  Numeric(line.expire) /\ today >= line.expire
shadow_login_denied(line, today) ==
  \/ Malformed \in {line.last, line.max, line.expire}
  \/ /\ Numeric(line.last) /\ Numeric(line.max)
     /\ line.max > 0 /\ today >= line.last + line.max
  \/ Numeric(line.expire) /\ today >= line.expire

(* The hash a password is checked against, if there is one.  A hash is     *)
(* known by the password it belongs to.                                    *)
password_hash(user) ==
  LET shadow == shadow_fields(user.name)
  IN IF shadow # <<>> /\ shadow_login_denied(shadow[1], Today) THEN <<>>
     ELSE IF user.password \notin {"x", Blank} THEN <<user.password>>
     ELSE IF shadow = <<>> THEN <<>>
     ELSE <<shadow[1].hash>>

Locked(hash) == hash \in {"!", "*"}
Crypted(hash) == hash \notin {Blank, "!", "*", "plain"}
verify_hash(password, hash) == hash = Blank \/ (Crypted(hash) /\ password = hash)

(* rlogin's command line: options end at "--" and at the first name.  An   *)
(* option it does not have stands for any other.                           *)
NoArguments ==
  [username |-> Blank, force_user |-> Blank, bad |-> FALSE, options |-> TRUE, value |-> None]
Operand(a, arg) ==
  IF a.username = Blank THEN [a EXCEPT !.username = arg, !.options = FALSE] ELSE [a EXCEPT !.bad = TRUE]
Option(a, arg) ==
  CASE arg = "--" -> [a EXCEPT !.options = FALSE]
    [] arg \in {"-f", "-h"} -> [a EXCEPT !.value = arg]
    [] arg = "-p" -> a
    [] arg = "-x" -> [a EXCEPT !.bad = TRUE]
    [] OTHER -> Operand(a, arg)
Argument(a, arg) ==
  IF a.bad THEN a
  ELSE IF a.value = "-f" THEN [a EXCEPT !.username = arg, !.force_user = arg, !.value = None]
  ELSE IF a.value = "-h" THEN [a EXCEPT !.value = None]
  ELSE IF a.options THEN Option(a, arg) ELSE Operand(a, arg)
parse_args(args) ==
  LET parsed[n \in 0 .. Len(args)] ==
        IF n = 0 THEN NoArguments ELSE Argument(parsed[n - 1], args[n])
      last == parsed[Len(args)]
  IN [last EXCEPT !.bad = @ \/ last.value # None]

-------------------------------------------------------------------------------
(* utmp: a record replaces the one with the same id, which is made of the  *)
(* short name of the line.  rgetty names the line by its operand, rlogin   *)
(* by what the terminal is called.                                         *)

Real == [dev |-> TRUE, line |-> "ttyAMA0"]
tty_id(path) == path.line
(* A console's lines of the account files hold numbers, `Unset` or         *)
(* `Malformed` for a number.                                               *)
ASSUME AccountsAssumption ==
  /\ Today \in Int
  /\ \A c \in Consoles :
       /\ c.passwd \in Seq(ToSet(c.passwd)) /\ c.shadow \in Seq(ToSet(c.shadow))
       /\ \A line \in ToSet(c.passwd) : line.uid \in Int
       /\ \A line \in ToSet(c.shadow) : {line.last, line.max, line.expire} \subseteq Int
(* A terminal is given by its own name, with or without the directory: of  *)
(* an alias rgetty and rlogin would keep two records.                      *)
ASSUME PathAssumption == \A c \in Consoles : tty_id(c.path) = tty_id(Real)
Lines == {tty_id(console.path), tty_id(Real)}
record(kind, path, user) ==
  utmp' = IF console.writable THEN [utmp EXCEPT ![tty_id(path)] = [kind |-> kind, user |-> user]] ELSE utmp
user_count == Cardinality({id \in DOMAIN utmp : utmp[id].kind = "USER"})

-------------------------------------------------------------------------------
(* rgetty.                                                                 *)

NoGetty == [at |-> None, starts |-> 0, tries |-> 0, user |-> Blank, killed |-> FALSE]
NoLogin ==
  [at |-> None, user |-> Blank, force |-> Blank, failures |-> 0, signals |-> "default", cred |-> "root",
   name |-> Blank, password |-> None]

(* The session ends with its leader.                                       *)
GettyExit(killed) ==
  /\ getty' = [getty EXCEPT !.at = None, !.user = Blank, !.tries = 0, !.killed = @ \/ killed]
  /\ login' = NoLogin

getty_start ==
  /\ getty.at = None /\ getty.starts < Gettys
  /\ getty' = [getty EXCEPT !.at = "open", !.starts = @ + 1]
  /\ UNCHANGED <<console, tty, login, utmp>>

OpenSteps ==
  <<"open", "isatty", "vhangup", "setsid", "TIOCSCTTY", "dup2", "tcsetpgrp", "tcsetattr",
    "fchown", "fchmod", "tcflush">>
(* A path outside /dev cannot be opened; a file is no terminal; and the    *)
(* hang-up of a terminal that was ours already takes the new descriptor    *)
(* with it.                                                                *)
Possible(step) ==
  CASE step = "open" -> console.kind # "outside"
    [] step = "isatty" -> console.kind = "tty"
    [] step = "TIOCSCTTY" -> ~console.ctty
    [] OTHER -> TRUE
configure_termios(t) == [t EXCEPT !.echo = TRUE, !.flags = "sane"]
(* The terminal after the first n steps. *)
OpenedUpTo(n) ==
  LET reached(step) == \E i \in 1 .. n : OpenSteps[i] = step
      t == IF reached("tcsetattr") THEN configure_termios(tty) ELSE tty
  IN [t EXCEPT !.fg = IF reached("tcsetpgrp") THEN "getty" ELSE @,
               !.owner = IF reached("fchown") THEN "root" ELSE @,
               !.mode = IF reached("fchmod") THEN "private" ELSE @,
               !.ahead = IF reached("tcflush") THEN FALSE ELSE @]

(* The first n steps work and the next one fails, if there is one.         *)
open_tty ==
  /\ getty.at = "open"
  /\ \E n \in 0 .. Len(OpenSteps) :
       /\ \A i \in 1 .. n : Possible(OpenSteps[i])
       /\ n # Len(OpenSteps) - 1   \* tcflush is not checked
       /\ tty' = OpenedUpTo(n)
       /\ IF n < Len(OpenSteps) THEN GettyExit(FALSE) /\ UNCHANGED utmp
          ELSE /\ getty' = [getty EXCEPT !.at = IF console.prompt THEN "prompt" ELSE "spawn", !.killed = FALSE]
               /\ record("LOGIN", console.path, "LOGIN")
               /\ UNCHANGED login
  /\ UNCHANGED console

(* Three empty answers are enough; rlogin asks on.                         *)
prompt_username ==
  /\ getty.at = "prompt"
  /\ \/ \E name \in Typed.names :
          /\ getty' = [getty EXCEPT !.user = name, !.tries = @ + 1,
                                    !.at = IF name # Blank \/ getty.tries + 1 = 3 THEN "spawn" ELSE @]
          /\ UNCHANGED login
     \/ console.timeout /\ GettyExit(FALSE)
  /\ UNCHANGED <<console, tty, utmp>>

LoginArgs(user) ==
  (IF console.host THEN <<"-h", "here">> ELSE <<>>) \o <<"--">> \o (IF user = Blank THEN <<>> ELSE <<user>>)

(* The child has taken the terminal before it runs rlogin.                 *)
spawn_login ==
  /\ getty.at = "spawn"
  /\ tty' \in {tty, [tty EXCEPT !.fg = "login"]}
  /\ \/ GettyExit(FALSE)
     \/ /\ tty'.fg = "login"
        /\ getty' = [getty EXCEPT !.at = "wait"]
        /\ login' = [NoLogin EXCEPT !.at = "start"]
  /\ UNCHANGED <<console, utmp>>

(* child.wait returned. *)
session_end ==
  /\ getty.at = "wait" /\ login.at = None
  /\ record("DEAD", console.path, Blank)
  /\ GettyExit(FALSE)
  /\ UNCHANGED <<console, tty>>

(* A stop of the unit, or a crash.                                         *)
getty_killed ==
  /\ getty.at # None
  /\ GettyExit(TRUE)
  /\ UNCHANGED <<console, tty, utmp>>

-------------------------------------------------------------------------------
(* rlogin.                                                                 *)

Exits == login' = NoLogin /\ UNCHANGED <<tty, utmp>>

(* The command line is parsed, the signals of the keyboard are ignored,    *)
(* and /etc/passwd is read.                                                *)
login_run ==
  /\ login.at = "start"
  /\ LET args == parse_args(LoginArgs(getty.user))
     IN \/ Exits
        \/ /\ ~args.bad
           /\ login' = [login EXCEPT !.at = IF args.username = Blank THEN "name" ELSE "check",
                          !.user = args.username, !.name = getty.user,
                          !.force = args.force_user, !.signals = "ignored"]
           /\ UNCHANGED <<tty, utmp>>
  /\ UNCHANGED <<console, getty>>

FailedTry(l) ==
  IF l.failures + 1 >= MAX_FAILURES THEN NoLogin
  ELSE [l EXCEPT !.failures = @ + 1, !.at = "name", !.user = Blank]

read_name ==
  /\ login.at = "name"
  /\ \/ Exits
     \/ /\ \E name \in Typed.names :
             login' = IF name = Blank THEN FailedTry(login)
                      ELSE [login EXCEPT !.at = "check", !.user = name, !.name = name, !.password = None]
        /\ UNCHANGED <<tty, utmp>>
  /\ UNCHANGED <<console, getty>>

Candidate == parse_passwd(login.user)
secure_tty == console.secure
Judge(ok) == login' = IF ok THEN [login EXCEPT !.at = "granted"] ELSE FailedTry(login)

(* What can be decided without the password: root elsewhere than on a      *)
(* secure terminal, -f, an account without a password, one that is locked. *)
authenticate ==
  /\ login.at = "check"
  /\ IF Candidate = <<>>
     THEN login' = [login EXCEPT !.at = "password"]
     ELSE LET user == Candidate[1]
              hash == password_hash(user)
          IN IF user.uid = 0 /\ ~secure_tty THEN Judge(FALSE)
             ELSE IF login.force = login.user THEN Judge(login.cred = "root")
             ELSE IF hash = <<>> \/ Locked(hash[1]) THEN Judge(FALSE)
             ELSE IF hash[1] = Blank THEN Judge(TRUE)
             ELSE login' = [login EXCEPT !.at = "password"]
  /\ UNCHANGED <<console, tty, getty, utmp>>

(* The echo is off while a password is typed, for an unknown name too.     *)
hide_echo ==
  /\ login.at = "password" /\ tty.echo
  /\ tty' = [tty EXCEPT !.echo = FALSE]
  /\ UNCHANGED <<console, getty, login, utmp>>
read_password ==
  /\ login.at = "password" /\ ~tty.echo
  /\ tty' = [tty EXCEPT !.echo = TRUE]
  /\ \/ Candidate # <<>> /\ login' = NoLogin
     \/ \E password \in Typed.passwords :
          LET typed == [login EXCEPT !.password = password]
          IN login' = IF Candidate # <<>> /\ verify_hash(password, password_hash(Candidate[1])[1])
                      THEN [typed EXCEPT !.at = "granted"] ELSE FailedTry(typed)
  /\ UNCHANGED <<console, getty, utmp>>

nologin == console.nologin /\ Candidate[1].uid # 0
account ==
  /\ login.at = "granted"
  /\ \/ nologin /\ Exits
     \/ /\ ~nologin
        /\ record("USER", Real, login.user)
        /\ login' = [login EXCEPT !.at = "identity"]
        /\ UNCHANGED tty
  /\ UNCHANGED <<console, getty>>

(* The terminal goes to the user while the process may still give it; and  *)
(* the signals of the keyboard work again before the shell.                *)
change_identity ==
  /\ login.at = "identity"
  /\ tty' \in {tty, [tty EXCEPT !.owner = login.user], [tty EXCEPT !.owner = login.user, !.mode = "private"]}
  /\ \/ login' = NoLogin
     \/ /\ tty'.owner = login.user /\ tty'.mode = "private"
        /\ login' = [login EXCEPT !.at = "exec", !.cred = login.user, !.signals = "default"]
  /\ UNCHANGED <<console, getty, utmp>>

start_shell ==
  /\ login.at = "exec"
  /\ \/ Exits
     \/ login' = [login EXCEPT !.at = "shell"] /\ UNCHANGED <<tty, utmp>>
  /\ UNCHANGED <<console, getty>>

-------------------------------------------------------------------------------
(* The user: ^C, which reaches the foreground group, a session that sets   *)
(* the terminal as it likes, and its end.                                  *)

interrupt ==
  /\ tty.fg = "login" /\ login.at \in {"start", "exec"} /\ login.signals = "default"
  /\ Exits /\ UNCHANGED <<console, getty>>
stty ==
  /\ login.at = "shell" /\ tty.flags = "sane"
  /\ tty' = [tty EXCEPT !.flags = "changed", !.echo = FALSE, !.mode = "public", !.ahead = TRUE]
  /\ UNCHANGED <<console, getty, login, utmp>>
logout ==
  /\ login.at = "shell"
  /\ Exits /\ UNCHANGED <<console, getty>>

LoginInit ==
  /\ console \in Consoles
  /\ tty = [owner |-> "nobody", mode |-> "public", flags |-> "changed", echo |-> FALSE,
            ahead |-> TRUE, fg |-> None]
  /\ getty = NoGetty /\ login = NoLogin
  /\ utmp = [id \in Lines |-> [kind |-> "DEAD", user |-> Blank]]

RgettyStep == open_tty \/ spawn_login \/ session_end
RloginStep ==
  login_run \/ authenticate \/ hide_echo \/ account \/ change_identity \/ start_shell
Answer == prompt_username \/ read_name \/ read_password
LoginNext ==
  \/ getty_start \/ getty_killed \/ RgettyStep \/ RloginStep \/ Answer
  \/ interrupt \/ stty \/ logout
LoginSpec == LoginInit /\ [][LoginNext]_loginVars

-------------------------------------------------------------------------------

(* A shell is the shell of the name that was typed last, and that name has *)
(* earned it: its account is there, not locked and not expired, the        *)
(* password typed for it is its own unless it has none, root sits at a     *)
(* secure terminal and the system is open for anybody else.  However the   *)
(* tries before it went, and whatever a name looks like.                   *)
FirstOf(lines, name) ==
  CHOOSE line \in ToSet(lines) :
    \E i \in DOMAIN lines : lines[i] = line /\ line.name = name /\ \A j \in 1 .. i - 1 : lines[j].name # name
Expired(line) ==
  \/ Numeric(line.last) /\ Numeric(line.max) /\ line.max # 0 /\ line.last + line.max <= Today
  \/ Numeric(line.expire) /\ line.expire <= Today
  \/ Malformed \in {line.last, line.max, line.expire}
HasShadow(name) == \E i \in DOMAIN console.shadow : console.shadow[i].name = name
Earned(name, password) ==
  \E line \in ToSet(console.passwd) :
    /\ line.name = name /\ Numeric(line.uid)
    /\ HasShadow(name) => ~Expired(FirstOf(console.shadow, name))
    /\ LET hash == IF line.password \in {"x", Blank} THEN FirstOf(console.shadow, name).hash ELSE line.password
       IN hash = Blank \/ (hash = password /\ Crypted(hash))
    /\ IF line.uid = 0 THEN console.secure ELSE ~console.nologin
LoginIsEarned ==
  login.at = "shell" =>
    /\ login.user = login.name /\ login.cred = login.user
    /\ Earned(login.name, login.password)

(* A prompt is always shown on a terminal made new, whatever the session   *)
(* before it did and however it ended; a shell gets a terminal that is its *)
(* user's alone, with the echo and the keyboard's signals working; and a   *)
(* file that is no terminal is not touched.                                *)
TerminalIsYours ==
  /\ getty.at \in {"prompt", "spawn"} =>
       tty = [owner |-> "root", mode |-> "private", flags |-> "sane", echo |-> TRUE,
              ahead |-> FALSE, fg |-> "getty"]
  /\ login.at = "shell" /\ tty.flags = "sane" =>
       tty.owner = login.user /\ tty.mode = "private" /\ tty.echo /\ tty.fg = "login"
         /\ login.signals = "default"
  /\ console.kind # "tty" => tty.owner = "nobody"

(* A running shell is counted as one user and by its name, and when rgetty *)
(* has ended on its own nobody is left on record.                          *)
SessionIsCounted ==
  console.writable =>
    /\ login.at = "shell" => user_count = 1 /\ utmp[tty_id(Real)].user = login.user
    /\ getty.at = None /\ ~getty.killed => user_count = 0

(* As long as somebody answers, asking ends: with a shell or with the end  *)
(* of rgetty, even if every answer is empty as it is on a closed line.     *)
LoginSettles ==
  (getty.at = "prompt" \/ login.at \in {"start", "name", "check", "password"})
    ~> (login.at = "shell" \/ getty.at = None)

(* Through tries, failing calls, interruptions and restarts of rgetty: a   *)
(* shell is earned by the account that gets it, on a clean terminal of its *)
(* own, and utmp counts it as long as it runs and no longer.               *)
LoginIsSound ==
  /\ LoginIsEarned
  /\ TerminalIsYours
  /\ SessionIsCounted
===============================================================================
