------------------------------- MODULE SignIn -------------------------------
(***************************************************************************)
(* The sign-in manager (internal/auth): one password for the coordinator,  *)
(* a one-time password until one is set, sessions, and the lockout.  The   *)
(* lockout is looked at when a login begins and counted when it ends; the  *)
(* lock m.mu is free in between, so logins overlap.  What a save of the     *)
(* password leaves in config.toml is module HostConfig; the two share no    *)
(* names, and their theorems stand together in HostConfig_proofs.           *)
(***************************************************************************)
EXTENDS Naturals, FiniteSets

CONSTANTS
    Chosen,     \* passwords the owner may choose
    Temp,       \* the one-time password of a run without a password
    Wrong,      \* a guess that is neither
    NoPassword, \* where there is none
    Logins,     \* goroutines that serve POST /api/auth/login
    MaxFails    \* maxLoginFails

ASSUME SignInAssumption ==
    /\ MaxFails \in Nat \ {0}
    /\ IsFiniteSet(Logins)

Guesses == Chosen \cup {Temp, Wrong}

VARIABLES
    hash,       \* the password whose hash is stored, or NoPassword
    temp,       \* the one-time password, or NoPassword
    setting,    \* the new passwords being hashed
    signedIn,   \* a browser of the owner holds a session that is valid
    fails,      \* wrong logins since the last right one or lockout
    locked,     \* now is before lockUntil
    login,      \* what each login has done so far
    wrong       \* history: wrong logins since the last right one or the end
                \* of the last lockout

signInVars == <<hash, temp, setting, signedIn, fails, locked, login, wrong>>

Arrived == [at |-> "none", pw |-> NoPassword, ok |-> FALSE]

\* New: sessions, counter and lockout are memory only; without a stored
\* password a one-time password is made up.
Manager(h) ==
    /\ hash' = h
    /\ temp' = IF h = NoPassword THEN Temp ELSE NoPassword
    /\ setting' = {}
    /\ signedIn' = FALSE
    /\ fails' = 0
    /\ locked' = FALSE
    /\ login' = [g \in Logins |-> Arrived]
    /\ wrong' = 0

SignInInit ==
    /\ hash = NoPassword
    /\ temp = Temp
    /\ setting = {}
    /\ signedIn = FALSE
    /\ fails = 0
    /\ locked = FALSE
    /\ login = [g \in Logins |-> Arrived]
    /\ wrong = 0

-----------------------------------------------------------------------------
\* A mutant: the lockout is not looked at.
LoginUnchecked(g, p) ==
    /\ login[g] = Arrived
    /\ login' = [login EXCEPT ![g] = [at |-> "check", pw |-> p, ok |-> FALSE]]
    /\ UNCHANGED <<hash, temp, setting, signedIn, fails, locked, wrong>>

\* handleLogin looks at the lockout before anything else; while it lasts the
\* answer is 429 and nothing changes.
Login(g, p) ==
    /\ login[g] = Arrived
    /\ ~locked
    /\ login' = [login EXCEPT ![g] = [at |-> "check", pw |-> p, ok |-> FALSE]]
    /\ UNCHANGED <<hash, temp, setting, signedIn, fails, locked, wrong>>

\* checkPassword: the one-time password counts only while no other is set.
\* Both are read under the lock, the slow comparison is outside.
Check(g) ==
    /\ login[g].at = "check"
    /\ LET stored == IF hash # NoPassword THEN hash ELSE temp
       IN  login' = [login EXCEPT ![g] =
               [at |-> "record", pw |-> NoPassword, ok |-> (login[g].pw = stored)]]
    /\ UNCHANGED <<hash, temp, setting, signedIn, fails, locked, wrong>>

\* recordAttempt, and mintSession for a right password: nothing reads the
\* counter and the sessions together, so the two are one step.
Record(g) ==
    /\ login[g].at = "record"
    /\ login' = [login EXCEPT ![g] = Arrived]
    /\ IF login[g].ok
         THEN /\ signedIn' = TRUE
              /\ fails' = 0
              /\ wrong' = 0
              /\ UNCHANGED locked
         ELSE /\ fails' = (fails + 1) % MaxFails
              /\ locked' = (locked \/ fails + 1 = MaxFails)
              /\ wrong' = wrong + 1
              /\ UNCHANGED signedIn
    /\ UNCHANGED <<hash, temp, setting>>

\* The minute is over.
LockoutEnds ==
    /\ locked
    /\ locked' = FALSE
    /\ wrong' = 0
    /\ UNCHANGED <<hash, temp, setting, signedIn, fails, login>>

\* clearSession on a logout, or validSession finding the session expired.
SessionEnds ==
    /\ signedIn
    /\ signedIn' = FALSE
    /\ UNCHANGED <<hash, temp, setting, fails, locked, login, wrong>>

\* handleSetPassword wants a session, then hashes, which takes its time.
HandleSetPassword(p) ==
    /\ signedIn
    /\ setting' = setting \cup {p}
    /\ UNCHANGED <<hash, temp, signedIn, fails, locked, login, wrong>>

\* The part under the lock.
Replace(p) ==
    /\ p \in setting
    /\ hash' = p
    /\ temp' = NoPassword
    /\ setting' = setting \ {p}
    /\ UNCHANGED <<signedIn, fails, locked, login, wrong>>

\* A new run of the daemon starts from whatever password the file holds.
Restart == \E h \in Chosen \cup {NoPassword} : Manager(h)

SignInNext ==
    \/ \E g \in Logins :
        \/ \E p \in Guesses : Login(g, p)
        \/ Check(g)
        \/ Record(g)
    \/ LockoutEnds
    \/ SessionEnds
    \/ \E p \in Chosen : HandleSetPassword(p) \/ Replace(p)
    \/ Restart

SignInSpec == SignInInit /\ [][SignInNext]_signInVars

-----------------------------------------------------------------------------
(* What each variable may hold.                                            *)
SignInTypeOK ==
    /\ hash \in Chosen \cup {NoPassword}
    /\ temp \in {Temp, NoPassword}
    /\ setting \subseteq Chosen
    /\ signedIn \in BOOLEAN
    /\ fails \in 0..MaxFails - 1
    /\ locked \in BOOLEAN
    /\ login \in [Logins -> [at : {"none", "check", "record"},
                             pw : Guesses \cup {NoPassword}, ok : BOOLEAN]]
    /\ wrong \in Nat

(* However logins overlap, at most MaxFails wrong ones are answered before  *)
(* the lockout, plus those that were already past it (auth.go locked,       *)
(* recordAttempt: http.go handleLogin calls them without a common lock).    *)
GuessesBounded ==
    Logins # {} => wrong <= MaxFails + Cardinality(Logins) - 1
=============================================================================
