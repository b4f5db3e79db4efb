---------------------------- MODULE ServerProofs ----------------------------
(***************************************************************************)
(* The web server's login, in both of its halves: onboarding with its two  *)
(* files, for any rosters and any number of saves that overlap, are        *)
(* overtaken by logins, or are cut short by a crash; and the session with  *)
(* the cloud, for any number of accounts and of requests at a time.        *)
(***************************************************************************)
EXTENDS Onboarding, CloudSession, TLAPS

\* The credentials a save is about to write are the login's, but for those that
\* came in its body.
TakesTheLogins ==
  \A r \in Runs : run[r].at = "secrets" =>
    run[r].creds # NoCreds /\ (onboard # Nobody => own \/ run[r].creds = Of(onboard))

\* A save that has come to mowers.toml has written its credentials.
SecretsFirst ==
  \A r \in Runs : run[r].at = "roster" /\ run[r].creds # NoCreds => disk.secrets = run[r].creds

\* One that is past secrets.toml has written the login's, unless there has been a
\* login meanwhile, or they came in a body.
OnDiskOrLate ==
  \A r \in Runs : run[r].at \notin {"idle", "secrets"} /\ onboard # Nobody
                    => late \/ own \/ disk.secrets = Of(onboard)

\* A link that is being connected is for a mower.
ConnectsAMower ==
  \A r \in Runs : run[r].at = "connect" =>
    run[r].link \in Links /\ link[run[r].link].cfg \in Entries

OnboardInv ==
  /\ OnboardTypeOK /\ TakesTheLogins /\ SecretsFirst /\ OnDiskOrLate
  /\ ConnectsAMower /\ RosterHasItsAccount

\* Whatever becomes of a run's link, it keeps its mower while it is being connected.
Keeps(lk, r) == run[r].at = "connect" => lk[run[r].link].cfg = link[run[r].link].cfg

-----------------------------------------------------------------------------
(* Rosters, tables and runs.                                               *)

LEMMA EntryOf ==
  ASSUME NEW m \in AnyRoster, NEW i \in Nat \ {0}
  PROVE  /\ Len(m) \in Nat
         /\ i <= Len(m) => m[i] \in Entries
<1>1. CASE m = <<>>
  BY <1>1
<1>2. CASE m \in Rosters
  <2>1. Len(m) \in Nat /\ DOMAIN m = 1 .. Len(m)
    BY <1>2, OnboardAssumption
  <2> QED
    BY <1>2, <2>1 DEF Entries
<1> QED
  BY <1>1, <1>2 DEF AnyRoster

LEMMA PutTyped ==
  ASSUME NEW table \in Seq(Named), NEW e \in Entries, NEW k \in Links
  PROVE  Put(table, e.name, k) \in Seq(Named)
<1> DEFINE new == [name |-> e.name, link |-> k]
<1>1. new \in Named
  BY DEF Named
<1>2. Append(table, new) \in Seq(Named)
  BY <1>1
<1>3. [j \in DOMAIN table |-> IF table[j].name = e.name THEN new ELSE table[j]] \in Seq(Named)
  <2>1. DOMAIN table = 1 .. Len(table) /\ Len(table) \in Nat
    OBVIOUS
  <2>2. \A j \in 1 .. Len(table) : (IF table[j].name = e.name THEN new ELSE table[j]) \in Named
    BY <1>1
  <2> HIDE DEF new
  <2> QED
    BY <2>1, <2>2
<1> QED
  BY <1>2, <1>3 DEF Put

LEMMA CredentialsTyped ==
  /\ NoCreds \in Credentials
  /\ \A a \in Accounts : Of(a) \in Credentials /\ Of(a) # NoCreds
BY OnboardAssumption DEF NoCreds, Of, Credentials, OrNobody

\* With a login every save has credentials to write, its own or the login's.
LEMMA ChosenOf ==
  ASSUME NEW p \in Credentials, onboard \in OrNobody(Accounts)
  PROVE  /\ Chosen(p) \in Credentials
         /\ onboard # Nobody => Chosen(p) # NoCreds
         /\ onboard # Nobody /\ p = NoCreds => Chosen(p) = Of(onboard)
<1> DEFINE e == IF p.email # Nobody THEN p.email ELSE onboard
           w == IF p.password # Nobody THEN p.password ELSE onboard
           c == [email |-> e, password |-> w]
<1>1. e \in OrNobody(Accounts) /\ w \in OrNobody(Accounts)
  BY DEF Credentials
<1>2. c \in Credentials /\ c.email = e /\ c.password = w
  BY <1>1 DEF Credentials
<1>3. Chosen(p) = IF e # Nobody /\ w # Nobody THEN c ELSE NoCreds
  BY <1>2 DEF Chosen
<1>4. onboard # Nobody => e # Nobody /\ w # Nobody
  OBVIOUS
<1>5. NoCreds.email = Nobody /\ NoCreds.password = Nobody
  BY DEF NoCreds
<1>6. onboard # Nobody => Chosen(p) # NoCreds
  <2> HIDE DEF c, e
  <2> QED
    BY <1>2, <1>3, <1>4, <1>5
<1>7. onboard # Nobody /\ p = NoCreds => Chosen(p) = Of(onboard)
  BY <1>3, <1>4, <1>5 DEF Of
<1>8. Chosen(p) \in Credentials
  <2> HIDE DEF c
  <2> QED
    BY <1>2, <1>3, CredentialsTyped
<1> QED
  BY <1>6, <1>7, <1>8

LEMMA Blank ==
  /\ IdleRun \in RunState /\ IdleRun.at = "idle"
  /\ NoLink \in LinkState
  /\ <<>> \in Seq(Named) /\ <<>> \in AnyRoster
BY CredentialsTyped DEF IdleRun, RunState, NoLink, LinkState, AnyRoster, OrNobody

\* After a start no run but the lifespan's is at anything.
LEMMA StartedTyped ==
  ASSUME NEW roster \in AnyRoster
  PROVE  /\ Started(roster) \in [Runs -> RunState]
         /\ \A r \in Runs : Started(roster)[r].at \in {"idle", "transports"}
<1>1. [IdleRun EXCEPT !.at = "transports", !.i = 1] \in RunState
  BY CredentialsTyped DEF IdleRun, RunState, AnyRoster, OrNobody
<1>2. [IdleRun EXCEPT !.at = "transports", !.i = 1].at = "transports"
  BY DEF IdleRun
<1> QED
  BY <1>1, <1>2, Blank DEF Started

\* What keeps the invariant of a step that leaves the login and the files alone.
LEMMA OnboardCallback ==
  ASSUME OnboardInv, UNCHANGED <<disk, history>>, onboard' \in {onboard, Nobody},
         NEW r \in Runs, NEW new \in RunState, run' = [run EXCEPT ![r] = new],
         new.at \notin {"secrets", "roster"}, run[r].at \notin {"idle", "secrets", "roster"},
         MOWERS' \in AnyRoster, live' \in Seq(Named), watchdog_tasks' \in Seq(Named),
         link' \in [Links -> LinkState],
         \A s \in Runs \ {r} : Keeps(link', s),
         new.at = "connect" => new.link \in Links /\ link'[new.link].cfg \in Entries
  PROVE  OnboardInv'
<1>1. run' \in [Runs -> RunState] /\ run'[r] = new /\ \A s \in Runs \ {r} : run'[s] = run[s]
  BY DEF OnboardInv, OnboardTypeOK
<1>2. OnboardTypeOK'
  BY <1>1 DEF OnboardInv, OnboardTypeOK, OrNobody, history
<1>3. TakesTheLogins' /\ SecretsFirst'
  BY <1>1 DEF OnboardInv, TakesTheLogins, SecretsFirst, history
<1>4. OnDiskOrLate'
  BY <1>1 DEF OnboardInv, OnDiskOrLate, history
<1>5. ConnectsAMower'
  BY <1>1 DEF OnboardInv, ConnectsAMower, Keeps
<1>6. BetweenFiles' <=> BetweenFiles
  BY <1>1 DEF BetweenFiles
<1> QED
  BY <1>2, <1>3, <1>4, <1>5, <1>6 DEF OnboardInv, RosterHasItsAccount, history

\* And of one that takes no run further.
LEMMA OnboardLinkStep ==
  ASSUME OnboardInv, NEW k \in Links, NEW to \in LinkState, link' = [link EXCEPT ![k] = to],
         Connecting(k) => to.cfg = link[k].cfg,
         UNCHANGED <<disk, MOWERS, live, watchdog_tasks, run, onboard, history>>
  PROVE  OnboardInv'
<1>1. OnboardTypeOK'
  BY DEF OnboardInv, OnboardTypeOK, history
<1>2. ConnectsAMower'
  <2>1. ASSUME NEW r \in Runs, run[r].at = "connect"
        PROVE  run[r].link \in Links /\ link'[run[r].link].cfg \in Entries
    <3>1. run[r].link \in Links /\ link[run[r].link].cfg \in Entries
      BY <2>1 DEF OnboardInv, ConnectsAMower
    <3>2. CASE run[r].link = k
      BY <2>1, <3>1, <3>2 DEF Connecting, OnboardInv, OnboardTypeOK
    <3>3. CASE run[r].link # k
      BY <3>1, <3>3 DEF OnboardInv, OnboardTypeOK
    <3> QED
      BY <3>2, <3>3
  <2> QED
    BY <2>1 DEF ConnectsAMower
<1> QED
  BY <1>1, <1>2 DEF OnboardInv, TakesTheLogins, SecretsFirst, OnDiskOrLate, RosterHasItsAccount,
                    BetweenFiles, history

-----------------------------------------------------------------------------
(* The start, a crash, and a login.                                        *)

LEMMA OnboardInvInit == OnboardInit => OnboardInv
<1> SUFFICES ASSUME OnboardInit PROVE OnboardInv
  OBVIOUS
<1>1. disk \in [secrets: Credentials, roster: AnyRoster] /\ disk.roster \in AnyRoster
  BY CredentialsTyped DEF OnboardInit
<1>2. OnboardTypeOK
  BY <1>1, StartedTyped, Blank, CredentialsTyped DEF OnboardInit, OnboardTypeOK, OrNobody
<1>3. ConnectsAMower /\ TakesTheLogins /\ SecretsFirst
  BY <1>1, StartedTyped DEF OnboardInit, ConnectsAMower, TakesTheLogins, SecretsFirst
<1> QED
  BY <1>2, <1>3 DEF OnboardInit, OnboardInv, OnDiskOrLate, RosterHasItsAccount

LEMMA OnboardInvCrash == OnboardInv /\ Crash => OnboardInv'
<1> SUFFICES ASSUME OnboardInv, Crash PROVE OnboardInv'
  OBVIOUS
<1>1. disk.roster \in AnyRoster
  BY DEF OnboardInv, OnboardTypeOK
<1>2. /\ run' = Started(disk.roster) /\ onboard' = Nobody /\ UNCHANGED <<disk, rosterOf>>
      /\ late' = FALSE /\ overlapped' = FALSE /\ own' = FALSE
  BY DEF Crash
<1>3. cut' = (cut \/ BetweenFiles) /\ cut' \in BOOLEAN
  BY Zenon DEF Crash
<1>4. OnboardTypeOK'
  BY <1>1, <1>2, <1>3, StartedTyped, Blank DEF Crash, OnboardInv, OnboardTypeOK, OrNobody
<1>5. ConnectsAMower' /\ TakesTheLogins' /\ SecretsFirst'
  BY <1>1, <1>2, StartedTyped DEF ConnectsAMower, TakesTheLogins, SecretsFirst
<1>6. OnDiskOrLate'
  BY <1>2 DEF OnDiskOrLate
<1>7. RosterHasItsAccount'
  BY <1>2, <1>3, Zenon DEF OnboardInv, RosterHasItsAccount
<1> QED
  BY <1>4, <1>5, <1>6, <1>7 DEF OnboardInv

\* No save is between the two files when a login comes.
LEMMA OnboardInvLogin == ASSUME NEW a \in Accounts, OnboardInv, CaptureLogin(a) PROVE OnboardInv'
<1>1. /\ onboard' = a /\ own' = FALSE
      /\ UNCHANGED <<disk, rosterVars, run, rosterOf, cut, overlapped>>
      /\ late' = (late \/ \E r \in Runs : run[r].at # "idle")
  BY DEF CaptureLogin
<1>2. \A r \in Runs : run[r].at \notin {"secrets", "roster"}
  BY DEF CaptureLogin, Serving, Holding
<1>3. late' \in BOOLEAN /\ \A r \in Runs : run[r].at # "idle" => late'
  BY <1>1, Zenon
<1>4. OnboardTypeOK'
  BY <1>1, <1>3 DEF OnboardInv, OnboardTypeOK, OrNobody, rosterVars
<1>5. TakesTheLogins' /\ SecretsFirst' /\ OnDiskOrLate'
  BY <1>1, <1>2, <1>3 DEF TakesTheLogins, SecretsFirst, OnDiskOrLate
<1>6. ConnectsAMower'
  BY <1>1 DEF OnboardInv, ConnectsAMower, rosterVars
<1> QED
  BY <1>1, <1>4, <1>5, <1>6 DEF OnboardInv, RosterHasItsAccount, BetweenFiles

-----------------------------------------------------------------------------
(* A save's two files.                                                     *)

LEMMA OnboardInvSaveBegins ==
  ASSUME NEW r \in Saves, NEW roster \in Rosters, NEW p \in Payloads, OnboardInv,
         SaveBegins(r, roster, p)
  PROVE  OnboardInv'
<1> DEFINE to == IF Chosen(p) = NoCreds THEN "roster" ELSE "secrets"
           new == [IdleRun EXCEPT !.at = to, !.roster = roster, !.creds = Chosen(p)]
<1>1. /\ run' = [run EXCEPT ![r] = new] /\ run[r].at = "idle"
      /\ overlapped' = (overlapped \/ \E s \in Runs : run[s].at # "idle")
      /\ own' = (own \/ (onboard # Nobody /\ p # NoCreds))
      /\ UNCHANGED <<disk, rosterVars, onboard, rosterOf, cut, late>>
  BY DEF SaveBegins, SaveWith
<1>2. /\ Chosen(p) \in Credentials
      /\ onboard # Nobody => Chosen(p) # NoCreds
      /\ onboard # Nobody /\ p = NoCreds => Chosen(p) = Of(onboard)
  BY ChosenOf, OnboardAssumption DEF OnboardInv, OnboardTypeOK
<1>3. new \in RunState /\ new.at = to /\ new.creds = Chosen(p)
  BY <1>2 DEF IdleRun, RunState, AnyRoster, OrNobody
<1>4. overlapped' \in BOOLEAN /\ own' \in BOOLEAN
  BY <1>1, Zenon
<1>5. (own => own') /\ (onboard # Nobody => own' \/ Chosen(p) = Of(onboard))
  BY <1>1, <1>2, Zenon
<1>6. /\ run' \in [Runs -> RunState] /\ r \in Runs /\ run'[r].at = to /\ run'[r].creds = Chosen(p)
      /\ \A s \in Runs \ {r} : run'[s] = run[s]
  <2> HIDE DEF new
  <2> QED
    BY <1>1, <1>3 DEF OnboardInv, OnboardTypeOK, Runs
<1>7. OnboardTypeOK'
  BY <1>1, <1>4, <1>6 DEF OnboardInv, OnboardTypeOK, rosterVars
<1>8. TakesTheLogins'
  BY <1>1, <1>5, <1>6 DEF OnboardInv, TakesTheLogins
<1>9. SecretsFirst'
  BY <1>1, <1>6 DEF OnboardInv, SecretsFirst
<1>10. OnDiskOrLate'
  BY <1>1, <1>2, <1>5, <1>6 DEF OnboardInv, OnDiskOrLate
<1>11. ConnectsAMower'
  BY <1>1, <1>6 DEF OnboardInv, ConnectsAMower, rosterVars
<1>12. BetweenFiles => BetweenFiles'
  BY <1>1, <1>6 DEF BetweenFiles
<1> QED
  BY <1>1, <1>7, <1>8, <1>9, <1>10, <1>11, <1>12 DEF OnboardInv, RosterHasItsAccount

\* A save that writes has the turn: no other is at its files.
LEMMA OneWrites ==
  ASSUME NEW r \in Runs, Turn(r)
  PROVE  \A s \in Runs \ {r} : run[s].at \notin {"secrets", "roster"}
BY DEF Turn, Holding

LEMMA OnboardInvSecrets == ASSUME NEW r \in Runs, OnboardInv, save_secrets(r) PROVE OnboardInv'
<1>1. /\ disk' = [disk EXCEPT !.secrets = run[r].creds]
      /\ late' = FALSE /\ run[r].at = "secrets"
      /\ run' = [run EXCEPT ![r].at = "roster"]
      /\ UNCHANGED <<rosterVars, onboard, rosterOf, cut, overlapped, own>>
  BY DEF save_secrets
<1>2. /\ run' \in [Runs -> RunState] /\ run'[r].at = "roster" /\ run'[r].creds = run[r].creds
      /\ \A s \in Runs \ {r} : run'[s] = run[s]
  BY <1>1 DEF OnboardInv, OnboardTypeOK, RunState
<1>3. /\ disk' \in [secrets: Credentials, roster: AnyRoster]
      /\ disk'.secrets = run[r].creds
  BY <1>1 DEF OnboardInv, OnboardTypeOK, RunState
<1>4. run[r].creds # NoCreds /\ (onboard # Nobody => own \/ run[r].creds = Of(onboard))
  BY <1>1 DEF OnboardInv, TakesTheLogins
<1>5. \A s \in Runs \ {r} : run[s].at \notin {"secrets", "roster"}
  BY OneWrites DEF save_secrets
<1>6. OnboardTypeOK'
  BY <1>1, <1>2, <1>3 DEF OnboardInv, OnboardTypeOK, OrNobody, rosterVars
<1>7. TakesTheLogins' /\ SecretsFirst'
  BY <1>2, <1>3, <1>5 DEF TakesTheLogins, SecretsFirst
<1>8. OnDiskOrLate'
  BY <1>1, <1>3, <1>4 DEF OnDiskOrLate
<1>9. ConnectsAMower'
  BY <1>1, <1>2 DEF OnboardInv, ConnectsAMower, rosterVars
<1>10. BetweenFiles'
  BY <1>2, <1>4 DEF BetweenFiles
<1> QED
  BY <1>6, <1>7, <1>8, <1>9, <1>10 DEF OnboardInv, RosterHasItsAccount

LEMMA OnboardInvMowers == ASSUME NEW r \in Runs, OnboardInv, save_mowers(r) PROVE OnboardInv'
<1>1. /\ run[r].at = "roster"
      /\ disk' = [disk EXCEPT !.roster = run[r].roster]
      /\ rosterOf' = run[r].creds /\ cut' = FALSE
      /\ UNCHANGED <<rosterVars, onboard, overlapped, late, own>>
  BY DEF save_mowers
<1>2. PICK to \in {"cancel", "websockets"} :
        run' = [run EXCEPT ![r] = [@ EXCEPT !.at = to, !.creds = NoCreds]]
  BY DEF save_mowers
<1> DEFINE new == [run[r] EXCEPT !.at = to, !.creds = NoCreds]
<1>3. new \in RunState /\ new.at = to
  BY CredentialsTyped DEF OnboardInv, OnboardTypeOK, RunState
<1>4. /\ run' \in [Runs -> RunState] /\ run'[r].at = to
      /\ \A s \in Runs \ {r} : run'[s] = run[s]
  <2>1. run' = [run EXCEPT ![r] = new]
    BY <1>2
  <2> HIDE DEF new
  <2> QED
    BY <1>3, <2>1 DEF OnboardInv, OnboardTypeOK
<1>5. /\ disk' \in [secrets: Credentials, roster: AnyRoster]
      /\ disk'.secrets = disk.secrets
  BY <1>1 DEF OnboardInv, OnboardTypeOK, RunState
<1>6. run[r].creds \in Credentials /\ (run[r].creds # NoCreds => disk.secrets = run[r].creds)
  BY <1>1 DEF OnboardInv, OnboardTypeOK, SecretsFirst, RunState
<1>7. OnboardTypeOK'
  BY <1>1, <1>4, <1>5, <1>6 DEF OnboardInv, OnboardTypeOK, rosterVars
<1>8. TakesTheLogins' /\ SecretsFirst' /\ OnDiskOrLate'
  BY <1>1, <1>4, <1>5 DEF OnboardInv, TakesTheLogins, SecretsFirst, OnDiskOrLate
<1>9. RosterHasItsAccount'
  BY <1>1, <1>5, <1>6 DEF RosterHasItsAccount
<1>10. ConnectsAMower'
  BY <1>1, <1>4 DEF OnboardInv, ConnectsAMower, rosterVars
<1> QED
  BY <1>7, <1>8, <1>9, <1>10 DEF OnboardInv

LEMMA OnboardInvWriteFails == ASSUME NEW r \in Runs, OnboardInv, WriteFails(r) PROVE OnboardInv'
<1>1. /\ run' = [run EXCEPT ![r] = IdleRun]
      /\ UNCHANGED <<disk, rosterVars, onboard, rosterOf, overlapped, late, own>>
  BY DEF WriteFails
<1>2. cut' = (cut \/ BetweenFiles) /\ cut' \in BOOLEAN
  BY Zenon DEF WriteFails
<1>3. /\ run' \in [Runs -> RunState] /\ run'[r].at = "idle"
      /\ \A s \in Runs \ {r} : run'[s] = run[s]
  BY <1>1, Blank DEF OnboardInv, OnboardTypeOK
<1>4. OnboardTypeOK'
  BY <1>1, <1>2, <1>3 DEF OnboardInv, OnboardTypeOK, rosterVars
<1>5. TakesTheLogins' /\ SecretsFirst' /\ OnDiskOrLate'
  BY <1>1, <1>3 DEF OnboardInv, TakesTheLogins, SecretsFirst, OnDiskOrLate
<1>6. ConnectsAMower'
  BY <1>1, <1>3 DEF OnboardInv, ConnectsAMower, rosterVars
<1>7. RosterHasItsAccount'
  BY <1>1, <1>2, Zenon DEF OnboardInv, RosterHasItsAccount
<1> QED
  BY <1>4, <1>5, <1>6, <1>7 DEF OnboardInv

-----------------------------------------------------------------------------
(* The swap of the live roster.                                            *)

\* The loop over the roster, at its next entry or at its end.
LEMMA OnboardInvBuilds ==
  ASSUME OnboardInv, NEW r \in Runs, NEW m \in AnyRoster, NEW i \in Nat \ {0},
         NEW lv \in Seq(Named), NEW lk \in [Links -> LinkState],
         \A s \in Runs \ {r} : Keeps(lk, s),
         run[r].at \notin {"idle", "secrets", "roster"}, Builds(r, m, i, lv, lk),
         UNCHANGED <<disk, history>>,
         MOWERS' \in AnyRoster, watchdog_tasks' \in Seq(Named)
  PROVE  OnboardInv'
<1>0. Len(m) \in Nat
  BY EntryOf
<1>1. CASE i > Len(m)
  <2>1. /\ run' = [run EXCEPT ![r] = IdleRun]
        /\ live' = lv /\ link' = lk /\ onboard' \in {onboard, Nobody}
    BY <1>1 DEF Builds
  <2> QED
    BY <2>1, Blank, OnboardCallback DEF OnboardInv, OnboardTypeOK
<1>2. CASE ~(i > Len(m))
  <2>1. m[i] \in Entries
    BY <1>0, <1>2, EntryOf
  <2>2. PICK k \in Links :
          /\ live' = Put(lv, m[i].name, k)
          /\ link' = [lk EXCEPT ![k].cfg = m[i]]
          /\ run' = [run EXCEPT ![r] = [@ EXCEPT !.at = "connect", !.i = i, !.link = k]]
          /\ UNCHANGED onboard
          /\ \A s \in Runs \ {r} : run[s].link # k
    BY <1>2 DEF Builds
  <2> DEFINE new == [run[r] EXCEPT !.at = "connect", !.i = i, !.link = k]
  <2>3. new \in RunState /\ new.at = "connect" /\ new.link = k
    <3>1. run[r] \in RunState
      BY DEF OnboardInv, OnboardTypeOK
    <3> QED
      BY <3>1 DEF RunState, OrNobody
  <2>4. live' \in Seq(Named)
    BY <2>1, <2>2, PutTyped
  <2>5. /\ link' \in [Links -> LinkState] /\ link'[k].cfg = m[i]
        /\ \A j \in Links \ {k} : link'[j] = lk[j]
    BY <2>1, <2>2 DEF LinkState
  <2>6. run' = [run EXCEPT ![r] = new]
    BY <2>2
  <2>7. \A s \in Runs \ {r} : Keeps(link', s)
    BY <2>2, <2>5 DEF OnboardInv, ConnectsAMower, Keeps
  <2>8. new.at \notin {"secrets", "roster"} /\ link'[new.link].cfg \in Entries /\ new.link \in Links
    BY <2>1, <2>3, <2>5
  <2>9. onboard' \in {onboard, Nobody}
    BY <2>2
  <2> HIDE DEF new
  <2> QED
    BY <2>3, <2>4, <2>5, <2>6, <2>7, <2>8, <2>9, OnboardCallback
<1> QED
  BY <1>1, <1>2

LEMMA OnboardInvConnected == ASSUME NEW r \in Runs, OnboardInv, Connected(r) PROVE OnboardInv'
<1> DEFINE k == run[r].link
           lk == [link EXCEPT ![k].connected = TRUE, ![k].watched = TRUE]
<1>1. /\ run[r].at = "connect"
      /\ watchdog_tasks' = Put(watchdog_tasks, link[k].cfg.name, k)
      /\ Builds(r, MOWERS, run[r].i + 1, live, lk)
      /\ UNCHANGED <<disk, MOWERS, history>>
  BY DEF Connected
<1>2. k \in Links /\ link[k].cfg \in Entries
  BY <1>1 DEF OnboardInv, ConnectsAMower
<1>3. /\ lk \in [Links -> LinkState]
      /\ \A s \in Runs \ {r} : Keeps(lk, s)
  BY <1>2 DEF OnboardInv, OnboardTypeOK, LinkState, ConnectsAMower, Keeps
<1>4. watchdog_tasks' \in Seq(Named)
  BY <1>1, <1>2, PutTyped DEF OnboardInv, OnboardTypeOK
<1>5. run[r].i + 1 \in Nat \ {0}
  BY DEF OnboardInv, OnboardTypeOK, RunState
<1> HIDE DEF lk, k
<1> QED
  BY <1>1, <1>3, <1>4, <1>5, OnboardInvBuilds DEF OnboardInv, OnboardTypeOK

LEMMA OnboardInvRebuilds == ASSUME NEW r \in Runs, OnboardInv, Rebuilds(r) PROVE OnboardInv'
<1>1. /\ run[r].at = "transports" /\ watchdog_tasks' = <<>>
      /\ MOWERS' = IF r = Lifespan THEN MOWERS ELSE run[r].roster
      /\ UNCHANGED <<disk, history>>
  BY DEF Rebuilds
<1>2. PICK kept \in SUBSET Links : Builds(r, MOWERS', 1, <<>>, Collected(link, kept))
  BY DEF Rebuilds
<1>3. MOWERS' \in AnyRoster
  BY <1>1 DEF OnboardInv, OnboardTypeOK, RunState
<1>4. \A k \in Links : /\ [link[k] EXCEPT !.held = TRUE] \in LinkState
                       /\ [link[k] EXCEPT !.held = TRUE].cfg = link[k].cfg
  BY DEF OnboardInv, OnboardTypeOK, LinkState
<1>5. /\ Collected(link, kept) \in [Links -> LinkState]
      /\ \A s \in Runs \ {r} : Keeps(Collected(link, kept), s)
  BY <1>4, Blank DEF Collected, Connecting, OnboardInv, OnboardTypeOK, ConnectsAMower, Keeps
<1>6. 1 \in Nat \ {0} /\ run[r].at \notin {"idle", "secrets", "roster"}
  BY <1>1
<1>7. <<>> \in Seq(Named) /\ watchdog_tasks' \in Seq(Named)
  BY <1>1, Blank
<1> QED
  BY <1>1, <1>2, <1>3, <1>5, <1>6, <1>7, OnboardInvBuilds, Zenon

LEMMA OnboardInvHeld ==
  ASSUME NEW k \in Links, OnboardInv, ConnectsAgain(k) \/ LetsGo(k)
  PROVE  OnboardInv'
<1>1. CASE ConnectsAgain(k)
  <2> DEFINE to == [link[k] EXCEPT !.connected = TRUE, !.held = TRUE]
  <2>1. to \in LinkState /\ to.cfg = link[k].cfg
    BY DEF OnboardInv, OnboardTypeOK, LinkState
  <2>2. /\ link' = [link EXCEPT ![k] = to]
        /\ UNCHANGED <<disk, MOWERS, live, watchdog_tasks, run, onboard, history>>
    BY <1>1 DEF ConnectsAgain
  <2> HIDE DEF to
  <2> QED
    BY <2>1, <2>2, OnboardLinkStep
<1>2. CASE LetsGo(k)
  BY <1>2, Blank, OnboardLinkStep DEF LetsGo
<1> QED
  BY <1>1, <1>2

LEMMA OnboardInvTeardown ==
  ASSUME NEW r \in Runs, OnboardInv,
         CancelWatchdogs(r) \/ TearsDown(r) \/ NextLoop(r) \/ SizeChanged(r)
  PROVE  OnboardInv'
<1>1. /\ UNCHANGED <<disk, MOWERS, live, watchdog_tasks, onboard, history>>
      /\ run[r].at \notin {"idle", "secrets", "roster"}
  BY DEF CancelWatchdogs, TearsDown, NextLoop, SizeChanged, Loops, rosterVars
<1>2. PICK new \in RunState : /\ run' = [run EXCEPT ![r] = new]
                              /\ new.at \notin {"secrets", "roster", "connect"}
  <2>1. CASE CancelWatchdogs(r)
    <3> DEFINE new == [run[r] EXCEPT !.at = "tasks", !.i = 1, !.size = Len(watchdog_tasks)]
    <3>0. Len(watchdog_tasks) \in Nat
      BY DEF OnboardInv, OnboardTypeOK
    <3>1. new \in RunState /\ new.at = "tasks"
      BY <3>0 DEF OnboardInv, OnboardTypeOK, RunState
    <3>2. run' = [run EXCEPT ![r] = new]
      BY <2>1 DEF CancelWatchdogs
    <3> HIDE DEF new
    <3> QED
      BY <3>1, <3>2
  <2>2. CASE TearsDown(r)
    <3> DEFINE new == [run[r] EXCEPT !.i = run[r].i + 1]
    <3>0. run[r] \in RunState
      BY DEF OnboardInv, OnboardTypeOK
    <3>1. new \in RunState /\ new.at = run[r].at
      BY <3>0 DEF RunState
    <3>2. run' = [run EXCEPT ![r] = new]
      BY <2>2 DEF TearsDown
    <3> HIDE DEF new
    <3> QED
      BY <2>2, <3>1, <3>2 DEF TearsDown, Loops
  <2>3. CASE NextLoop(r)
    <3> DEFINE to == IF run[r].at = "tasks" THEN "handles" ELSE "transports"
               new == [run[r] EXCEPT !.at = to, !.i = 1, !.size = Len(live)]
    <3>0. Len(live) \in Nat
      BY DEF OnboardInv, OnboardTypeOK
    <3>1. new \in RunState /\ new.at \in {"handles", "transports"}
      BY <3>0 DEF OnboardInv, OnboardTypeOK, RunState
    <3>2. run' = [run EXCEPT ![r] = new]
      BY <2>3 DEF NextLoop
    <3> HIDE DEF new
    <3> QED
      BY <3>1, <3>2
  <2>4. CASE SizeChanged(r)
    BY <2>4, Blank DEF SizeChanged
  <2> QED
    BY <2>1, <2>2, <2>3, <2>4
<1>3. /\ link' \in [Links -> LinkState]
      /\ \A k \in Links : link'[k].cfg = link[k].cfg
  <2>1. CASE CancelWatchdogs(r)
    <3>1. \A k \in Links : /\ [link[k] EXCEPT !.watched = FALSE] \in LinkState
                           /\ [link[k] EXCEPT !.watched = FALSE].cfg = link[k].cfg
      BY DEF OnboardInv, OnboardTypeOK, LinkState
    <3> QED
      BY <2>1, <3>1 DEF CancelWatchdogs, OnboardInv, OnboardTypeOK
  <2>2. CASE TearsDown(r)
    <3>1. CASE link' = link
      BY <3>1 DEF OnboardInv, OnboardTypeOK
    <3>2. CASE run[r].at = "transports"
      <4>1. link' = [link EXCEPT ![live[run[r].i].link].connected = FALSE]
        BY <2>2, <3>2 DEF TearsDown, Table
      <4> QED
        BY <4>1 DEF OnboardInv, OnboardTypeOK, LinkState
    <3> QED
      BY <2>2, <3>1, <3>2 DEF TearsDown
  <2>3. CASE NextLoop(r) \/ SizeChanged(r)
    BY <2>3 DEF NextLoop, SizeChanged, rosterVars, OnboardInv, OnboardTypeOK
  <2> QED
    BY <2>1, <2>2, <2>3
<1>4. \A s \in Runs \ {r} : Keeps(link', s)
  BY <1>3 DEF OnboardInv, ConnectsAMower, Keeps
<1> QED
  BY <1>1, <1>2, <1>3, <1>4, OnboardCallback DEF OnboardInv, OnboardTypeOK

-----------------------------------------------------------------------------
(* The specification.                                                      *)

LEMMA OnboardInvStep == OnboardInv /\ [OnboardNext]_onbVars => OnboardInv'
<1> SUFFICES ASSUME OnboardInv, [OnboardNext]_onbVars PROVE OnboardInv'
  OBVIOUS
<1>1. CASE Crash
  BY <1>1, OnboardInvCrash
<1>2. ASSUME NEW a \in Accounts, CaptureLogin(a) PROVE OnboardInv'
  BY <1>2, OnboardInvLogin
<1>3. ASSUME NEW r \in Saves, NEW roster \in Rosters, NEW p \in Payloads, SaveBegins(r, roster, p)
      PROVE  OnboardInv'
  BY <1>3, OnboardInvSaveBegins
<1>4. ASSUME NEW r \in Runs,
             \/ save_secrets(r) \/ save_mowers(r) \/ WriteFails(r)
             \/ CancelWatchdogs(r) \/ TearsDown(r) \/ NextLoop(r)
             \/ SizeChanged(r) \/ Rebuilds(r) \/ Connected(r)
      PROVE  OnboardInv'
  BY <1>4, OnboardInvSecrets, OnboardInvMowers, OnboardInvWriteFails, OnboardInvTeardown,
     OnboardInvRebuilds, OnboardInvConnected
<1>5. ASSUME NEW k \in Links, ConnectsAgain(k) \/ LetsGo(k) PROVE OnboardInv'
  BY <1>5, OnboardInvHeld
<1>6. CASE UNCHANGED onbVars
  BY <1>6 DEF onbVars, rosterVars, history, OnboardInv, OnboardTypeOK, TakesTheLogins, SecretsFirst,
              OnDiskOrLate, ConnectsAMower, RosterHasItsAccount, BetweenFiles
<1> QED
  BY <1>1, <1>2, <1>3, <1>4, <1>5, <1>6 DEF OnboardNext

LEMMA OnboardInvAlways == OnboardSpec => []OnboardInv
BY OnboardInvInit, OnboardInvStep, PTL DEF OnboardSpec

\* The two files, the live roster, its links and the requests keep their types.
THEOREM OnboardTypes == OnboardSpec => []OnboardTypeOK
<1>1. OnboardInv => OnboardTypeOK
  BY DEF OnboardInv
<1> QED
  BY <1>1, OnboardInvAlways, PTL

\* Whatever saves, logins and crashes overlap, and whichever writes fail, a roster
\* that was saved with credentials has them beside it, unless a later save was cut
\* short between its two files.
THEOREM RosterKnown == OnboardSpec => []RosterHasItsAccount
<1>1. OnboardInv => RosterHasItsAccount
  BY DEF OnboardInv
<1> QED
  BY <1>1, OnboardInvAlways, PTL

\* Credentials that a save lets go of are on disk, but for those of a login that
\* came during a save, or before a save with credentials in its body.
THEOREM LoginIsHeld == OnboardSpec => HeldUntilSaved
<1>1. OnboardInv /\ [OnboardNext]_onbVars
        => [Cleared => late \/ own \/ disk.secrets = Of(onboard)]_onbVars
  <2> SUFFICES ASSUME OnboardInv, OnboardNext, onboard # Nobody, onboard' = Nobody, ~Crash
               PROVE  late \/ own \/ disk.secrets = Of(onboard)
    BY DEF onbVars, Cleared
  <2>1. PICK r \in Runs : Rebuilds(r) \/ Connected(r)
    BY OnboardAssumption DEF OnboardNext, CaptureLogin, SaveBegins, SaveWith, save_secrets,
       save_mowers, WriteFails, CancelWatchdogs, TearsDown, NextLoop, SizeChanged, ConnectsAgain,
       LetsGo
  <2>2. run[r].at \in {"transports", "connect"}
    BY <2>1 DEF Rebuilds, Connected
  <2> QED
    BY <2>2 DEF OnboardInv, OnDiskOrLate
<1> QED
  BY <1>1, OnboardInvAlways, PTL DEF OnboardSpec, HeldUntilSaved

-----------------------------------------------------------------------------
(* The live roster.                                                        *)

\* What the page sends has one row for each mower of the account, by its name.
\* onboard_save() takes any, and two rows of one name share their table entries.
DistinctNames ==
  \A roster \in Rosters : \A i, j \in DOMAIN roster : roster[i].name = roster[j].name => i = j

OneAtATime == \A r, s \in Runs : run[r].at # "idle" /\ run[s].at # "idle" => r = s

\* Those in the table are watched and no others; another is connected only if a
\* task has connected it again.
Serves(lk, table) ==
  \A k \in Links : /\ lk[k].watched <=> InTable(k, table)
                   /\ lk[k].connected => InTable(k, table) \/ lk[k].held

\* The first n mowers of the roster have their entries in the dict of transports,
\* each with a link to its own host.
Shows(n) ==
  /\ Len(live) = n /\ n \in 0 .. Len(MOWERS)
  /\ \A j \in 1 .. n : live[j].name = MOWERS[j].name /\ link[live[j].link].cfg = MOWERS[j]

AsListed ==
  Shows(Len(MOWERS)) /\ watchdog_tasks = live /\ Serves(link, live)

\* How the tables and links are when the run r is at the places named.
BeforeFiles(r) ==
  run[r].at \in {"secrets", "roster"} => r # Lifespan /\ MOWERS = disk.roster /\ AsListed

BeforeCancel(r) ==
  run[r].at \in {"websockets", "cancel"} => AsListed

\* _teardown_all() comes to every link that is connected, but for those that have
\* been connected again since.
InLoops(r) ==
  run[r].at \in Loops =>
    /\ run[r].size = Len(Table(run[r].at)) /\ run[r].i > 0
    /\ run[r].at # "transports" => watchdog_tasks = live
    /\ \A k \in Links : ~link[k].watched
    /\ \A k \in Links : link[k].connected /\ ~link[k].held =>
         \E j \in DOMAIN live : live[j].link = k /\ (run[r].at = "transports" => j >= run[r].i)

ToSave(r) ==
  run[r].at \in {"websockets", "cancel"} \union Loops =>
    /\ r # Lifespan => disk.roster = run[r].roster
    /\ r = Lifespan => disk.roster = MOWERS

InConnect(r) ==
  run[r].at = "connect" =>
    /\ MOWERS = disk.roster
    /\ run[r].i > 0 /\ Shows(run[r].i) /\ live[run[r].i].link = run[r].link
    /\ Len(watchdog_tasks) = run[r].i - 1
    /\ \A j \in 1 .. run[r].i - 1 : watchdog_tasks[j] = live[j]
    /\ Serves(link, watchdog_tasks)

RunInv(r) ==
  BeforeFiles(r) /\ BeforeCancel(r) /\ InLoops(r) /\ ToSave(r) /\ InConnect(r)

\* LiveIsSaved is not inductive: it takes what each step of a save, or of a start,
\* that is alone has done to the tables and links so far.
LiveInv ==
  ~overlapped => /\ OneAtATime
                 /\ AllIdle => MOWERS = disk.roster /\ AsListed
                 /\ \A r \in Runs : RunInv(r)

\* A run that is idle asks nothing of the tables.
LEMMA IdleAsksNothing ==
  ASSUME NEW r \in Runs
  PROVE  run[r].at = "idle" => RunInv(r)
BY DEF RunInv, BeforeFiles, BeforeCancel, InLoops, ToSave, InConnect, Loops

\* What is left to show of a step of the one run that is under way.
LEMMA AloneStep ==
  ASSUME OnboardInv, LiveInv, ~overlapped, NEW r \in Runs, run[r].at # "idle",
         NEW new, run' = [run EXCEPT ![r] = new], RunInv(r)',
         new.at = "idle" => MOWERS' = disk'.roster /\ AsListed'
  PROVE  LiveInv'
<1>1. run'[r] = new /\ \A s \in Runs \ {r} : run'[s] = run[s] /\ run'[s].at = "idle"
  BY DEF LiveInv, OneAtATime, OnboardInv, OnboardTypeOK
<1>2. OneAtATime'
  BY <1>1 DEF OneAtATime
<1>3. AllIdle' => MOWERS' = disk'.roster /\ AsListed'
  BY <1>1 DEF AllIdle
<1>4. \A s \in Runs \ {r} : RunInv(s)'
  BY <1>1 DEF RunInv, BeforeFiles, BeforeCancel, InLoops, ToSave, InConnect, Loops
<1> QED
  BY <1>2, <1>3, <1>4 DEF LiveInv

\* The state of a process that has just read its two files.
Fresh ==
  /\ disk.roster \in AnyRoster /\ MOWERS = disk.roster
  /\ live = <<>> /\ watchdog_tasks = <<>>
  /\ link = [k \in Links |-> NoLink]
  /\ run = Started(disk.roster)

\* A start: nothing is live, and the lifespan goes straight to building.
LEMMA LiveStart == Fresh => LiveInv
<1> SUFFICES ASSUME Fresh PROVE LiveInv
  OBVIOUS
<1>0. /\ disk.roster \in AnyRoster /\ MOWERS = disk.roster
      /\ Len(live) = 0 /\ DOMAIN live = {} /\ watchdog_tasks = live
      /\ run = Started(disk.roster)
  BY DEF Fresh
<1>1. \A k \in Links : ~link[k].connected /\ ~link[k].watched
  BY DEF Fresh, NoLink
<1>2. \A r \in Runs : run[r].at = "idle" \/ (r = Lifespan /\ MOWERS # <<>>)
  BY <1>0 DEF Started, IdleRun
<1>3. OneAtATime
  BY <1>2 DEF OneAtATime
<1>4. ASSUME AllIdle PROVE AsListed
  <2>1. Len(MOWERS) = 0
    <3>1. CASE MOWERS # <<>>
      <4>1. run[Lifespan].at = "transports"
        BY <1>0, <3>1 DEF Started, IdleRun, Runs
      <4> QED
        BY <1>4, <4>1 DEF AllIdle, Runs
    <3> QED
      BY <3>1
  <2> QED
    BY <1>0, <1>1, <2>1 DEF AsListed, Shows, Serves, InTable
<1>5. ASSUME NEW r \in Runs PROVE RunInv(r)
  <2>1. CASE run[r].at = "idle"
    BY <2>1, IdleAsksNothing
  <2>2. CASE r = Lifespan /\ MOWERS # <<>>
    <3>1. run[r].at = "transports" /\ run[r].i = 1 /\ run[r].size = 0
      BY <1>0, <2>2 DEF Started, IdleRun, Runs
    <3> QED
      BY <1>0, <1>1, <2>2, <3>1
         DEF RunInv, BeforeFiles, BeforeCancel, InLoops, ToSave, InConnect, Table
  <2> QED
    BY <1>2, <2>1, <2>2
<1> QED
  BY <1>0, <1>3, <1>4, <1>5 DEF LiveInv

LEMMA LiveInit == OnboardInit => LiveInv
BY LiveStart DEF OnboardInit, Fresh

LEMMA LiveCrash == OnboardInv /\ Crash => LiveInv'
<1>1. OnboardInv /\ Crash => Fresh'
  BY DEF OnboardInv, OnboardTypeOK, Crash, Fresh
<1> QED
  BY <1>1, LiveStart, PTL

\* A login changes nothing of the tables, and no run takes a step.
LEMMA LiveLogin == ASSUME NEW a \in Accounts, LiveInv, CaptureLogin(a) PROVE LiveInv'
BY DEF CaptureLogin, rosterVars, LiveInv, OneAtATime, AllIdle, AsListed, Shows, Serves, InTable,
       RunInv, BeforeFiles, BeforeCancel, InLoops, ToSave, InConnect, Table

-----------------------------------------------------------------------------
(* A save that is alone, up to the end of _teardown_all().                 *)

LEMMA LiveSaveBegins ==
  ASSUME NEW r \in Saves, NEW roster \in Rosters, NEW p \in Payloads, OnboardInv, LiveInv,
         SaveBegins(r, roster, p)
  PROVE  LiveInv'
<1> SUFFICES ASSUME ~overlapped' PROVE LiveInv'
  BY DEF LiveInv
<1> DEFINE to == IF Chosen(p) = NoCreds THEN "roster" ELSE "secrets"
           new == [IdleRun EXCEPT !.at = to, !.roster = roster, !.creds = Chosen(p)]
<1>1. /\ run' = [run EXCEPT ![r] = new]
      /\ overlapped' = (overlapped \/ \E s \in Runs : run[s].at # "idle")
      /\ UNCHANGED <<disk, rosterVars>>
  BY DEF SaveBegins, SaveWith
<1>2. new.at = to
  BY DEF IdleRun
<1>3. ~overlapped /\ AllIdle
  BY <1>1, Zenon DEF AllIdle
<1>4. MOWERS = disk.roster /\ AsListed
  BY <1>3 DEF LiveInv
<1>5. r \in Runs /\ r # Lifespan
  BY OnboardAssumption DEF Runs
<1>6. run'[r].at = to /\ \A s \in Runs \ {r} : run'[s].at = "idle"
  <2> HIDE DEF new
  <2> QED
    BY <1>1, <1>2, <1>3, <1>5 DEF AllIdle, OnboardInv, OnboardTypeOK
<1>7. AsListed'
  BY <1>1, <1>4 DEF AsListed, Shows, Serves, InTable, rosterVars
<1>8. ASSUME NEW s \in Runs PROVE RunInv(s)'
  BY <1>1, <1>4, <1>5, <1>6, <1>7
     DEF RunInv, BeforeFiles, BeforeCancel, InLoops, ToSave, InConnect, Loops, rosterVars
<1>9. OneAtATime' /\ ~AllIdle'
  BY <1>5, <1>6 DEF OneAtATime, AllIdle
<1> QED
  BY <1>8, <1>9 DEF LiveInv

LEMMA LiveSecrets == ASSUME NEW r \in Runs, OnboardInv, LiveInv, save_secrets(r) PROVE LiveInv'
<1> SUFFICES ASSUME ~overlapped' PROVE LiveInv'
  BY DEF LiveInv
<1> DEFINE new == [run[r] EXCEPT !.at = "roster"]
<1>1. /\ run[r].at = "secrets" /\ disk' = [disk EXCEPT !.secrets = run[r].creds]
      /\ run' = [run EXCEPT ![r] = new] /\ UNCHANGED <<rosterVars, overlapped>>
  BY DEF save_secrets
<1>2. new.at = "roster" /\ run'[r] = new /\ disk'.roster = disk.roster
  BY <1>1 DEF OnboardInv, OnboardTypeOK, RunState
<1>3. ~overlapped /\ r # Lifespan /\ MOWERS = disk.roster /\ AsListed
  BY <1>1 DEF LiveInv, RunInv, BeforeFiles
<1>4. AsListed'
  BY <1>1, <1>3 DEF AsListed, Shows, Serves, InTable, rosterVars
<1>5. RunInv(r)'
  BY <1>1, <1>2, <1>3, <1>4
     DEF RunInv, BeforeFiles, BeforeCancel, InLoops, ToSave, InConnect, Loops, rosterVars
<1> HIDE DEF new
<1> QED
  BY <1>1, <1>2, <1>3, <1>5, AloneStep

LEMMA LiveMowers == ASSUME NEW r \in Runs, OnboardInv, LiveInv, save_mowers(r) PROVE LiveInv'
<1> SUFFICES ASSUME ~overlapped' PROVE LiveInv'
  BY DEF LiveInv
<1>1. /\ run[r].at = "roster" /\ disk' = [disk EXCEPT !.roster = run[r].roster]
      /\ UNCHANGED <<rosterVars, overlapped>>
  BY DEF save_mowers
<1>2. PICK to \in {"cancel", "websockets"} :
        run' = [run EXCEPT ![r] = [@ EXCEPT !.at = to, !.creds = NoCreds]]
  BY DEF save_mowers
<1> DEFINE new == [run[r] EXCEPT !.at = to, !.creds = NoCreds]
<1>3. /\ new.at = to /\ new.roster = run[r].roster /\ run' = [run EXCEPT ![r] = new]
      /\ run'[r] = new /\ disk'.roster = run[r].roster
  BY <1>1, <1>2 DEF OnboardInv, OnboardTypeOK, RunState
<1>4. ~overlapped /\ r # Lifespan /\ AsListed
  BY <1>1 DEF LiveInv, RunInv, BeforeFiles
<1>5. AsListed'
  BY <1>1, <1>4 DEF AsListed, Shows, Serves, InTable, rosterVars
<1>6. RunInv(r)'
  BY <1>3, <1>4, <1>5
     DEF RunInv, BeforeFiles, BeforeCancel, InLoops, ToSave, InConnect, Loops
<1> HIDE DEF new
<1> QED
  BY <1>1, <1>3, <1>4, <1>6, AloneStep

LEMMA LiveWriteFails == ASSUME NEW r \in Runs, OnboardInv, LiveInv, WriteFails(r) PROVE LiveInv'
<1> SUFFICES ASSUME ~overlapped' PROVE LiveInv'
  BY DEF LiveInv
<1>1. /\ run[r].at \in {"secrets", "roster"} /\ run' = [run EXCEPT ![r] = IdleRun]
      /\ UNCHANGED <<disk, rosterVars, overlapped>>
  BY DEF WriteFails
<1>2. ~overlapped /\ MOWERS = disk.roster /\ AsListed
  BY <1>1 DEF LiveInv, RunInv, BeforeFiles
<1>3. MOWERS' = disk'.roster /\ AsListed'
  BY <1>1, <1>2 DEF AsListed, Shows, Serves, InTable, rosterVars
<1>4. run'[r].at = "idle"
  BY <1>1, Blank DEF OnboardInv, OnboardTypeOK
<1>5. RunInv(r)'
  BY <1>4 DEF RunInv, BeforeFiles, BeforeCancel, InLoops, ToSave, InConnect, Loops
<1> QED
  BY <1>1, <1>2, <1>3, <1>5, AloneStep

LEMMA LiveCancel == ASSUME NEW r \in Runs, OnboardInv, LiveInv, CancelWatchdogs(r) PROVE LiveInv'
<1> SUFFICES ASSUME ~overlapped' PROVE LiveInv'
  BY DEF LiveInv
<1> DEFINE new == [run[r] EXCEPT !.at = "tasks", !.i = 1, !.size = Len(watchdog_tasks)]
<1>1. /\ run[r].at \in {"websockets", "cancel"} /\ run' = [run EXCEPT ![r] = new]
      /\ link' = [k \in Links |-> IF InTable(k, watchdog_tasks) THEN [link[k] EXCEPT !.watched = FALSE]
                                                                ELSE link[k]]
      /\ UNCHANGED <<disk, MOWERS, live, watchdog_tasks, overlapped>>
  BY DEF CancelWatchdogs, history
<1>2. /\ new.at = "tasks" /\ new.i = 1 /\ new.size = Len(watchdog_tasks)
      /\ new.roster = run[r].roster /\ run'[r] = new
  BY <1>1 DEF OnboardInv, OnboardTypeOK, RunState
<1>3. ~overlapped /\ AsListed /\ ToSave(r)
  BY <1>1 DEF LiveInv, RunInv, BeforeCancel
<1>4. \A k \in Links : /\ ~link'[k].watched
                       /\ link'[k].connected /\ ~link'[k].held => InTable(k, live)
  <2>1. ASSUME NEW k \in Links
        PROVE  ~link'[k].watched /\ (link'[k].connected /\ ~link'[k].held => InTable(k, live))
    <3>1. /\ link[k].watched <=> InTable(k, live)
          /\ link[k].connected => InTable(k, live) \/ link[k].held
      BY <1>3 DEF AsListed, Serves
    <3>2. watchdog_tasks = live /\ link[k] \in LinkState
      BY <1>3 DEF AsListed, OnboardInv, OnboardTypeOK
    <3>3. CASE InTable(k, live)
      <4>1. link'[k] = [link[k] EXCEPT !.watched = FALSE]
        BY <1>1, <3>2, <3>3
      <4> QED
        BY <3>2, <3>3, <4>1 DEF LinkState
    <3>4. CASE ~InTable(k, live)
      <4>1. link'[k] = link[k]
        BY <1>1, <3>2, <3>4
      <4> QED
        BY <3>1, <3>4, <4>1, Zenon
    <3> QED
      BY <3>3, <3>4
  <2> QED
    BY <2>1
<1>5. InLoops(r)'
  <2>1. /\ run'[r].at = "tasks" /\ run'[r].i = 1 /\ run'[r].size = Len(watchdog_tasks)
        /\ watchdog_tasks = live
    BY <1>2, <1>3 DEF AsListed
  <2>2. \A k \in Links : /\ ~link'[k].watched
                         /\ link'[k].connected /\ ~link'[k].held
                              => \E j \in DOMAIN live : live[j].link = k
    BY <1>4 DEF InTable
  <2>3. live' = live /\ watchdog_tasks' = watchdog_tasks
    BY <1>1
  <2>4. run'[r].size = Len(Table(run[r].at)') /\ run'[r].i > 0 /\ watchdog_tasks' = live'
    BY <2>1, <2>3 DEF Table
  <2>5. \A k \in Links : link'[k].connected /\ ~link'[k].held =>
          \E j \in DOMAIN live' : live'[j].link = k /\ (run'[r].at = "transports" => j >= run'[r].i)
    BY <2>1, <2>2, <2>3
  <2> HIDE DEF new
  <2> QED
    BY <2>2, <2>4, <2>5 DEF InLoops
<1>6. ToSave(r)'
  BY <1>1, <1>2, <1>3 DEF ToSave
<1>7. RunInv(r)'
  BY <1>2, <1>5, <1>6 DEF RunInv, BeforeFiles, BeforeCancel, InConnect
<1> HIDE DEF new
<1> QED
  BY <1>1, <1>2, <1>3, <1>7, AloneStep

LEMMA LinksNamed ==
  ASSUME NEW table \in Seq(Named)
  PROVE  \A j \in 1 .. Len(table) : table[j] \in Named /\ table[j].link \in Links
<1>1. \A j \in 1 .. Len(table) : table[j] \in Named
  OBVIOUS
<1>2. \A t \in Named : t.link \in Links
  BY DEF Named
<1> QED
  BY <1>1, <1>2

LEMMA LiveTearsDown == ASSUME NEW r \in Runs, OnboardInv, LiveInv, TearsDown(r) PROVE LiveInv'
<1> SUFFICES ASSUME ~overlapped' PROVE LiveInv'
  BY DEF LiveInv
<1> DEFINE i == run[r].i
           new == [run[r] EXCEPT !.i = i + 1]
<1>1. /\ run[r].at \in Loops /\ i <= Len(Table(run[r].at))
      /\ link' = IF run[r].at = "transports"
                 THEN [link EXCEPT ![Table(run[r].at)[i].link].connected = FALSE] ELSE link
      /\ run' = [run EXCEPT ![r] = new]
      /\ UNCHANGED <<disk, MOWERS, live, watchdog_tasks, overlapped>>
  BY DEF TearsDown, history
<1>2. /\ new.at = run[r].at /\ new.i = i + 1 /\ new.size = run[r].size
      /\ new.roster = run[r].roster /\ run'[r] = new
  BY <1>1 DEF OnboardInv, OnboardTypeOK, RunState
<1>3. ~overlapped /\ InLoops(r) /\ ToSave(r) /\ run[r].at \in Loops /\ run[r].at # "idle"
  BY <1>1 DEF LiveInv, RunInv, Loops
<1>4. i \in Nat \ {0} /\ live \in Seq(Named)
  BY <1>1, <1>3 DEF InLoops, OnboardInv, OnboardTypeOK, RunState
<1>5. \A k \in Links : ~link'[k].watched
  <2>1. \A k \in Links : link'[k].watched = link[k].watched
    BY <1>1 DEF OnboardInv, OnboardTypeOK, LinkState
  <2> QED
    BY <1>1, <1>3, <2>1 DEF InLoops
<1>6. ASSUME NEW k \in Links, link'[k].connected, ~link'[k].held
      PROVE  \E j \in DOMAIN live : live[j].link = k /\ (run[r].at = "transports" => j >= i + 1)
  <2>1. CASE run[r].at # "transports"
    BY <1>1, <1>3, <1>6, <2>1 DEF InLoops
  <2>2. CASE run[r].at = "transports"
    <3>1. link' = [link EXCEPT ![live[i].link].connected = FALSE]
      BY <1>1, <2>2 DEF Table
    <3>2. k # live[i].link /\ link[k].connected /\ ~link[k].held
      BY <1>6, <3>1 DEF OnboardInv, OnboardTypeOK, LinkState
    <3>3. PICK j \in DOMAIN live : live[j].link = k /\ j >= i
      BY <1>3, <2>2, <3>2 DEF InLoops
    <3>4. j # i
      BY <3>2, <3>3
    <3> QED
      BY <1>4, <3>3, <3>4
  <2> QED
    BY <2>1, <2>2
<1>7. InLoops(r)'
  <2>1. run'[r].size = Len(Table(run[r].at))' /\ run'[r].i = i + 1 /\ run'[r].at = run[r].at
    BY <1>1, <1>2, <1>3 DEF InLoops, Table
  <2>2. run[r].at # "transports" => watchdog_tasks' = live'
    BY <1>1, <1>3 DEF InLoops
  <2>3. live' = live /\ i + 1 > 0
    BY <1>1, <1>4
  <2>4. \A k \in Links : link'[k].connected /\ ~link'[k].held =>
          \E j \in DOMAIN live' : live'[j].link = k /\ (run'[r].at = "transports" => j >= run'[r].i)
    BY <1>6, <2>1, <2>3
  <2> HIDE DEF i, new
  <2> QED
    BY <1>5, <2>1, <2>2, <2>3, <2>4 DEF InLoops
<1>8. ToSave(r)'
  BY <1>1, <1>2, <1>3 DEF ToSave
<1>9. RunInv(r)'
  BY <1>2, <1>3, <1>7, <1>8 DEF RunInv, BeforeFiles, BeforeCancel, InConnect, Loops
<1> HIDE DEF new
<1> QED
  BY <1>1, <1>2, <1>3, <1>9, AloneStep

LEMMA LiveNextLoop == ASSUME NEW r \in Runs, OnboardInv, LiveInv, NextLoop(r) PROVE LiveInv'
<1> SUFFICES ASSUME ~overlapped' PROVE LiveInv'
  BY DEF LiveInv
<1> DEFINE to == IF run[r].at = "tasks" THEN "handles" ELSE "transports"
           new == [run[r] EXCEPT !.at = to, !.i = 1, !.size = Len(live)]
<1>1. /\ run[r].at \in {"tasks", "handles"} /\ run' = [run EXCEPT ![r] = new]
      /\ UNCHANGED <<disk, MOWERS, live, watchdog_tasks, link, overlapped>>
  BY DEF NextLoop, rosterVars, history
<1>2. /\ new.at = to /\ new.i = 1 /\ new.size = Len(live)
      /\ new.roster = run[r].roster /\ run'[r] = new
  BY <1>1 DEF OnboardInv, OnboardTypeOK, RunState
<1>3. ~overlapped /\ InLoops(r) /\ ToSave(r)
  BY <1>1 DEF LiveInv, RunInv
<1>4. live \in Seq(Named) /\ \A j \in DOMAIN live : j >= 1
  BY DEF OnboardInv, OnboardTypeOK
<1>5. InLoops(r)'
  BY <1>1, <1>2, <1>3, <1>4 DEF InLoops, Loops, Table
<1>6. ToSave(r)'
  BY <1>1, <1>2, <1>3 DEF ToSave, Loops
<1>7. RunInv(r)'
  BY <1>2, <1>5, <1>6 DEF RunInv, BeforeFiles, BeforeCancel, InConnect
<1>8. to # "idle" /\ run[r].at # "idle"
  BY <1>1
<1> HIDE DEF new
<1> QED
  BY <1>1, <1>2, <1>3, <1>7, <1>8, AloneStep

\* The dicts keep their size while no other save changes them.
LEMMA LiveSizeChanged == ASSUME NEW r \in Runs, LiveInv, SizeChanged(r) PROVE overlapped /\ overlapped'
BY DEF SizeChanged, LiveInv, RunInv, InLoops, history

-----------------------------------------------------------------------------
(* The new roster's links, one at a time.                                  *)

\* With the first i - 1 of the roster m built, connected and watched, the loop
\* comes to the next mower, or to its end.
LEMMA LiveBuilds ==
  ASSUME DistinctNames, OnboardInv, LiveInv, ~overlapped, UNCHANGED overlapped,
         NEW r \in Runs, run[r].at # "idle",
         NEW m \in AnyRoster, NEW i \in Nat \ {0}, NEW lv \in Seq(Named),
         NEW lk \in [Links -> LinkState],
         MOWERS' = m, disk'.roster = m, watchdog_tasks' = lv,
         Len(lv) = i - 1, i - 1 <= Len(m),
         \A j \in 1 .. i - 1 : lv[j].name = m[j].name /\ lk[lv[j].link].cfg = m[j],
         Serves(lk, lv),
         Builds(r, m, i, lv, lk)
  PROVE  LiveInv'
<1>0. Len(m) \in Nat /\ DOMAIN lv = 1 .. i - 1
  BY EntryOf
<1>1. CASE i > Len(m)
  <2>1. run' = [run EXCEPT ![r] = IdleRun] /\ live' = lv /\ link' = lk
    BY <1>1 DEF Builds
  <2>2. IdleRun.at = "idle" /\ run'[r].at = "idle"
    BY <2>1 DEF IdleRun, OnboardInv, OnboardTypeOK
  <2>3. Len(m) = i - 1
    BY <1>0, <1>1
  <2>4. MOWERS' = disk'.roster /\ AsListed'
    BY <1>0, <2>1, <2>3 DEF AsListed, Shows
  <2>5. RunInv(r)'
    BY <2>2 DEF RunInv, BeforeFiles, BeforeCancel, InLoops, ToSave, InConnect, Loops
  <2> QED
    BY <2>1, <2>4, <2>5, AloneStep
<1>2. CASE ~(i > Len(m))
  <2>1. m[i] \in Entries
    BY <1>0, <1>2, EntryOf
  <2>2. PICK k \in Links :
          /\ lk[k] = NoLink /\ ~InTable(k, lv)
          /\ live' = Put(lv, m[i].name, k)
          /\ link' = [lk EXCEPT ![k].cfg = m[i]]
          /\ run' = [run EXCEPT ![r] = [@ EXCEPT !.at = "connect", !.i = i, !.link = k]]
    BY <1>2 DEF Builds
  <2> DEFINE new == [run[r] EXCEPT !.at = "connect", !.i = i, !.link = k]
             e == [name |-> m[i].name, link |-> k]
  <2>3. /\ new.at = "connect" /\ new.i = i /\ new.link = k /\ run' = [run EXCEPT ![r] = new]
        /\ run'[r] = new
    BY <2>2 DEF OnboardInv, OnboardTypeOK, RunState
  <2>4. \A j \in 1 .. i - 1 : lv[j].name # m[i].name
    <3>1. m \in Rosters
      BY <1>2 DEF AnyRoster
    <3>2. DOMAIN m = 1 .. Len(m)
      BY <3>1, OnboardAssumption
    <3>3. ASSUME NEW j \in 1 .. i - 1 PROVE lv[j].name # m[i].name
      <4>1. i \in 1 .. Len(m) /\ j \in 1 .. Len(m) /\ j # i
        BY <1>0, <1>2
      <4>2. m[j].name # m[i].name
        BY <3>1, <3>2, <4>1 DEF DistinctNames
      <4> QED
        BY <4>2
    <3> QED
      BY <3>3
  <2>5. live' = Append(lv, e)
    BY <1>0, <2>2, <2>4 DEF Put
  <2>6. e \in Named /\ e.name = m[i].name /\ e.link = k
    BY <2>1 DEF Named
  <2>7. Len(live') = i /\ live'[i] = e /\ \A j \in 1 .. i - 1 : live'[j] = lv[j]
    <3> HIDE DEF e
    <3> QED
      BY <2>5, <2>6
  <2>8. link'[k].cfg = m[i] /\ \A j \in Links \ {k} : link'[j] = lk[j]
    BY <2>2 DEF LinkState
  <2>9. \A j \in 1 .. i - 1 : lv[j].link \in Links \ {k}
    BY <1>0, <2>2, LinksNamed DEF InTable
  <2>10. Shows(i)'
    <3>1. ASSUME NEW j \in 1 .. i
          PROVE  live'[j].name = m[j].name /\ link'[live'[j].link].cfg = m[j]
      <4>1. CASE j = i
        BY <2>6, <2>7, <2>8, <4>1
      <4>2. CASE j \in 1 .. i - 1
        BY <2>7, <2>8, <2>9, <4>2
      <4> QED
        BY <4>1, <4>2
    <3> QED
      BY <1>0, <1>2, <2>7, <3>1 DEF Shows
  <2>11. Serves(link', lv)
    <3>1. /\ link'[k].connected = lk[k].connected /\ link'[k].watched = lk[k].watched
          /\ link'[k].held = lk[k].held
      BY <2>2 DEF LinkState
    <3> QED
      BY <2>8, <3>1 DEF Serves
  <2>12. InConnect(r)'
    <3>1. Serves(link', watchdog_tasks')
      BY <2>11
    <3>2. /\ run'[r].i = i /\ run'[r].link = k /\ live'[i].link = k
          /\ Len(watchdog_tasks') = i - 1
          /\ \A j \in 1 .. i - 1 : watchdog_tasks'[j] = live'[j]
      BY <2>3, <2>6, <2>7
    <3> HIDE DEF new
    <3> QED
      BY <2>10, <3>1, <3>2 DEF InConnect
  <2>13. RunInv(r)'
    BY <2>3, <2>12 DEF RunInv, BeforeFiles, BeforeCancel, InLoops, ToSave, Loops
  <2> HIDE DEF new
  <2> QED
    BY <2>3, <2>13, AloneStep
<1> QED
  BY <1>1, <1>2

LEMMA LiveRebuilds ==
  ASSUME DistinctNames, NEW r \in Runs, OnboardInv, LiveInv, Rebuilds(r)
  PROVE  LiveInv'
<1> SUFFICES ASSUME ~overlapped' PROVE LiveInv'
  BY DEF LiveInv
<1>1. /\ run[r].at = "transports" /\ Len(live) = run[r].size /\ run[r].i > Len(live)
      /\ watchdog_tasks' = <<>>
      /\ MOWERS' = IF r = Lifespan THEN MOWERS ELSE run[r].roster
      /\ UNCHANGED <<disk, overlapped>>
  BY DEF Rebuilds, history
<1>2. PICK kept \in SUBSET Links : Builds(r, MOWERS', 1, <<>>, Collected(link, kept))
  BY DEF Rebuilds
<1>3. ~overlapped /\ OneAtATime /\ InLoops(r) /\ ToSave(r)
  BY <1>1 DEF LiveInv, RunInv
<1>4. MOWERS' \in AnyRoster /\ disk'.roster = MOWERS'
  BY <1>1, <1>3 DEF ToSave, Loops, OnboardInv, OnboardTypeOK, RunState
<1>5. \A k \in Links : ~link[k].watched /\ (link[k].connected => link[k].held)
  <2>1. \A k \in Links : ~link[k].watched
    BY <1>1, <1>3 DEF InLoops, Loops
  <2>2. \A j \in DOMAIN live : ~(j >= run[r].i)
    BY <1>1 DEF OnboardInv, OnboardTypeOK, RunState
  <2>3. \A k \in Links : ~(link[k].connected /\ ~link[k].held)
    BY <1>1, <1>3, <2>2 DEF InLoops, Loops
  <2> QED
    BY <2>1, <2>3
<1>6. \A k \in Links : /\ [link[k] EXCEPT !.held = TRUE] \in LinkState
                       /\ [link[k] EXCEPT !.held = TRUE].held
                       /\ [link[k] EXCEPT !.held = TRUE].watched = link[k].watched
  BY DEF OnboardInv, OnboardTypeOK, LinkState
<1>7. Collected(link, kept) \in [Links -> LinkState]
  BY <1>6, Blank DEF Collected, OnboardInv, OnboardTypeOK
<1>8. \A k \in Links : /\ ~Collected(link, kept)[k].watched
                       /\ Collected(link, kept)[k].connected => Collected(link, kept)[k].held
  <2>1. ASSUME NEW k \in Links
        PROVE  /\ ~Collected(link, kept)[k].watched
               /\ Collected(link, kept)[k].connected => Collected(link, kept)[k].held
    <3>1. Collected(link, kept)[k] \in {[link[k] EXCEPT !.held = TRUE], link[k], NoLink}
      BY DEF Collected
    <3>2. ~NoLink.watched /\ ~NoLink.connected
      BY DEF NoLink
    <3> QED
      BY <1>5, <1>6, <3>1, <3>2
  <2> QED
    BY <2>1
<1>9. <<>> \in Seq(Named) /\ Len(<<>>) = 1 - 1 /\ 1 \in Nat \ {0} /\ ~(\E j \in DOMAIN <<>> : TRUE)
  BY Blank
<1>10. 1 - 1 <= Len(MOWERS') /\ \A j \in 1 .. 1 - 1 : FALSE
  BY <1>4, EntryOf
<1>11. Serves(Collected(link, kept), <<>>)
  <2>1. \A k \in Links : ~InTable(k, <<>>)
    BY <1>9 DEF InTable
  <2>2. ASSUME NEW lk, \A k \in Links : ~lk[k].watched /\ (lk[k].connected => lk[k].held)
        PROVE  Serves(lk, <<>>)
    BY <2>1, <2>2 DEF Serves
  <2> QED
    BY <1>8, <2>2
<1> QED
  BY <1>1, <1>2, <1>3, <1>4, <1>7, <1>9, <1>10, <1>11, LiveBuilds

LEMMA LiveConnected ==
  ASSUME DistinctNames, NEW r \in Runs, OnboardInv, LiveInv, Connected(r)
  PROVE  LiveInv'
<1> SUFFICES ASSUME ~overlapped' PROVE LiveInv'
  BY DEF LiveInv
<1> DEFINE k == run[r].link
           i == run[r].i
           lk == [link EXCEPT ![k].connected = TRUE, ![k].watched = TRUE]
<1>1. /\ run[r].at = "connect"
      /\ watchdog_tasks' = Put(watchdog_tasks, link[k].cfg.name, k)
      /\ Builds(r, MOWERS, i + 1, live, lk)
      /\ UNCHANGED <<disk, MOWERS, overlapped>>
  BY DEF Connected, history
<1>2. ~overlapped /\ InConnect(r)
  BY <1>1 DEF LiveInv, RunInv
<1>3. /\ MOWERS = disk.roster /\ i \in Nat \ {0} /\ i + 1 \in Nat \ {0} /\ Shows(i)
      /\ live[i].link = k /\ k \in Links /\ MOWERS \in AnyRoster
      /\ live \in Seq(Named) /\ watchdog_tasks \in Seq(Named)
      /\ Len(watchdog_tasks) = i - 1
      /\ \A j \in 1 .. i - 1 : watchdog_tasks[j] = live[j]
      /\ Serves(link, watchdog_tasks)
  BY <1>1, <1>2 DEF InConnect, OnboardInv, OnboardTypeOK, RunState, ConnectsAMower
<1>4. /\ Len(live) = i /\ i <= Len(MOWERS) /\ link[k].cfg = MOWERS[i] /\ live[i].name = MOWERS[i].name
      /\ \A j \in 1 .. i : live[j].name = MOWERS[j].name /\ link[live[j].link].cfg = MOWERS[j]
  <2>1. /\ Len(live) = i /\ i \in 0 .. Len(MOWERS)
        /\ \A j \in 1 .. i : live[j].name = MOWERS[j].name /\ link[live[j].link].cfg = MOWERS[j]
    BY <1>3 DEF Shows
  <2>2. i \in 1 .. i /\ i <= Len(MOWERS)
    BY <1>3, <2>1
  <2>3. live[i].link = k
    BY <1>3
  <2> HIDE DEF k, i
  <2> QED
    BY <2>1, <2>2, <2>3
<1>5. \A j \in 1 .. i - 1 : watchdog_tasks[j].name # MOWERS[i].name
  <2>1. MOWERS \in Rosters
    BY <1>3, <1>4 DEF AnyRoster
  <2>2. DOMAIN MOWERS = 1 .. Len(MOWERS)
    BY <2>1, OnboardAssumption
  <2>3. i \in 1 .. Len(MOWERS) /\ Len(MOWERS) \in Nat
    BY <1>3, <1>4, EntryOf
  <2>4. ASSUME NEW j \in 1 .. i - 1 PROVE watchdog_tasks[j].name # MOWERS[i].name
    <3>1. j \in 1 .. i /\ j \in 1 .. Len(MOWERS) /\ j # i
      BY <2>3
    <3>2. watchdog_tasks[j].name = MOWERS[j].name
      BY <1>3, <1>4, <3>1
    <3>3. MOWERS[j].name # MOWERS[i].name
      BY <2>1, <2>2, <2>3, <3>1 DEF DistinctNames
    <3> QED
      BY <3>2, <3>3
  <2> QED
    BY <2>4
<1>6. watchdog_tasks' = Append(watchdog_tasks, live[i])
  <2>1. DOMAIN watchdog_tasks = 1 .. i - 1
    BY <1>3
  <2>2. watchdog_tasks' = Append(watchdog_tasks, [name |-> MOWERS[i].name, link |-> k])
    BY <1>1, <1>4, <1>5, <2>1 DEF Put
  <2>3. live[i] \in Named
    BY <1>3, <1>4
  <2>4. live[i] = [name |-> MOWERS[i].name, link |-> k]
    BY <1>3, <1>4, <2>3 DEF Named
  <2> QED
    BY <2>2, <2>4
<1>7. watchdog_tasks' = live
  <2>1. live[i] \in Named
    BY <1>3, <1>4
  <2>2. /\ watchdog_tasks' \in Seq(Named) /\ Len(watchdog_tasks') = i
        /\ \A j \in 1 .. i : watchdog_tasks'[j] = live[j]
    BY <1>3, <1>6, <2>1
  <2> QED
    BY <1>3, <1>4, <2>2
<1>8. /\ lk \in [Links -> LinkState] /\ lk[k].watched
      /\ \A q \in Links : lk[q].cfg = link[q].cfg
      /\ \A q \in Links \ {k} : lk[q] = link[q]
  BY <1>3 DEF OnboardInv, OnboardTypeOK, LinkState
<1>9. Serves(lk, live)
  <2>1. InTable(k, live)
    BY <1>3, <1>4 DEF InTable
  <2>2. \A q \in Links \ {k} : InTable(q, live) <=> InTable(q, watchdog_tasks)
    <3>1. DOMAIN live = 1 .. i /\ DOMAIN watchdog_tasks = 1 .. i - 1
      BY <1>3, <1>4
    <3>2. ASSUME NEW q \in Links \ {k}, NEW j \in 1 .. i, live[j].link = q
          PROVE  j \in 1 .. i - 1 /\ watchdog_tasks[j].link = q
      <4>1. j # i
        BY <1>3, <3>2
      <4>2. j \in 1 .. i - 1
        BY <1>3, <4>1
      <4> QED
        BY <1>3, <3>2, <4>2
    <3>3. ASSUME NEW q \in Links \ {k}, NEW j \in 1 .. i - 1, watchdog_tasks[j].link = q
          PROVE  j \in 1 .. i /\ live[j].link = q
      BY <1>3, <3>3
    <3> QED
      BY <3>1, <3>2, <3>3 DEF InTable
  <2>3. ASSUME NEW q \in Links
        PROVE  /\ lk[q].watched <=> InTable(q, live)
               /\ lk[q].connected => InTable(q, live) \/ lk[q].held
    <3>1. CASE q = k
      BY <1>8, <2>1, <3>1
    <3>2. CASE q # k
      BY <1>3, <1>8, <2>2, <3>2 DEF Serves
    <3> QED
      BY <3>1, <3>2
  <2> QED
    BY <2>3 DEF Serves
<1>10. \A j \in 1 .. i : live[j].link \in Links /\ lk[live[j].link].cfg = MOWERS[j]
  <2>1. \A j \in 1 .. i : live[j].link \in Links
    BY <1>3, <1>4, LinksNamed
  <2> QED
    BY <1>4, <1>8, <2>1
<1>11. /\ MOWERS' = MOWERS /\ disk'.roster = MOWERS /\ run[r].at # "idle"
       /\ Len(live) = (i + 1) - 1 /\ (i + 1) - 1 <= Len(MOWERS)
       /\ \A j \in 1 .. (i + 1) - 1 : live[j].name = MOWERS[j].name
                                       /\ lk[live[j].link].cfg = MOWERS[j]
  <2>1. (i + 1) - 1 = i
    BY <1>3
  <2> HIDE DEF lk
  <2> QED
    BY <1>1, <1>3, <1>4, <1>10, <2>1
<1> HIDE DEF lk, k, i
<1> QED
  BY <1>1, <1>2, <1>3, <1>7, <1>8, <1>9, <1>11, LiveBuilds

LEMMA LiveHeld ==
  ASSUME NEW k \in Links, OnboardInv, LiveInv, ConnectsAgain(k) \/ LetsGo(k)
  PROVE  LiveInv'
<1> SUFFICES ASSUME ~overlapped' PROVE LiveInv'
  BY DEF LiveInv
<1>1. /\ UNCHANGED <<disk, MOWERS, live, watchdog_tasks, run, overlapped>>
      /\ ~Connecting(k) /\ ~overlapped
  BY DEF ConnectsAgain, LetsGo, history
<1>2. PICK to \in LinkState :
        /\ link' = [link EXCEPT ![k] = to]
        /\ to.watched = link[k].watched /\ (to.connected => to.held)
        /\ InTable(k, live) => to.cfg = link[k].cfg
  <2>1. CASE ConnectsAgain(k)
    <3> DEFINE to == [link[k] EXCEPT !.connected = TRUE, !.held = TRUE]
    <3>1. to \in LinkState /\ to.cfg = link[k].cfg /\ to.watched = link[k].watched /\ to.held
      BY DEF OnboardInv, OnboardTypeOK, LinkState
    <3>2. link' = [link EXCEPT ![k] = to]
      BY <2>1 DEF ConnectsAgain
    <3> HIDE DEF to
    <3> QED
      BY <3>1, <3>2
  <2>2. CASE LetsGo(k)
    <3>1. link' = [link EXCEPT ![k] = NoLink] /\ ~link[k].watched /\ ~InTable(k, live)
      BY <2>2 DEF LetsGo
    <3>2. NoLink.watched = FALSE /\ NoLink.connected = FALSE
      BY DEF NoLink
    <3>3. link[k].watched = FALSE
      BY <3>1 DEF OnboardInv, OnboardTypeOK, LinkState
    <3> QED
      BY <3>1, <3>2, <3>3, Blank
  <2> QED
    BY <2>1, <2>2
<1>3. link'[k] = to /\ \A q \in Links \ {k} : link'[q] = link[q]
  BY <1>2 DEF OnboardInv, OnboardTypeOK
<1>4. ASSUME NEW n, Shows(n) PROVE Shows(n)'
  <2>1. \A j \in 1 .. n : live[j].link \in Links /\ InTable(live[j].link, live)
    BY <1>4, LinksNamed DEF Shows, InTable, OnboardInv, OnboardTypeOK
  <2>2. \A j \in 1 .. n : link'[live[j].link].cfg = link[live[j].link].cfg
    BY <1>2, <1>3, <2>1
  <2> QED
    BY <1>1, <1>4, <2>2 DEF Shows
<1>5. ASSUME NEW t, Serves(link, t) PROVE Serves(link', t)
  BY <1>2, <1>3, <1>5 DEF Serves
<1>6. AsListed => AsListed'
  BY <1>1, <1>4, <1>5 DEF AsListed, OnboardInv, OnboardTypeOK
<1>7. ASSUME NEW r \in Runs, RunInv(r) PROVE RunInv(r)'
  <2>1. BeforeFiles(r)' /\ BeforeCancel(r)' /\ ToSave(r)'
    BY <1>1, <1>6, <1>7 DEF RunInv, BeforeFiles, BeforeCancel, ToSave
  <2>2. InLoops(r)'
    <3> SUFFICES ASSUME run[r].at \in Loops PROVE InLoops(r)'
      BY <1>1 DEF InLoops
    <3>1. \A q \in Links : ~link'[q].watched
      BY <1>2, <1>3, <1>7 DEF RunInv, InLoops
    <3>2. ASSUME NEW q \in Links, link'[q].connected, ~link'[q].held
          PROVE  link[q].connected /\ ~link[q].held
      BY <1>2, <1>3, <3>2
    <3>3. \A q \in Links : link'[q].connected /\ ~link'[q].held =>
            \E j \in DOMAIN live : live[j].link = q /\ (run[r].at = "transports" => j >= run[r].i)
      BY <1>7, <3>2 DEF RunInv, InLoops
    <3> QED
      BY <1>1, <1>7, <3>1, <3>3 DEF RunInv, InLoops, Table
  <2>3. InConnect(r)'
    BY <1>1, <1>4, <1>5, <1>7 DEF RunInv, InConnect
  <2> QED
    BY <2>1, <2>2, <2>3 DEF RunInv
<1>8. OneAtATime' /\ (AllIdle' => AllIdle)
  BY <1>1 DEF LiveInv, OneAtATime, AllIdle
<1> QED
  BY <1>1, <1>6, <1>7, <1>8 DEF LiveInv

LEMMA LiveStep == DistinctNames /\ OnboardInv /\ LiveInv /\ [OnboardNext]_onbVars => LiveInv'
<1> SUFFICES ASSUME DistinctNames, OnboardInv, LiveInv, [OnboardNext]_onbVars PROVE LiveInv'
  OBVIOUS
<1>1. CASE Crash
  BY <1>1, LiveCrash
<1>2. ASSUME NEW a \in Accounts, CaptureLogin(a) PROVE LiveInv'
  BY <1>2, LiveLogin
<1>3. ASSUME NEW r \in Saves, NEW roster \in Rosters, NEW p \in Payloads, SaveBegins(r, roster, p)
      PROVE  LiveInv'
  BY <1>3, LiveSaveBegins
<1>4. ASSUME NEW r \in Runs,
             \/ save_secrets(r) \/ save_mowers(r) \/ WriteFails(r)
             \/ CancelWatchdogs(r) \/ TearsDown(r) \/ NextLoop(r)
             \/ Rebuilds(r) \/ Connected(r)
      PROVE  LiveInv'
  BY <1>4, LiveSecrets, LiveMowers, LiveWriteFails, LiveCancel, LiveTearsDown, LiveNextLoop,
     LiveRebuilds, LiveConnected
<1>5. ASSUME NEW r \in Runs, SizeChanged(r) PROVE LiveInv'
  BY <1>5, LiveSizeChanged DEF LiveInv
<1>6. ASSUME NEW k \in Links, ConnectsAgain(k) \/ LetsGo(k) PROVE LiveInv'
  BY <1>6, LiveHeld
<1>7. CASE UNCHANGED onbVars
  BY <1>7 DEF onbVars, rosterVars, history, LiveInv, OneAtATime, AllIdle, AsListed, Shows, Serves,
              InTable, RunInv, BeforeFiles, BeforeCancel, InLoops, ToSave, InConnect, Table
<1> QED
  BY <1>1, <1>2, <1>3, <1>4, <1>5, <1>6, <1>7 DEF OnboardNext

\* onboard_save() and lifespan(): whatever logins and crashes come, whichever writes
\* fail, and whatever tasks connect links again that the teardown has disconnected,
\* a roster whose mowers have different names is, once its save is alone and at its
\* end, the one on disk.  The links of its mowers and no others are watched, and
\* another is connected only if such a task has connected it.
THEOREM LiveIsAlwaysSaved == ASSUME DistinctNames PROVE OnboardSpec => []LiveIsSaved
<1>1. LiveInv => LiveIsSaved
  <2> SUFFICES ASSUME LiveInv, AllIdle, ~overlapped PROVE RosterIsLive
    BY DEF LiveIsSaved
  <2>1. MOWERS = disk.roster /\ AsListed
    BY DEF LiveInv
  <2>2. DOMAIN live = 1 .. Len(live) \/ live \notin Seq(Named)
    OBVIOUS
  <2> QED
    BY <2>1 DEF AsListed, Shows, Serves, RosterIsLive
<1>2. OnboardInv /\ LiveInv /\ [OnboardNext]_onbVars => LiveInv'
  BY LiveStep
<1> QED
  BY <1>1, <1>2, LiveInit, OnboardInvAlways, PTL DEF OnboardSpec

-----------------------------------------------------------------------------
(* The session with the cloud.                                             *)

\* Before the first login all requests log in with the secrets; after it they all
\* have the account that state.http has, unless a change of either crosses them.
OneAccount ==
  \A q \in Scans : scan[q].at # "idle" =>
    /\ scan[q].account # NoAccount
    /\ http = NoAccount => scan[q].at = "login"
    /\ crossed \/ scan[q].account = IF http = NoAccount THEN secrets ELSE http

SessionInv ==
  /\ CloudTypeOK
  /\ http = NoAccount => cloud_client = NoAccount
  /\ OneAccount
  /\ SessionsAgree

LEMMA SessionInit == CloudInit => SessionInv
<1> SUFFICES ASSUME CloudInit PROVE SessionInv
  OBVIOUS
<1> USE DEF CloudInit, IdleScan, OrNoAccount
<1>1. CloudTypeOK
  BY DEF CloudTypeOK
<1>2. OneAccount
  BY DEF OneAccount
<1> QED
  BY <1>1, <1>2 DEF SessionInv, SessionsAgree

LEMMA SessionStep == SessionInv /\ [CloudNext]_cloudVars => SessionInv'
<1> SUFFICES ASSUME SessionInv, [CloudNext]_cloudVars PROVE SessionInv'
  OBVIOUS
<1> USE CloudAssumption
     DEF SessionInv, CloudTypeOK, OneAccount, SessionsAgree, IdleScan, OrNoAccount
<1>1. CASE Restart
  BY <1>1 DEF Restart
<1>2. CASE \E a \in CloudAccounts : Login(a)
  BY <1>2 DEF Login, Scanning
<1>3. ASSUME NEW a \in CloudAccounts, SecretsSaved(a)
      PROVE  SessionInv'
  <2>1. secrets' = a /\ UNCHANGED <<http, cloud_client, scan>>
    BY <1>3 DEF SecretsSaved
  <2>2. crossed' \in BOOLEAN /\ (crossed => crossed')
    BY <1>3, Zenon DEF SecretsSaved
  <2>3. ASSUME NEW q \in Scans, scan[q].at # "idle", http = NoAccount PROVE crossed'
    <3>1. Scanning
      BY <2>3 DEF Scanning
    <3> QED
      BY <1>3, <2>3, <3>1, Zenon DEF SecretsSaved
  <2>4. CloudTypeOK'
    BY <2>1, <2>2
  <2>5. OneAccount'
    BY <2>1, <2>2, <2>3
  <2> QED
    BY <2>1, <2>2, <2>4, <2>5
<1>4. ASSUME NEW q \in Scans, NEW listing \in BOOLEAN, RequestBegins(q, listing)
      PROVE  SessionInv'
  BY <1>4 DEF RequestBegins
<1>5. ASSUME NEW q \in Scans, LoggedIn(q)
      PROVE  SessionInv'
  BY <1>5 DEF LoggedIn, ScanGoes
<1>6. ASSUME NEW q \in Scans, LoginRefused(q)
      PROVE  SessionInv'
  BY <1>6 DEF LoginRefused, ScanGoes
<1>7. ASSUME NEW q \in Scans, SharesConfirmed(q)
      PROVE  SessionInv'
  BY <1>7 DEF SharesConfirmed, ScanGoes
<1>8. ASSUME NEW q \in Scans, Listed(q)
      PROVE  SessionInv'
  BY <1>8 DEF Listed, ScanGoes
<1>9. ASSUME NEW q \in Scans, Handshake(q)
      PROVE  SessionInv'
  BY <1>9 DEF Handshake, ScanGoes
<1>10. ASSUME NEW q \in Scans, ListFails(q)
      PROVE  SessionInv'
  BY <1>10 DEF ListFails, ScanGoes
<1>11. CASE UNCHANGED cloudVars
  BY <1>11 DEF cloudVars
<1> QED
  BY <1>1, <1>2, <1>3, <1>4, <1>5, <1>6, <1>7, <1>8, <1>9, <1>10, <1>11 DEF CloudNext

\* The types of state.http, state.cloud_client and the requests.
THEOREM SessionTypes == CloudSpec => []CloudTypeOK
<1>1. SessionInv => CloudTypeOK
  BY DEF SessionInv
<1> QED
  BY <1>1, SessionInit, SessionStep, PTL DEF CloudSpec

\* _cloud_mowers() and _ensure_http(): whatever the order of requests, logins,
\* saves and restarts, no scan lists the mowers of another account than the one
\* that state.http is logged in to, unless the last login, or a save's own
\* credentials before any login, came during a request.
THEOREM SessionsAlwaysAgree == CloudSpec => []SessionsAgree
<1>1. SessionInv => SessionsAgree
  BY DEF SessionInv
<1> QED
  BY <1>1, SessionInit, SessionStep, PTL DEF CloudSpec
=============================================================================
