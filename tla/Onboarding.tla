----------------------------- MODULE Onboarding -----------------------------
(***************************************************************************)
(* Onboarding and persistence in the web server (web-server/app.py and     *)
(* web-server/persist.py): the login whose credentials the next save       *)
(* persists, and the save that writes secrets.toml and mowers.toml and     *)
(* swaps the live roster.                                                  *)
(*                                                                         *)
(* Requests are coroutines: each action is what one does between two of    *)
(* its awaits.  A crash may fall anywhere, also between the two files,     *)
(* either of which may fail to be written.  A task that outlives the       *)
(* teardown may connect a link again that the teardown has disconnected.   *)
(***************************************************************************)
EXTENDS Naturals, Sequences

CONSTANTS
  Accounts,
  Rosters,    \* rosters to save: sequences of [name, host]
  Payloads,   \* the email and password in the body of a save, each of an account or absent
  Saves,      \* runs of onboard_save() at a time
  Lifespan,   \* the run of lifespan() before it yields
  Links,      \* transports, each with its handle and its watchdog task
  Nobody      \* no account, no link

OrNobody(S) == S \union {Nobody}

Credentials == [email: OrNobody(Accounts), password: OrNobody(Accounts)]
NoCreds     == [email |-> Nobody, password |-> Nobody]
Of(a)       == [email |-> a, password |-> a]

ASSUME OnboardAssumption ==
  /\ Lifespan \notin Saves
  /\ Nobody \notin Accounts \union Links
  /\ Payloads \subseteq Credentials
  /\ \A roster \in Rosters : Len(roster) \in Nat \ {0} /\ DOMAIN roster = 1 .. Len(roster)

VARIABLES
  disk,            \* secrets.toml's credentials and mowers.toml
  MOWERS,
  live,            \* state.handles and state.transports, in the order of insertion
  watchdog_tasks,
  link,            \* per link: its entry of the roster, connected, watched, and held
  run,             \* per save, and the lifespan: where it is
  onboard,         \* onboard_email and onboard_password: of an account, or none
  rosterOf,        \* history: the credentials that mowers.toml was saved with
  cut,             \* history: a save was cut short between its two files
  overlapped,      \* history: a save began during another since the start
  late,            \* history: a login came during a save, and no save of secrets since
  own              \* history: a save since the login came with credentials in its body

rosterVars == <<MOWERS, live, watchdog_tasks, link>>
history    == <<rosterOf, cut, overlapped, late, own>>
onbVars    == <<disk, rosterVars, run, onboard, history>>

Runs == Saves \union {Lifespan}

IdleRun  == [at |-> "idle", roster |-> <<>>, creds |-> NoCreds, i |-> 0, size |-> 0,
             link |-> Nobody]

\* A link is held by a task that outlives the teardown which has disconnected it:
\* a retry sequence that is not tracked, a command, a joystick's final stop, or
\* the reader of the connection that one of these has opened.
NoLink   == [cfg |-> <<>>, connected |-> FALSE, watched |-> FALSE, held |-> FALSE]

AnyRoster == Rosters \union {<<>>}
Entries   == UNION {{r[i] : i \in DOMAIN r} : r \in Rosters}
Named     == [name: {e.name : e \in Entries}, link: Links]
LinkState == [cfg: Entries \union {<<>>}, connected: BOOLEAN, watched: BOOLEAN, held: BOOLEAN]
RunState  == [at: {"idle", "secrets", "roster", "websockets", "cancel", "tasks", "handles",
                   "transports", "connect"},
              roster: AnyRoster, creds: Credentials, i: Nat, size: Nat, link: OrNobody(Links)]

OnboardTypeOK ==
  /\ disk \in [secrets: Credentials, roster: AnyRoster]
  /\ MOWERS \in AnyRoster
  /\ live \in Seq(Named) /\ watchdog_tasks \in Seq(Named)
  /\ link \in [Links -> LinkState]
  /\ run \in [Runs -> RunState]
  /\ onboard \in OrNobody(Accounts)
  /\ rosterOf \in Credentials
  /\ cut \in BOOLEAN /\ overlapped \in BOOLEAN /\ late \in BOOLEAN /\ own \in BOOLEAN

-----------------------------------------------------------------------------
(* _build_and_connect(), in a `for cfg in MOWERS` that goes on while the   *)
(* list may be replaced.                                                   *)

\* d[name] = k: an entry keeps its place.
Put(table, name, k) ==
  IF \E j \in DOMAIN table : table[j].name = name
  THEN [j \in DOMAIN table |-> IF table[j].name = name THEN [name |-> name, link |-> k] ELSE table[j]]
  ELSE Append(table, [name |-> name, link |-> k])

InTable(k, table) == \E j \in DOMAIN table : table[j].link = k

\* r comes to the i-th entry of the list m: up to the await of connect(), or the
\* end of the request, with the tables and links as they are at that point.
Builds(r, m, i, lv, lk) ==
  IF i > Len(m)
  THEN /\ run' = [run EXCEPT ![r] = IdleRun]
       /\ live' = lv /\ link' = lk
       /\ onboard' = IF r = Lifespan THEN onboard ELSE Nobody
  ELSE /\ \E k \in Links :
            /\ lk[k] = NoLink /\ ~InTable(k, lv) /\ ~InTable(k, watchdog_tasks')
            /\ \A s \in Runs \ {r} : run[s].link # k
            /\ live' = Put(lv, m[i].name, k)
            /\ link' = [lk EXCEPT ![k].cfg = m[i]]
            /\ run' = [run EXCEPT ![r] = [@ EXCEPT !.at = "connect", !.i = i, !.link = k]]
       /\ UNCHANGED onboard

Loops == {"tasks", "handles", "transports"}

\* Runs that have not come to an await: no other coroutine has its turn.
Holding ==
  {r \in Runs : run[r].at \in {"secrets", "roster", "cancel"}
                  \/ (run[r].at \in Loops /\ run[r].i = 1)}

Turn(r) == Holding \subseteq {r}

\* connect() has returned or failed; a link that is down then is opened by the
\* first command.  The watchdog is armed.
Connected(r) ==
  /\ Turn(r) /\ run[r].at = "connect"
  /\ LET k == run[r].link
     IN  /\ watchdog_tasks' = Put(watchdog_tasks, link[k].cfg.name, k)
         /\ Builds(r, MOWERS, run[r].i + 1, live,
                   [link EXCEPT ![k].connected = TRUE, ![k].watched = TRUE])
  /\ UNCHANGED <<disk, MOWERS, history>>

\* lifespan() builds a link for each of the roster's mowers before it yields.
Started(roster) ==
  [r \in Runs |-> IF r = Lifespan /\ roster # <<>>
                  THEN [IdleRun EXCEPT !.at = "transports", !.i = 1] ELSE IdleRun]

OnboardInit ==
  /\ disk \in [secrets: {NoCreds} \union {Of(a) : a \in Accounts}, roster: AnyRoster]
  /\ MOWERS = disk.roster
  /\ live = <<>> /\ watchdog_tasks = <<>>
  /\ link = [k \in Links |-> NoLink]
  /\ run = Started(MOWERS)
  /\ onboard = Nobody
  /\ rosterOf = NoCreds
  /\ cut = FALSE /\ overlapped = FALSE /\ late = FALSE /\ own = FALSE

\* A save has written its credentials, and not yet its roster.
BetweenFiles == \E r \in Runs : run[r].at = "roster" /\ run[r].creds # NoCreds

\* The process dies, at any point, and starts again from its two files.
Crash ==
  /\ MOWERS' = disk.roster
  /\ live' = <<>> /\ watchdog_tasks' = <<>>
  /\ link' = [k \in Links |-> NoLink]
  /\ run' = Started(disk.roster)
  /\ onboard' = Nobody
  /\ cut' = (cut \/ BetweenFiles)
  /\ overlapped' = FALSE /\ late' = FALSE /\ own' = FALSE
  /\ UNCHANGED <<disk, rosterOf>>

\* Uvicorn takes requests once lifespan() has yielded.
Serving == run[Lifespan].at = "idle" /\ Holding = {}

-----------------------------------------------------------------------------
(* onboard_save().                                                         *)

\* A field the body does not have falls back on the login's.
Chosen(p) ==
  LET creds == [email    |-> IF p.email # Nobody THEN p.email ELSE onboard,
                password |-> IF p.password # Nobody THEN p.password ELSE onboard]
  IN  IF creds.email # Nobody /\ creds.password # Nobody THEN creds ELSE NoCreds

SaveWith(r, roster, p, first, held) ==
  /\ Serving /\ run[r].at = "idle"
  /\ run' = [run EXCEPT ![r] =
                [IdleRun EXCEPT !.at = first, !.roster = roster, !.creds = Chosen(p)]]
  /\ overlapped' = (overlapped \/ \E s \in Runs : run[s].at # "idle")
  /\ own' = (own \/ (onboard # Nobody /\ p # NoCreds))
  /\ onboard' = held
  /\ UNCHANGED <<disk, rosterVars, rosterOf, cut, late>>

\* Bug: the credentials are not written.
SaveBegins_RosterOnly(r, roster, p) == SaveWith(r, roster, p, "roster", onboard)

\* Bug: the credentials are dropped as they are taken, not when they are on disk.
SaveBegins_Takes(r, roster, p) ==
  SaveWith(r, roster, p, IF Chosen(p) = NoCreds THEN "roster" ELSE "secrets", Nobody)

\* Credentials are written if both are there.
SaveBegins(r, roster, p) ==
  SaveWith(r, roster, p, IF Chosen(p) = NoCreds THEN "roster" ELSE "secrets", onboard)

save_secrets(r) ==
  /\ Turn(r) /\ run[r].at = "secrets"
  /\ disk' = [disk EXCEPT !.secrets = run[r].creds]
  /\ late' = FALSE
  /\ run' = [run EXCEPT ![r].at = "roster"]
  /\ UNCHANGED <<rosterVars, onboard, rosterOf, cut, overlapped, own>>

\* Then joystick sockets are closed, if there are any; each close() is awaited.
save_mowers(r) ==
  /\ Turn(r) /\ run[r].at = "roster"
  /\ disk' = [disk EXCEPT !.roster = run[r].roster]
  /\ rosterOf' = run[r].creds /\ cut' = FALSE
  /\ \E at \in IF live = <<>> THEN {"cancel"} ELSE {"cancel", "websockets"} :
       run' = [run EXCEPT ![r] = [@ EXCEPT !.at = at, !.creds = NoCreds]]
  /\ UNCHANGED <<rosterVars, onboard, overlapped, late, own>>

\* An OSError on the way to os.replace(): the file is as it was, the request ends.
WriteFails(r) ==
  /\ Turn(r) /\ run[r].at \in {"secrets", "roster"}
  /\ run' = [run EXCEPT ![r] = IdleRun]
  /\ cut' = (cut \/ BetweenFiles)
  /\ UNCHANGED <<disk, rosterVars, onboard, rosterOf, overlapped, late, own>>

-----------------------------------------------------------------------------
(* _teardown_all(): three loops over two dicts that another save may be    *)
(* changing, each with an await in its body.                               *)

Table(at) == IF at = "tasks" THEN watchdog_tasks ELSE live

\* All of them at once.
CancelWatchdogs(r) ==
  /\ Turn(r) /\ run[r].at \in {"websockets", "cancel"}
  /\ link' = [k \in Links |-> IF InTable(k, watchdog_tasks) THEN [link[k] EXCEPT !.watched = FALSE]
                                                            ELSE link[k]]
  /\ run' = [run EXCEPT ![r] = [@ EXCEPT !.at = "tasks", !.i = 1, !.size = Len(watchdog_tasks)]]
  /\ UNCHANGED <<disk, MOWERS, live, watchdog_tasks, onboard, history>>

\* One more of the dict's entries, if the dict has kept its size.
TearsDown(r) ==
  /\ Turn(r) /\ run[r].at \in Loops
  /\ LET at == run[r].at  t == Table(at)  i == run[r].i
     IN  /\ Len(t) = run[r].size /\ i <= Len(t)
         /\ link' = IF at = "transports" THEN [link EXCEPT ![t[i].link].connected = FALSE] ELSE link
         /\ run' = [run EXCEPT ![r].i = i + 1]
  /\ UNCHANGED <<disk, MOWERS, live, watchdog_tasks, onboard, history>>

\* Bug: the old transports are dropped without a disconnect.
NextLoop_SkipsTransports(r) ==
  /\ Turn(r) /\ run[r].at \in {"tasks", "handles"}
  /\ Len(Table(run[r].at)) = run[r].size /\ run[r].i > run[r].size
  /\ run' = [run EXCEPT ![r] =
                [@ EXCEPT !.at = IF run[r].at = "tasks" THEN "handles" ELSE "transports",
                          !.i = Len(live) + 1, !.size = Len(live)]]
  /\ UNCHANGED <<disk, rosterVars, onboard, history>>

NextLoop(r) ==
  /\ Turn(r) /\ run[r].at \in {"tasks", "handles"}
  /\ Len(Table(run[r].at)) = run[r].size /\ run[r].i > run[r].size
  /\ run' = [run EXCEPT ![r] =
                [@ EXCEPT !.at = IF run[r].at = "tasks" THEN "handles" ELSE "transports",
                          !.i = 1, !.size = Len(live)]]
  /\ UNCHANGED <<disk, rosterVars, onboard, history>>

\* RuntimeError: the dict changed size during iteration.
SizeChanged(r) ==
  /\ Turn(r) /\ run[r].at \in Loops
  /\ Len(Table(run[r].at)) # run[r].size
  /\ run' = [run EXCEPT ![r] = IdleRun]
  /\ UNCHANGED <<disk, rosterVars, onboard, history>>

Connecting(k) == \E r \in Runs : run[r].at = "connect" /\ run[r].link = k

\* Links whose last reference goes are collected.  Of those the teardown has
\* disconnected, `kept` are held by tasks that it has not ended.
Collected(lk, kept) ==
  [k \in Links |-> IF k \in kept THEN [lk[k] EXCEPT !.held = TRUE]
                   ELSE IF lk[k].connected \/ lk[k].watched \/ lk[k].held \/ Connecting(k)
                   THEN lk[k] ELSE NoLink]

\* The dicts are cleared, the list replaced in place, and the first link built.
Rebuilds(r) ==
  /\ Turn(r) /\ run[r].at = "transports"
  /\ Len(live) = run[r].size /\ run[r].i > Len(live)
  /\ watchdog_tasks' = <<>>
  /\ MOWERS' = IF r = Lifespan THEN MOWERS ELSE run[r].roster
  /\ \E kept \in SUBSET {k \in Links : InTable(k, live) /\ ~link[k].connected} :
       Builds(r, MOWERS', 1, <<>>, Collected(link, kept))
  /\ UNCHANGED <<disk, history>>

\* A task sends by a link that the teardown has disconnected, from before or after
\* it has left the dicts, and so connects it again.
ConnectsAgain(k) ==
  /\ Holding = {}
  /\ link[k].held \/ InTable(k, live)
  /\ ~link[k].connected /\ ~Connecting(k)
  /\ link' = [link EXCEPT ![k] = [@ EXCEPT !.connected = TRUE, !.held = TRUE]]
  /\ UNCHANGED <<disk, MOWERS, live, watchdog_tasks, run, onboard, history>>

\* The last task that holds it returns, the reader of its connection included.
LetsGo(k) ==
  /\ Holding = {}
  /\ link[k].held /\ ~link[k].watched /\ ~InTable(k, live) /\ ~Connecting(k)
  /\ link' = [link EXCEPT ![k] = NoLink]
  /\ UNCHANGED <<disk, MOWERS, live, watchdog_tasks, run, onboard, history>>

-----------------------------------------------------------------------------
\* onboard_login(): login_v2() has succeeded.  What it does to the cloud session
\* is Login's of CloudSession.
CaptureLogin(a) ==
  /\ Serving
  /\ onboard' = a
  /\ late' = (late \/ \E r \in Runs : run[r].at # "idle")
  /\ own' = FALSE
  /\ UNCHANGED <<disk, rosterVars, run, rosterOf, cut, overlapped>>

OnboardNext ==
  \/ Crash
  \/ \E a \in Accounts : CaptureLogin(a)
  \/ \E r \in Saves, roster \in Rosters, p \in Payloads : SaveBegins(r, roster, p)
  \/ \E r \in Runs :
       \/ save_secrets(r) \/ save_mowers(r) \/ WriteFails(r)
       \/ CancelWatchdogs(r) \/ TearsDown(r) \/ NextLoop(r)
       \/ SizeChanged(r) \/ Rebuilds(r) \/ Connected(r)
  \/ \E k \in Links : ConnectsAgain(k) \/ LetsGo(k)

OnboardSpec == OnboardInit /\ [][OnboardNext]_onbVars

-----------------------------------------------------------------------------
(* Properties.                                                             *)

\* A roster on disk that was saved with credentials, the login's or the save's
\* own, has them beside it.  Only a save that was cut short between its two
\* files, by a crash or a failed write, leaves an earlier roster beside newer
\* credentials, and never a newer roster beside earlier ones.
RosterHasItsAccount ==
  rosterOf # NoCreds /\ disk.secrets # rosterOf => cut \/ BetweenFiles

AllIdle == \A r \in Runs : run[r].at = "idle"

RosterIsLive ==
  /\ MOWERS = disk.roster
  /\ Len(live) = Len(MOWERS) /\ watchdog_tasks = live
  /\ \A i \in DOMAIN live : link[live[i].link].cfg = MOWERS[i]
  /\ \A k \in Links : /\ link[k].watched <=> InTable(k, live)
                      /\ link[k].connected => InTable(k, live) \/ link[k].held

\* With no save under way, and none that overlapped another since the start,
\* the live roster is the one on disk: each mower has one link, all of them and
\* no other are watched, and a link of an earlier roster is connected only
\* because a task that outlived the teardown has connected it again.
LiveIsSaved == AllIdle /\ ~overlapped => RosterIsLive

Cleared == onboard # Nobody /\ onboard' = Nobody /\ ~Crash

\* onboard_login()'s comment: the credentials are held until a save has
\* persisted them.  Those of a login that came during a save are not, nor are
\* those of a login after which a save came with credentials in its body.
HeldUntilSaved == [][Cleared => late \/ own \/ disk.secrets = Of(onboard)]_onbVars
=============================================================================
