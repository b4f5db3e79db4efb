---------------------------- MODULE CloudSession ----------------------------
(***************************************************************************)
(* The web server's session with the vendor's cloud (web-server/app.py):   *)
(* one login, state.http, that onboard_login() makes anew and              *)
(* _ensure_http() makes on demand from secrets.toml, and one gateway       *)
(* session, state.cloud_client, that _cloud_mowers() makes from it and     *)
(* keeps across scans.                                                     *)
(*                                                                         *)
(* Requests are coroutines, so a login may fall into any await of a scan,  *)
(* and the scan goes on with the login it has read.                        *)
(***************************************************************************)
EXTENDS Naturals

CONSTANTS
  CloudAccounts,
  Scans,      \* requests that need the cloud, at a time
  NoAccount

ASSUME CloudAssumption == NoAccount \notin CloudAccounts

VARIABLES
  secrets,       \* the account in secrets.toml
  http,          \* the account that state.http is logged in to
  cloud_client,  \* the account of the cached gateway
  scan,          \* per request: where it is, and the account of its local `http`
  crossed        \* history: a login, or the secrets before any, changed during a request

cloudVars == <<secrets, http, cloud_client, scan, crossed>>

OrNoAccount == CloudAccounts \union {NoAccount}

\* `listing` is of a scan; the camera and the error table need the login only.
IdleScan == [at |-> "idle", account |-> NoAccount, listing |-> FALSE]

CloudTypeOK ==
  /\ secrets \in OrNoAccount /\ http \in OrNoAccount /\ cloud_client \in OrNoAccount
  /\ scan \in [Scans -> [at: {"idle", "login", "shares", "handshake", "list"},
                         account: OrNoAccount, listing: BOOLEAN]]
  /\ crossed \in BOOLEAN

CloudInit ==
  /\ secrets \in OrNoAccount
  /\ http = NoAccount /\ cloud_client = NoAccount
  /\ scan = [q \in Scans |-> IdleScan]
  /\ crossed = FALSE

Restart ==
  /\ http' = NoAccount /\ cloud_client' = NoAccount
  /\ scan' = [q \in Scans |-> IdleScan]
  /\ crossed' = FALSE
  /\ UNCHANGED secrets

Scanning == \E q \in Scans : scan[q] # IdleScan

\* onboard_save() persists the credentials of a login, or those in its body; a
\* request may be logging in with the older ones.
SecretsSaved(a) ==
  /\ secrets' = a
  /\ crossed' = (crossed \/ (http = NoAccount /\ Scanning))
  /\ UNCHANGED <<http, cloud_client, scan>>

\* Bug: the gateway of the last session is kept.
Login_KeepsGateway(a) ==
  /\ http' = a
  /\ crossed' = Scanning
  /\ UNCHANGED <<secrets, cloud_client, scan>>

\* onboard_login(): login_v2() has succeeded.
Login(a) ==
  /\ http' = a /\ cloud_client' = NoAccount
  /\ crossed' = Scanning
  /\ UNCHANGED <<secrets, scan>>

ScanGoes(q, here, there) ==
  /\ scan[q].at = here
  /\ scan' = [scan EXCEPT ![q] = IF there = "idle" THEN IdleScan ELSE [@ EXCEPT !.at = there]]
  /\ UNCHANGED <<secrets, crossed>>

\* A request finds state.http, or logs in from the secrets; with neither it is
\* refused.
RequestBegins(q, listing) ==
  /\ scan[q] = IdleScan
  /\ http # NoAccount \/ secrets # NoAccount
  /\ scan' = [scan EXCEPT ![q] =
       IF http = NoAccount THEN [at |-> "login", account |-> secrets, listing |-> listing]
       ELSE IF listing THEN [at |-> "shares", account |-> http, listing |-> TRUE]
       ELSE IdleScan]
  /\ UNCHANGED <<secrets, http, cloud_client, crossed>>

LoggedIn(q) ==
  /\ ScanGoes(q, "login", IF scan[q].listing THEN "shares" ELSE "idle")
  /\ http' = scan[q].account
  /\ UNCHANGED cloud_client

LoginRefused(q) == ScanGoes(q, "login", "idle") /\ UNCHANGED <<http, cloud_client>>

\* Pending shares are confirmed.  A cached gateway is used as it is.
SharesConfirmed(q) ==
  /\ ScanGoes(q, "shares", IF cloud_client = NoAccount THEN "handshake" ELSE "list")
  /\ UNCHANGED <<http, cloud_client>>

Handshake(q) ==
  /\ ScanGoes(q, "handshake", "list")
  /\ cloud_client' = scan[q].account
  /\ UNCHANGED http

\* The listing, or one of its fallbacks; a session that was rejected is dropped.
Listed(q) == ScanGoes(q, "list", "idle") /\ UNCHANGED <<http, cloud_client>>

ListFails(q) ==
  /\ \E here \in {"handshake", "list"} : ScanGoes(q, here, "idle")
  /\ cloud_client' = NoAccount
  /\ UNCHANGED http

CloudNext ==
  \/ Restart
  \/ \E a \in CloudAccounts : Login(a) \/ SecretsSaved(a)
  \/ \E q \in Scans :
       \/ (\E listing \in BOOLEAN : RequestBegins(q, listing)) \/ LoggedIn(q) \/ LoginRefused(q)
       \/ SharesConfirmed(q) \/ Handshake(q) \/ Listed(q) \/ ListFails(q)

CloudSpec == CloudInit /\ [][CloudNext]_cloudVars

-----------------------------------------------------------------------------
(* Properties.                                                             *)

\* The cached gateway is of the account that is logged in, however scans, the
\* camera, saves and restarts interleave, unless the last login, or before the
\* first one a save's own credentials, came while a request was on its way.
SessionsAgree == ~crossed => cloud_client \in {http, NoAccount}
=============================================================================
