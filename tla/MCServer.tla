------------------------------ MODULE MCServer ------------------------------
(***************************************************************************)
(* The web server's onboarding and its session with the cloud.  All they   *)
(* share is the login, of which each has its half, so a behaviour is of    *)
(* the one or of the other.                                                *)
(*                                                                         *)
(* Onboarding is looked at twice: at its files and its login, with saves   *)
(* that overlap and credentials from everywhere, but one mower and two     *)
(* links; and at its live roster, with two mowers and links enough for     *)
(* those that are held, but saves one at a time and no credentials.        *)
(***************************************************************************)
EXTENDS Onboarding, CloudSession, TLC

\* One mower; or the same behind another proxy, and a second one.
MCRosters ==
  { << [name |-> "first", host |-> 1] >>,
    << [name |-> "first", host |-> 2], [name |-> "second", host |-> 1] >> }

\* A body without credentials, as the page's, with an account's, or with an email alone.
MCPayloads ==
  {NoCreds} \union {Of(a) : a \in Accounts}
            \union {[email |-> a, password |-> Nobody] : a \in Accounts}

MCLinks == 1 .. 5

VARIABLE part

serverVars == <<part, onbVars, cloudVars>>

ServerInit ==
  /\ part \in {"files", "roster", "cloud"}
  /\ OnboardInit /\ CloudInit
  /\ part # "cloud" => secrets = NoAccount
  /\ part # "files" => disk.secrets = NoCreds
  /\ part = "files" => Len(disk.roster) <= 1
  /\ part = "cloud" => disk.roster = <<>>

\* A link is new in a step.  Any free one would do as well as the first.
NewLink(k) == \E r \in Runs : run'[r] # run[r] /\ run'[r].at = "connect" /\ run'[r].link = k

TakesTheFirst == \A k \in Links : NewLink(k) => \A j \in 1 .. k - 1 : link'[j] # NoLink

Files ==
  /\ part = "files" /\ OnboardNext
  /\ \A r \in Runs : Len(run'[r].roster) <= 1
  /\ \A k \in Links : NewLink(k) => k <= 2

Roster ==
  /\ part = "roster" /\ OnboardNext
  /\ ~overlapped' /\ onboard' = Nobody
  /\ \A r \in Runs : run'[r].creds = NoCreds

ServerNext ==
  \/ (Files \/ Roster) /\ TakesTheFirst /\ UNCHANGED <<part, cloudVars>>
  \/ part = "cloud" /\ CloudNext /\ UNCHANGED <<part, onbVars>>

ServerSpec == ServerInit /\ [][ServerNext]_serverVars

MCSymmetry == Permutations(Accounts) \union Permutations(Saves)
=============================================================================
