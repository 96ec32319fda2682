----------------------------- MODULE ConfigServer -----------------------------
(***************************************************************************)
(* The configuration UI server (confighttp.cpp) and what it is started     *)
(* with (httpcommon.cpp): the host's key and certificate files, the        *)
(* credentials file, the one session cookie, and the requests that need a  *)
(* login.  A hash is the pair of what is hashed and the salt.  A file is    *)
(* opened, which cuts it to nothing, and then written; the write may fail  *)
(* unnoticed.  The process may be killed anywhere and is started again.    *)
(***************************************************************************)
EXTENDS Naturals, Sequences

CONSTANTS
  CsClients,    \* browsers
  CsNear,       \* those whose address origin_web_ui_allowed admits
  CsPasswords,
  CsMaxCookies, \* bound on logins
  CsMaxSalts,   \* bound on password changes
  CsMaxCrashes

VARIABLES
  csUp,      \* "down", "up", "saving" a password, or where create_creds is:
             \* "pkey" and "cert" while that file is open, "between" the two
  csKeys,    \* pkey, cert: key pair each file holds, 0 for none; made: pairs made
  csFile,    \* credentials the file holds: [hash, salt], as a set
  csEmpty,   \* files that are there with nothing in them: cut, not written
  csSaving,  \* password whose file is open, as a set
  csMem,     \* config::sunshine credentials, as a set
  csCookie,  \* sessionCookie: [raw, salt], as a set
  csOld,     \* the cookie is older than SESSION_EXPIRE_DURATION
  csHeld,    \* cookie each browser holds, 0 for none
  csIssued,  \* password each issued cookie was given for
  csSalts,   \* salts drawn
  csTold,    \* password last reported saved and on disk, as a set
  csServed,  \* the last request let through: [part, raw, aged], as a set
  csApp,     \* an application runs
  csCrashes

csVars == <<csUp, csKeys, csFile, csEmpty, csSaving, csMem, csCookie, csOld, csHeld, csIssued, csSalts, csTold, csServed, csApp, csCrashes>>
csDisk == <<csKeys, csFile, csEmpty, csSaving>>
csLogin == <<csCookie, csOld, csHeld, csIssued>>

CsInit ==
  /\ csUp = "down" /\ csKeys = [pkey |-> 0, cert |-> 0, made |-> 0]
  /\ csFile = {} /\ csEmpty = {} /\ csSaving = {} /\ csMem = {}
  /\ csCookie = {} /\ csOld = FALSE /\ csHeld = [c \in CsClients |-> 0] /\ csIssued = <<>>
  /\ csSalts = 0 /\ csTold = {} /\ csServed = {} /\ csApp = FALSE /\ csCrashes = 0

Hash(text, salt) == <<text, salt>>

There(f) == csKeys[f] # 0 \/ f \in csEmpty

PkeyMissing == ~There("pkey")

\* http::init makes new credentials when either file is missing; a file with
\* nothing in it is not.
KeysMissing == ~There("pkey") \/ ~There("cert")

\* create_creds: write_file opens one file and then the other.
OpenKeyFile(f) ==
  /\ \/ f = "pkey" /\ csUp = "down" /\ KeysMissing
     \/ f = "cert" /\ csUp = "between"
  /\ csUp' = f /\ csEmpty' = csEmpty \cup {f}
  /\ csKeys' = [csKeys EXCEPT ![f] = 0, !.made = IF f = "pkey" THEN @ + 1 ELSE @]
  /\ UNCHANGED <<csFile, csSaving, csMem, csLogin, csSalts, csTold, csServed, csApp, csCrashes>>

\* The result of the write is not looked at.
WriteKeyFile(f, written) ==
  /\ csUp = f /\ csUp' = IF f = "pkey" THEN "between" ELSE "down"
  /\ csKeys' = IF written THEN [csKeys EXCEPT ![f] = csKeys.made] ELSE csKeys
  /\ csEmpty' = IF written THEN csEmpty \ {f} ELSE csEmpty
  /\ UNCHANGED <<csFile, csSaving, csMem, csLogin, csSalts, csTold, csServed, csApp, csCrashes>>

\* user_creds_exist and reload_user_creds: a file that is not there or has
\* nothing in it changes nothing.
ReloadUserCreds(file) == IF file = {} THEN csMem ELSE file

\* The rest of http::init, and the servers: one that cannot use its key files
\* throws in its thread, which ends the process.
Start ==
  /\ csUp = "down" /\ ~KeysMissing /\ {"pkey", "cert"} \cap csEmpty = {}
  /\ csUp' = "up" /\ csMem' = ReloadUserCreds(csFile)
  /\ UNCHANGED <<csDisk, csLogin, csSalts, csTold, csServed, csApp, csCrashes>>

\* The process ends and what it kept in memory is gone.
Forgets == csUp' = "down" /\ csMem' = {} /\ csCookie' = {} /\ csOld' = FALSE

Crash ==
  /\ csUp # "down" /\ csCrashes < CsMaxCrashes /\ csCrashes' = csCrashes + 1
  /\ Forgets /\ csApp' = FALSE /\ csSaving' = {}
  /\ UNCHANGED <<csKeys, csFile, csEmpty, csHeld, csIssued, csSalts, csTold, csServed>>

CookieAges ==
  /\ csCookie # {} /\ ~csOld /\ csOld' = TRUE
  /\ UNCHANGED <<csUp, csDisk, csMem, csCookie, csHeld, csIssued, csSalts, csTold, csServed, csApp, csCrashes>>

Login(c, password) ==
  /\ csUp = "up" /\ c \in CsNear /\ Len(csIssued) < CsMaxCookies
  /\ \E m \in csMem :
       /\ m.hash = Hash(password, m.salt)
       /\ csCookie' = {Hash(Len(csIssued) + 1, m.salt)}
  /\ csOld' = FALSE
  /\ csHeld' = [csHeld EXCEPT ![c] = Len(csIssued) + 1]
  /\ csIssued' = Append(csIssued, password)
  /\ UNCHANGED <<csUp, csDisk, csMem, csSalts, csTold, csServed, csApp, csCrashes>>

\* authenticate: origin, credentials set, cookie set, its age, its hash.
Authenticate(c) ==
  /\ c \in CsNear /\ csMem # {} /\ csCookie # {} /\ ~csOld
  /\ \A m \in csMem : Hash(csHeld[c], m.salt) \in csCookie

\* Any authenticated request drops an expired cookie.
CookieExpires(c) ==
  /\ csUp = "up" /\ c \in CsNear /\ csMem # {} /\ csCookie # {} /\ csOld
  /\ csCookie' = {} /\ csOld' = FALSE
  /\ UNCHANGED <<csUp, csDisk, csMem, csHeld, csIssued, csSalts, csTold, csServed, csApp, csCrashes>>

\* A request that passed authenticate, and the component its handler calls.
Serves(c, part) ==
  /\ csUp = "up" /\ Authenticate(c)
  /\ csServed' = {[part |-> part, raw |-> csHeld[c], aged |-> csOld]}

\* save_user_creds: the password hashed with the salt drawn for it.
SavedCreds(password) == [hash |-> Hash(password, csSalts), salt |-> csSalts]

\* savePassword needs a login unless no credentials are set.  It replies that
\* it saved whether or not save_user_creds did, which gives up on a file it
\* cannot read; the file may also fail to open.
SavePassword(c, current, new, opened) ==
  /\ csUp = "up" /\ csSalts < CsMaxSalts
  /\ csMem = {} \/ (Authenticate(c) /\ \E m \in csMem : m.hash = Hash(current, m.salt))
  /\ IF opened /\ "creds" \notin csEmpty
     THEN /\ csUp' = "saving" /\ csSaving' = {new}
          /\ csFile' = {} /\ csEmpty' = csEmpty \cup {"creds"}
          /\ csSalts' = csSalts + 1
          /\ UNCHANGED <<csMem, csCookie, csOld>>
     ELSE /\ csMem' = ReloadUserCreds(csFile) /\ csCookie' = {} /\ csOld' = FALSE
          /\ UNCHANGED <<csUp, csFile, csEmpty, csSaving, csSalts>>
  /\ UNCHANGED <<csKeys, csHeld, csIssued, csTold, csServed, csApp, csCrashes>>

\* The open file is written, if the disk takes it, and read back; the server
\* has one thread, so no other request came in between.
FinishSave(written) ==
  /\ csUp = "saving" /\ csUp' = "up" /\ csSaving' = {}
  /\ csFile' = IF written THEN {SavedCreds(p) : p \in csSaving} ELSE {}
  /\ csEmpty' = IF written THEN csEmpty \ {"creds"} ELSE csEmpty
  /\ csTold' = IF written THEN csSaving ELSE csTold
  /\ csMem' = ReloadUserCreds(csFile') /\ csCookie' = {} /\ csOld' = FALSE
  /\ UNCHANGED <<csKeys, csHeld, csIssued, csSalts, csServed, csApp, csCrashes>>

\* Requests that change nothing this module keeps.
CallsOnly(c, part) == Serves(c, part) /\ UNCHANGED <<csUp, csDisk, csMem, csLogin, csSalts, csTold, csApp, csCrashes>>
DeviceRequest(c) == CallsOnly(c, "devices")
ReadRequest(c) == CallsOnly(c, "read")
SettingsRequest(c) == CallsOnly(c, "settings")
PairingRequest(c) == CallsOnly(c, "pairing")

LaunchApp(c, ok) ==
  /\ Serves(c, "app") /\ csApp' = (csApp \/ ok)
  /\ UNCHANGED <<csUp, csDisk, csMem, csLogin, csSalts, csTold, csCrashes>>

UnpairAllRequest(c) ==
  /\ Serves(c, "devices") /\ csApp' = FALSE
  /\ UNCHANGED <<csUp, csDisk, csMem, csLogin, csSalts, csTold, csCrashes>>

\* restart and quit end the application first.
Quit(c) ==
  /\ Serves(c, "host") /\ csApp' = FALSE /\ Forgets
  /\ UNCHANGED <<csDisk, csHeld, csIssued, csSalts, csTold, csCrashes>>

CsNext ==
  \/ Start \/ Crash \/ CookieAges
  \/ \E f \in {"pkey", "cert"} : OpenKeyFile(f) \/ \E w \in BOOLEAN : WriteKeyFile(f, w)
  \/ \E w \in BOOLEAN : FinishSave(w)
  \/ \E c \in CsClients :
       \/ \E p \in CsPasswords : Login(c, p)
       \/ \E p, q \in CsPasswords, o \in BOOLEAN : SavePassword(c, p, q, o)
       \/ CookieExpires(c) \/ DeviceRequest(c) \/ ReadRequest(c) \/ SettingsRequest(c) \/ PairingRequest(c)
       \/ UnpairAllRequest(c) \/ Quit(c)
       \/ \E ok \in BOOLEAN : LaunchApp(c, ok)

CsSpec == CsInit /\ [][CsNext]_csVars

-----------------------------------------------------------------------------
\* A request is let through only for the browser that logged in last, with a
\* cookie no older than the limit that was given for the password now set.
LoggedInWithCurrentPassword ==
  \A s \in csServed' : csServed' # csServed =>
    /\ s.raw = Len(csIssued) /\ ~s.aged
    /\ \E m \in csMem : m.hash = Hash(csIssued[s.raw], m.salt)

OpensLogin(password) == \E m \in csMem : m.hash = Hash(password, m.salt)

\* The last password that reached the disk opens the next login, also after
\* the process was killed and started again; or a later save was cut off and
\* left the file empty, and the server runs with no password at all.
SavedPasswordWorks ==
  csUp = "up" => \A p \in csTold : OpensLogin(p) \/ (csMem = {} /\ "creds" \in csEmpty)

\* Whenever the process is not in create_creds, its two key files belong
\* together, or the next start makes both anew, or one of them was cut and
\* never written, with which no later start succeeds.
KeyPairMatches ==
  csUp \in {"down", "up", "saving"} =>
    \/ KeysMissing /\ csUp = "down"
    \/ {"pkey", "cert"} \cap csEmpty # {} /\ csUp = "down"
    \/ csKeys.pkey = csKeys.cert

\* The process never ends on request with an application left running.
NothingLeftRunning == csUp \notin {"up", "saving"} => ~csApp

\* What is left on disk wherever the process is killed, told to end or fails
\* to write: the last saved password or none, a key pair that matches or one
\* that cannot be used; and no application without a host.
CredentialsConsistent == SavedPasswordWorks /\ KeyPairMatches /\ NothingLeftRunning
=============================================================================
