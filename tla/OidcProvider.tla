---------------------------- MODULE OidcProvider ----------------------------
(***************************************************************************)
(* The start of a server: the welcome page is copied beside the start of   *)
(* the OpenID provider, whose key chain is loaded, or generated and then   *)
(* saved, before the first request is served. The process may end at any   *)
(* moment; the files stay.                                                 *)
(***************************************************************************)
EXTENDS Naturals, FiniteSets

CONSTANTS
  NoKeys,         \* no key chain
  Torn,           \* a configuration file that was cut off while written
  KeyChains,      \* the key chains a generator may come up with
  SiteFiles,      \* the files of the server template
  IndexPage,      \* the one of them that the check looks for
  MaxCrashes      \* how often the process ends

ASSUME StartAssumption ==
  /\ NoKeys \notin KeyChains
  /\ Torn \notin KeyChains
  /\ Torn # NoKeys
  /\ IndexPage \in SiteFiles
  /\ MaxCrashes \in Nat

VARIABLES
  phase,        \* how far the start has come
  config,       \* the configuration file: a key chain, NoKeys or Torn
  keys,         \* the key chain in memory
  generated,    \* the key chains generated so far
  signed,       \* the key chains that tokens were signed with
  welcome,      \* what ensureWelcomePage is at
  site,         \* the files of the server's own site
  rendered,     \* whether its index page was processed
  interrupted,  \* whether ensureWelcomePage was cut off
  hasWelcome,   \* whether this server is to have a welcome page
  crashes

pvars == <<phase, config, keys, generated, signed,
           welcome, site, rendered, interrupted, hasWelcome, crashes>>

Phases == {"down", "loading", "keychain", "saving", "serving"}

Serving == phase = "serving"

ProviderInit ==
  /\ phase = "down"
  /\ config = NoKeys
  /\ keys = NoKeys
  /\ generated = {}
  /\ signed = {}
  /\ welcome = "idle"
  /\ site = {}
  /\ rendered = FALSE
  /\ interrupted = FALSE
  /\ hasWelcome \in BOOLEAN
  /\ crashes = 0

-----------------------------------------------------------------------------
(* The key chain.                                                          *)

\* The welcome page is not awaited: its steps mix with all that follows.
CreateApp ==
  /\ phase = "down"
  /\ welcome = "idle"
  /\ phase' = "loading"
  /\ welcome' = IF hasWelcome /\ IndexPage \notin site
                  THEN "copying" ELSE "idle"
  /\ UNCHANGED <<config, keys, generated, signed,
                 site, rendered, interrupted, hasWelcome, crashes>>

\* Mutant: whatever the file holds is taken for a key chain.
LoadUnparsed ==
  /\ phase = "loading"
  /\ phase' = "keychain"
  /\ keys' = config
  /\ UNCHANGED <<config, generated, signed,
                 welcome, site, rendered, interrupted, hasWelcome, crashes>>

\* A file that does not parse throws, and there is no application to mount:
\* the process ends once the welcome page is done.
LoadProviderConfig ==
  /\ phase = "loading"
  /\ IF config = Torn
       THEN phase' = "down" /\ UNCHANGED keys
       ELSE phase' = "keychain" /\ keys' = config
  /\ UNCHANGED <<config, generated, signed,
                 welcome, site, rendered, interrupted, hasWelcome, crashes>>

\* Which chain it is makes no difference, but it is a new one.
NewKeyChain == CHOOSE chain \in KeyChains : chain \notin generated

\* Mutant: the chain that was loaded is not looked at.
GenerateAlways ==
  /\ phase = "keychain"
  /\ KeyChains \ generated # {}
  /\ keys' = NewKeyChain
  /\ generated' = generated \cup {NewKeyChain}
  /\ phase' = "saving"
  /\ UNCHANGED <<config, signed, welcome, site, rendered, interrupted,
                 hasWelcome, crashes>>

InitProviderKeychain ==
  /\ phase = "keychain"
  /\ IF keys = NoKeys
       THEN /\ KeyChains \ generated # {}
            /\ keys' = NewKeyChain
            /\ generated' = generated \cup {NewKeyChain}
            /\ phase' = "saving"
       ELSE phase' = "serving" /\ UNCHANGED <<keys, generated>>
  /\ UNCHANGED <<config, signed, welcome, site, rendered, interrupted,
                 hasWelcome, crashes>>

\* Mutant: the chain stays in memory.
ServeUnsaved ==
  /\ phase = "saving"
  /\ phase' = "serving"
  /\ UNCHANGED <<config, keys, generated, signed,
                 welcome, site, rendered, interrupted, hasWelcome, crashes>>

SaveProviderConfig ==
  /\ phase = "saving"
  /\ config' = keys
  /\ phase' = "serving"
  /\ UNCHANGED <<keys, generated, signed,
                 welcome, site, rendered, interrupted, hasWelcome, crashes>>

\* A file that cannot be read, made or written stops the start.
StartFails ==
  /\ phase \in {"loading", "saving"}
  /\ crashes < MaxCrashes
  /\ crashes' = crashes + 1
  /\ phase' = "down"
  /\ keys' = NoKeys
  /\ config' \in IF phase = "saving" THEN {config, Torn} ELSE {config}
  /\ UNCHANGED <<generated, signed, welcome, site, rendered, interrupted,
                 hasWelcome>>

\* The provider signs an identity token.
Sign == signed' = signed \cup {keys}

-----------------------------------------------------------------------------
(* The welcome page.                                                       *)

\* Mutant: the last file copied is not followed by the page's processing.
CopyOnly(f) ==
  /\ welcome = "copying"
  /\ f \in SiteFiles \ site
  /\ site' = site \cup {f}
  /\ welcome' = IF site' = SiteFiles THEN "idle" ELSE "copying"
  /\ UNCHANGED <<phase, config, keys, generated, signed,
                 rendered, interrupted, hasWelcome, crashes>>

\* Mutant: nobody notices that the last file was copied.
CopyOnAndOn(f) ==
  /\ welcome = "copying"
  /\ f \in SiteFiles \ site
  /\ site' = site \cup {f}
  /\ UNCHANGED <<phase, config, keys, generated, signed, welcome,
                 rendered, interrupted, hasWelcome, crashes>>

CopyTemplateContainer(f) ==
  /\ welcome = "copying"
  /\ f \in SiteFiles \ site
  /\ site' = site \cup {f}
  /\ welcome' = IF site' = SiteFiles THEN "processing" ELSE "copying"
  /\ UNCHANGED <<phase, config, keys, generated, signed,
                 rendered, interrupted, hasWelcome, crashes>>

ProcessHandlebarFile ==
  /\ welcome = "processing"
  /\ rendered' = TRUE
  /\ welcome' = "idle"
  /\ UNCHANGED <<phase, config, keys, generated, signed,
                 site, interrupted, hasWelcome, crashes>>

\* Nobody waits for the promise, so a failed copy only ends itself.
WelcomeFails ==
  /\ welcome # "idle"
  /\ crashes < MaxCrashes
  /\ crashes' = crashes + 1
  /\ welcome' = "idle"
  /\ interrupted' = TRUE
  /\ UNCHANGED <<phase, config, keys, generated, signed, site, rendered,
                 hasWelcome>>

-----------------------------------------------------------------------------
ProcessEnds ==
  /\ phase # "down"
  /\ crashes < MaxCrashes
  /\ crashes' = crashes + 1
  /\ phase' = "down"
  /\ keys' = NoKeys
  /\ config' \in IF phase = "saving" THEN {config, Torn} ELSE {config}
  /\ welcome' = "idle"
  /\ interrupted' = (interrupted \/ welcome # "idle")
  /\ UNCHANGED <<generated, signed, site, rendered, hasWelcome>>

Starting ==
  \/ CreateApp
  \/ LoadProviderConfig
  \/ InitProviderKeychain
  \/ SaveProviderConfig
  \/ StartFails
  \/ \E f \in SiteFiles : CopyTemplateContainer(f)
  \/ ProcessHandlebarFile
  \/ WelcomeFails

-----------------------------------------------------------------------------
(* Properties.                                                             *)

\* The types of the start.
ProviderTypeOK ==
  /\ phase \in Phases
  /\ config \in KeyChains \cup {NoKeys, Torn}
  /\ keys \in KeyChains \cup {NoKeys}
  /\ generated \subseteq KeyChains
  /\ signed \subseteq KeyChains
  /\ welcome \in {"idle", "copying", "processing"}
  /\ site \subseteq SiteFiles
  /\ rendered \in BOOLEAN
  /\ interrupted \in BOOLEAN
  /\ hasWelcome \in BOOLEAN
  /\ crashes \in 0 .. MaxCrashes

\* No token outlives its key: what this server ever signed is signed with the
\* key chain it serves with now, however often and wherever it was stopped
\* (initialize saves what it generated before the first request).
TokensSurviveRestart == Serving => signed \subseteq {keys}

\* An index page that was copied but never processed, with nobody at it, was
\* left by a copy that was cut off: the check for the page never repairs it
\* (ensureWelcomePage).
WelcomeIsWhole ==
  IndexPage \in site /\ welcome = "idle" /\ ~rendered => interrupted

\* The key chains of all the processes are one identity, chosen once: a
\* configuration that was cut off never becomes another one (initialize).
Identity == INSTANCE ProviderIdentity
  WITH Identities <- KeyChains, NoIdentity <- NoKeys,
       identity <- IF config = Torn THEN NoKeys ELSE config

KeysChosenOnce == Identity!Spec

\* A copy that was begun is ended, by the page being processed or by a fault
\* (ensureWelcomePage and processHandlebarFile, awaited by nobody).
WelcomeEnds == welcome # "idle" ~> welcome = "idle"
=============================================================================
