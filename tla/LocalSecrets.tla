---------------------------- MODULE LocalSecrets ----------------------------
(***************************************************************************)
(* The two secrets the commands of one user share: the key that signs      *)
(* local receipts, a file (presence.py), and the provider's token, a lease *)
(* in the login keychain (credential_cache.py).  Neither has a lock.       *)
(***************************************************************************)
EXTENDS Integers, FiniteSets

CONSTANTS
  Users,      \* processes of the user
  NoSecret,
  Duration,   \* of a lease, in ticks
  MaxClock,   \* bound on the clock
  MaxLeases   \* bound on the leases stored

ASSUME SecretsAssumption ==
  /\ Users # {} /\ NoSecret \notin Users
  /\ {"missing", "empty"} \cap Users = {} /\ NoSecret \notin {"missing", "empty"}
  /\ Duration \in Nat \ {0} /\ MaxClock \in Nat /\ MaxLeases \in Nat

VARIABLES
  keyFile,    \* "missing", "empty" or the process that wrote it
  holds,      \* [Users -> key]
  signing,    \* [Users -> place in _presence_key]
  signed,     \* history: keys that receipts were signed with
  keychain,   \* the item of the service and the account
  clock,
  stored,     \* leases stored so far
  asks,       \* [Users -> command, place and what it found]
  handed,     \* history: tokens handed out
  revoked     \* history: newest lease when the last clear that succeeded began

keyState   == <<keyFile, holds, signing, signed>>
leaseState == <<keychain, clock, stored, asks, handed, revoked>>
secretVars == <<keyState, leaseState>>

----------------------------------------------------------------------------
(* _presence_key.  A key is told apart by the process that drew it. *)

Goes(u, place) == signing' = [signing EXCEPT ![u] = place]
Takes(u, key) == /\ holds' = [holds EXCEPT ![u] = key]
                 /\ Goes(u, "ready")

OpenKey(u, create) ==
  /\ signing[u] = "none"
  /\ IF keyFile = "missing" THEN Goes(u, IF create THEN "create" ELSE "refused")
                            ELSE Goes(u, "opened")
  /\ UNCHANGED <<keyFile, holds, signed, leaseState>>

\* Mutant: without O_EXCL, who finds no file makes one.
Bug_NotExclusive(u) ==
  /\ signing[u] = "create"
  /\ keyFile' = "empty" /\ Goes(u, "created")
  /\ UNCHANGED <<holds, signed, leaseState>>

\* O_CREAT | O_EXCL; a file that exists by now is opened for reading instead.
CreateKey(u) ==
  /\ signing[u] = "create"
  /\ IF keyFile = "missing" THEN keyFile' = "empty" /\ Goes(u, "created")
                            ELSE keyFile' = keyFile /\ Goes(u, "opened")
  /\ UNCHANGED <<holds, signed, leaseState>>

WriteKey(u) ==
  /\ signing[u] = "created"
  /\ keyFile' = u /\ Takes(u, u)
  /\ UNCHANGED <<signed, leaseState>>

\* fstat and read: a file of another size than 32 is refused.
ReadKey(u) ==
  /\ signing[u] = "opened"
  /\ IF keyFile = "empty" THEN Goes(u, "refused") /\ holds' = holds
                          ELSE Takes(u, keyFile)
  /\ UNCHANGED <<keyFile, signed, leaseState>>

\* _local_signature; the next signature asks for the key again.
Sign(u) ==
  /\ signing[u] = "ready"
  /\ signed' = signed \cup {holds[u]}
  /\ holds' = [holds EXCEPT ![u] = NoSecret] /\ Goes(u, "none")
  /\ UNCHANGED <<keyFile, leaseState>>

\* The command ends, or dies between any two steps; the file stays.
LeaveKey(u) ==
  /\ signing[u] # "none"
  /\ holds' = [holds EXCEPT ![u] = NoSecret] /\ Goes(u, "none")
  /\ UNCHANGED <<keyFile, signed, leaseState>>

----------------------------------------------------------------------------
(* KeychainLease. *)

Idling == [does |-> "none", at |-> "none", issued |-> 0, item |-> NoSecret,
           floor |-> 0, newest |-> 0]

Ask(u, record) == asks' = [asks EXCEPT ![u] = record]

\* read, clear or store; a store dates its lease before it clears the old one.
StartAsk(u, command) ==
  /\ asks[u] = Idling
  /\ Ask(u, [does |-> command, at |-> IF command = "read" THEN "look" ELSE "find",
             issued |-> IF command = "store" THEN clock ELSE 0, item |-> NoSecret, floor |-> revoked, newest |-> stored])
  /\ UNCHANGED <<keyState, keychain, clock, stored, handed, revoked>>

\* read: what _find returned is decoded.
LookUp(u) ==
  /\ asks[u].at = "look"
  /\ Ask(u, IF keychain = NoSecret THEN Idling
            ELSE [asks[u] EXCEPT !.at = "check", !.item = keychain])
  /\ UNCHANGED <<keyState, keychain, clock, stored, handed, revoked>>

Live(item) == clock < item.expires

\* A lease that is over is cleared: by a look of its own.
CheckLease(u) ==
  /\ asks[u].at = "check"
  /\ IF Live(asks[u].item)
     THEN /\ Ask(u, Idling)
          /\ handed' = handed \cup {[lease |-> asks[u].item.lease, at |-> clock,
                                     until |-> asks[u].item.expires,
                                     floor |-> asks[u].floor]}
     ELSE Ask(u, [asks[u] EXCEPT !.at = "find"]) /\ handed' = handed
  /\ UNCHANGED <<keyState, keychain, clock, stored, revoked>>

\* What follows a clear that succeeded.
Cleared(u) ==
  /\ revoked' = IF asks[u].does = "read" THEN revoked
                ELSE IF asks[u].newest > revoked THEN asks[u].newest ELSE revoked
  /\ Ask(u, IF asks[u].does = "store" THEN [asks[u] EXCEPT !.at = "add"] ELSE Idling)

FindItem(u) ==
  /\ asks[u].at = "find"
  /\ IF keychain = NoSecret THEN Cleared(u)
     ELSE /\ Ask(u, [asks[u] EXCEPT !.at = "delete", !.item = keychain])
          /\ revoked' = revoked
  /\ UNCHANGED <<keyState, keychain, clock, stored, handed>>

\* Mutant: the status of the deletion is not looked at.
Bug_IgnoreStatus(u) ==
  /\ asks[u].at = "delete"
  /\ keychain' \in {keychain} \cup (IF keychain = asks[u].item THEN {NoSecret} ELSE {})
  /\ Cleared(u)
  /\ UNCHANGED <<keyState, clock, stored, handed>>

\* SecKeychainItemDelete of the item that was found; any status but 0 raises.
DeleteItem(u) ==
  /\ asks[u].at = "delete"
  /\ \/ keychain = asks[u].item /\ keychain' = NoSecret /\ Cleared(u)
     \/ UNCHANGED <<keychain, revoked>> /\ Ask(u, Idling)
  /\ UNCHANGED <<keyState, clock, stored, handed>>

\* A duplicate, or any other status but 0, raises: the old item is gone all the same.
AddItem(u) ==
  /\ asks[u].at = "add"
  /\ Ask(u, Idling)
  /\ \/ /\ keychain = NoSecret /\ stored < MaxLeases
        /\ stored' = stored + 1
        /\ keychain' = [lease |-> stored', expires |-> asks[u].issued + Duration]
     \/ UNCHANGED <<keychain, stored>>
  /\ UNCHANGED <<keyState, clock, handed, revoked>>

Elapse ==
  /\ clock < MaxClock
  /\ clock' = clock + 1
  /\ UNCHANGED <<keyState, keychain, stored, asks, handed, revoked>>

----------------------------------------------------------------------------
SecretsInit ==
  /\ keyFile = "missing" /\ signed = {}
  /\ holds = [u \in Users |-> NoSecret] /\ signing = [u \in Users |-> "none"]
  /\ keychain = NoSecret /\ clock = 0 /\ stored = 0 /\ revoked = 0 /\ handed = {}
  /\ asks = [u \in Users |-> Idling]

\* Bound: a behaviour is about the key or about the token, which share nothing.
SecretsNext ==
  \/ /\ stored = 0 /\ asks = [u \in Users |-> Idling] /\ clock = 0
     /\ \E u \in Users :
          \/ CreateKey(u) \/ WriteKey(u) \/ ReadKey(u) \/ Sign(u) \/ LeaveKey(u)
          \/ \E create \in BOOLEAN : OpenKey(u, create)
  \/ /\ keyFile = "missing" /\ signing = [u \in Users |-> "none"]
     /\ \/ Elapse
        \/ \E u \in Users :
             \/ LookUp(u) \/ CheckLease(u) \/ FindItem(u) \/ DeleteItem(u) \/ AddItem(u)
             \/ \E command \in {"read", "clear", "store"} : StartAsk(u, command)

----------------------------------------------------------------------------
\* Types of the key file and of the lease.
SecretsTypeOK ==
  /\ keyFile \in {"missing", "empty"} \cup Users
  /\ signing \in [Users -> {"none", "create", "created", "opened", "ready", "refused"}]
  /\ holds \in [Users -> Users \cup {NoSecret}] /\ signed \subseteq Users
  /\ keychain # NoSecret => keychain.lease \in 1 .. stored
  /\ clock \in 0 .. MaxClock /\ stored \in 0 .. MaxLeases /\ revoked \in 0 .. stored
  /\ \A u \in Users :
       asks[u].at \in {"none", "look", "check", "find", "delete", "add"}

\* Every receipt that was ever signed verifies with the key that lies in the file,
\* and no two processes hold different keys (_presence_key).
KeysAgree ==
  /\ \A key \in signed : key = keyFile
  /\ \A u \in Users : holds[u] \in {NoSecret, keyFile}

\* A token is handed out only while its lease runs, and never one that a clear, or
\* the clear of a store, had removed for its caller before the read began (KeychainLease).
OnlyLiveTokens ==
  \A token \in handed : token.at < token.until /\ token.lease > token.floor
============================================================================
