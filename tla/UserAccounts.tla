---------------------------- MODULE UserAccounts ----------------------------
(***************************************************************************)
(* The account requests of the HTTP API: setting the mint, setting quote   *)
(* locking, and buying a username with a Cashu token.  Each handler reads  *)
(* the user's row, awaits other services, and writes the whole row or one  *)
(* column of it; nothing holds a lock in between.  Mint information is     *)
(* kept in a table of its own for an hour and fetched again after that.    *)
(*                                                                         *)
(* The instance sells usernames: usernameConfig is enabled and its amount  *)
(* is not 0.  A request names a user, which its NIP-98 or JWT              *)
(* authentication has established.                                         *)
(***************************************************************************)
EXTENDS TLC

CONSTANTS
  Pubkeys,    \* the authenticated users
  Mints,      \* the mints themselves
  Urls,       \* mint URLs, as users spell them
  MintAt,     \* [Urls -> Mints], the mint that answers at a URL
  Normal,     \* [Urls -> Urls], normalizeUrl
  DefaultUrl, \* config.mintUrl
  Names,      \* usernames, in lower case and trimmed
  Tokens,     \* valid payments at the required mint
  Requests,   \* the requests that may be made, each once
  NoName,     \* a row without a name (NULL)
  NoUser,     \* no row
  NoInfo      \* mint information that was never fetched

User == [name : Names \cup {NoName}, mintUrl : Urls, lockQuote : BOOLEAN]

(* Normalizing respells a URL of a mint.  It need not come to an end:       *)
(* "https://m//" becomes "https://m/", and that "https://m".                *)
ASSUME AccountsAssumption ==
  /\ MintAt \in [Urls -> Mints]
  /\ Normal \in [Urls -> Urls]
  /\ \A u \in Urls : MintAt[Normal[u]] = MintAt[u]
  /\ DefaultUrl \in Urls
  /\ NoName \notin Names
  /\ NoUser \notin User

VARIABLES
  users,      \* [Pubkeys -> User or NoUser], table l_users
  mints,      \* [Urls -> Info or NoInfo], table mints
  request,    \* [Requests -> the handler's local variables]
  advertised, \* [Mints -> BOOLEAN], whether the mint announces NUT-20 now
  unspent,    \* the tokens the mint still accepts
  proofs,     \* the tokens whose proofs are in table proofs
  offered,    \* history: mints that announced NUT-20 to this server
  granted,    \* history: the names bought, with buyer and token
  overtaken   \* history: requests whose user's name changed after their read

vars == <<users, mints, request, advertised, unspent, proofs,
          offered, granted, overtaken>>

-----------------------------------------------------------------------------
Info == [locking : BOOLEAN, expired : BOOLEAN]

Idle == [at |-> "idle"]

(* A settings request: the user object it will save, the mint URL it checks *)
(* and whether that mint must support locking.                              *)
Setting == [at : {"check", "load", "store", "save"}, pubkey : Pubkeys,
            sets : {"lockQuote", "mintUrl"}, user : User, url : Urls,
            shouldLock : BOOLEAN, locking : BOOLEAN]

Purchase == [at : {"redeem", "keep", "name"}, pubkey : Pubkeys,
             name : Names, token : Tokens]

TypeOK ==
  /\ users \in [Pubkeys -> User \cup {NoUser}]
  /\ mints \in [Urls -> Info \cup {NoInfo}]
  /\ request \in [Requests -> Setting \cup Purchase \cup [at : {"idle", "done"}]]
  /\ advertised \in [Mints -> BOOLEAN]
  /\ unspent \subseteq Tokens
  /\ proofs \subseteq Tokens \ unspent
  /\ offered \subseteq Mints
  /\ granted \subseteq Pubkeys \X Names \X Tokens
  /\ overtaken \subseteq Requests

Init ==
  /\ users = [p \in Pubkeys |-> NoUser]
  /\ mints = [u \in Urls |-> NoInfo]
  /\ request = [r \in Requests |-> Idle]
  /\ advertised \in [Mints -> BOOLEAN]
  /\ unspent = Tokens
  /\ proofs = {}
  /\ offered = {}
  /\ granted = {}
  /\ overtaken = {}

End(r) == request' = [request EXCEPT ![r] = [at |-> "done"]]

Continue(r, at) == request' = [request EXCEPT ![r].at = at]

-----------------------------------------------------------------------------
(* The user a handler works on: a copy of the row, or createNewUser's.     *)

NewUser == [name |-> NoName, mintUrl |-> DefaultUrl, lockQuote |-> FALSE]

(* Fault: castRowToUser leaves the name out.                               *)
ReadUserNameless(p) ==
  IF users[p] = NoUser THEN NewUser ELSE [users[p] EXCEPT !.name = NoName]

ReadUser(p) == IF users[p] = NoUser THEN NewUser ELSE users[p]

(* updateUserSettingLock: the mint checked is the one the user has.        *)
SetLock(r, p, lock) ==
  /\ request[r] = Idle
  /\ LET user == ReadUser(p) IN
     request' = [request EXCEPT ![r] =
       [at |-> "check", pubkey |-> p, url |-> user.mintUrl, shouldLock |-> lock,
        user |-> [user EXCEPT !.lockQuote = lock], sets |-> "lockQuote",
        locking |-> FALSE]]
  /\ UNCHANGED <<users, mints, advertised, unspent, proofs, offered, granted, overtaken>>

(* updateUserMintSetting: the URL checked is normalized, the one stored is  *)
(* the one the request came with.                                          *)
SetMint(r, p, url) ==
  /\ request[r] = Idle
  /\ LET user == ReadUser(p) IN
     request' = [request EXCEPT ![r] =
       [at |-> "check", pubkey |-> p, url |-> Normal[url], shouldLock |-> user.lockQuote,
        user |-> [user EXCEPT !.mintUrl = url], sets |-> "mintUrl",
        locking |-> FALSE]]
  /\ UNCHANGED <<users, mints, advertised, unspent, proofs, offered, granted, overtaken>>

-----------------------------------------------------------------------------
(* MintService.checkMintUrl. *)

(* A mint that must support locking and does not ends the request.         *)
Decide(r, locking) ==
  IF request[r].shouldLock /\ ~locking THEN End(r) ELSE Continue(r, "save")

(* The mint's row is there and not older than an hour.                     *)
FindMint(r) ==
  /\ request[r].at = "check"
  /\ LET info == mints[request[r].url] IN
     IF info = NoInfo \/ info.expired
       THEN Continue(r, "load")
       ELSE Decide(r, info.locking)
  /\ UNCHANGED <<users, mints, advertised, unspent, proofs, offered, granted, overtaken>>

(* getMintInfo normalizes the URL, which may be so already, and answers.   *)
LoadInfo(r) ==
  /\ request[r].at = "load"
  /\ LET mint == MintAt[Normal[request[r].url]] IN
     /\ request' = [request EXCEPT ![r].at = "store", ![r].locking = advertised[mint]]
     /\ offered' = IF advertised[mint] THEN offered \cup {mint} ELSE offered
  /\ UNCHANGED <<users, mints, advertised, unspent, proofs, granted, overtaken>>

(* saveMint, and the decision on the information just fetched.             *)
StoreInfo(r) ==
  /\ request[r].at = "store"
  /\ mints' = [mints EXCEPT ![request[r].url] =
       [locking |-> request[r].locking, expired |-> FALSE]]
  /\ Decide(r, request[r].locking)
  /\ UNCHANGED <<users, advertised, unspent, proofs, offered, granted, overtaken>>

-----------------------------------------------------------------------------
(* No other row has this name: UNIQUE (name), which NULLs do not violate.  *)
NameIsFree(p, name) ==
  \A other \in Pubkeys \ {p} :
    users[other] # NoUser => users[other].name # name \/ name = NoName

(* The settings requests of p that have read its row and not saved it.     *)
Holding(p) ==
  { r \in Requests : request[r].at \in {"check", "load", "store", "save"}
                     /\ request[r].pubkey = p }

(* A write that changes the name of p leaves older copies behind.          *)
WriteRow(p, row) ==
  /\ users' = [users EXCEPT ![p] = row]
  /\ overtaken' = IF row.name = ReadUser(p).name THEN overtaken
                                                 ELSE overtaken \cup Holding(p)

(* Fault: only the column that was set is written, as upsertLockQuote does. *)
SavedColumn(r) ==
  LET old == ReadUser(request[r].pubkey)
      new == request[r].user
  IN  IF request[r].sets = "lockQuote"
        THEN [old EXCEPT !.lockQuote = new.lockQuote]
        ELSE [old EXCEPT !.mintUrl = new.mintUrl]

(* saveUser writes the whole row, the name that was read included.         *)
SavedRow(r) == request[r].user

SaveUser(r) ==
  LET p == request[r].pubkey IN
  /\ request[r].at = "save"
  /\ End(r)
  /\ IF NameIsFree(p, SavedRow(r).name)
       THEN WriteRow(p, SavedRow(r))
       ELSE UNCHANGED <<users, overtaken>>
  /\ UNCHANGED <<mints, advertised, unspent, proofs, offered, granted>>

-----------------------------------------------------------------------------
(* usernameController. *)

(* The name as sent: in its stored form, or spelled in another way, in     *)
(* which case the lookup misses the row it would conflict with.            *)
Exists(name, canonical) ==
  canonical /\ \E p \in Pubkeys : users[p] # NoUser /\ users[p].name = name

(* A name that exists is refused, a missing or invalid payment is asked    *)
(* for; both end the request before the token is touched.                  *)
BuyName(r, p, name, canonical, token) ==
  /\ request[r] = Idle
  /\ ~Exists(name, canonical)
  /\ request' = [request EXCEPT ![r] =
       [at |-> "redeem", pubkey |-> p, name |-> name, token |-> token]]
  /\ UNCHANGED <<users, mints, advertised, unspent, proofs, offered, granted, overtaken>>

(* wallet.receive exchanges the token at the mint.                         *)
Accepted(token) == token \in unspent

RedeemToken(r) ==
  /\ request[r].at = "redeem"
  /\ Accepted(request[r].token)
  /\ unspent' = unspent \ {request[r].token}
  /\ Continue(r, "keep")
  /\ UNCHANGED <<users, mints, advertised, proofs, offered, granted, overtaken>>

(* Fault: the request goes on although the proofs were not saved.          *)
SaveProofsOrNot(r) ==
  /\ request[r].at = "keep"
  /\ proofs' \in {proofs, proofs \cup {request[r].token}}
  /\ Continue(r, "name")
  /\ UNCHANGED <<users, mints, advertised, unspent, offered, granted, overtaken>>

SaveProofs(r) ==
  /\ request[r].at = "keep"
  /\ proofs' = proofs \cup {request[r].token}
  /\ Continue(r, "name")
  /\ UNCHANGED <<users, mints, advertised, unspent, offered, granted, overtaken>>

(* upsertUsername: one column of an existing row, or a new row.            *)
UpsertUsername(r) ==
  LET p == request[r].pubkey
      name == request[r].name
  IN
  /\ request[r].at = "name"
  /\ End(r)
  /\ IF NameIsFree(p, name)
       THEN /\ WriteRow(p, [ReadUser(p) EXCEPT !.name = name])
            /\ granted' = granted \cup {<<p, name, request[r].token>>}
       ELSE UNCHANGED <<users, granted, overtaken>>
  /\ UNCHANGED <<mints, advertised, unspent, proofs, offered>>

-----------------------------------------------------------------------------
(* A statement or a call to a mint fails, or the process stops: the handler *)
(* ends and what it wrote stays.                                           *)
Fail(r) ==
  /\ request[r].at \notin {"idle", "done"}
  /\ End(r)
  /\ UNCHANGED <<users, mints, advertised, unspent, proofs, offered, granted, overtaken>>

(* An hour passes since the information of a mint was fetched.             *)
InfoExpires(url) ==
  /\ mints[url] # NoInfo /\ ~mints[url].expired
  /\ mints' = [mints EXCEPT ![url].expired = TRUE]
  /\ UNCHANGED <<users, request, advertised, unspent, proofs, offered, granted, overtaken>>

(* A mint starts or stops to announce NUT-20.                              *)
MintChanges(mint) ==
  /\ advertised' = [advertised EXCEPT ![mint] = ~@]
  /\ UNCHANGED <<users, mints, request, unspent, proofs, offered, granted, overtaken>>

Next ==
  \/ \E r \in Requests :
       \/ \E p \in Pubkeys :
            \/ \E lock \in BOOLEAN : SetLock(r, p, lock)
            \/ \E url \in Urls : SetMint(r, p, url)
            \/ \E name \in Names, canonical \in BOOLEAN, token \in Tokens :
                 BuyName(r, p, name, canonical, token)
       \/ FindMint(r) \/ LoadInfo(r) \/ StoreInfo(r) \/ SaveUser(r)
       \/ RedeemToken(r) \/ SaveProofs(r) \/ UpsertUsername(r)
       \/ Fail(r)
  \/ \E url \in Urls : InfoExpires(url)
  \/ \E mint \in Mints : MintChanges(mint)

Spec == Init /\ [][Next]_vars

-----------------------------------------------------------------------------
(* Quotes are locked only at a mint that announced, at some time, that it  *)
(* can: two settings requests that overlap never combine the mint of one   *)
(* with the lock of the other, because each writes the pair it checked.    *)
LockedWhereOffered ==
  \A p \in Pubkeys :
    users[p] # NoUser /\ users[p].lockQuote => MintAt[users[p].mintUrl] \in offered

(* A name in the table was bought by its owner, with proofs the server has *)
(* saved.                                                                  *)
NamesWereBought ==
  \A p \in Pubkeys :
    users[p] # NoUser /\ users[p].name # NoName =>
      \E token \in proofs : <<p, users[p].name, token>> \in granted

(* Two requests that carry the same token, or a repeated one, do not both  *)
(* succeed.                                                                *)
TokenBuysOnce ==
  \A x, y \in granted : x[3] = y[3] => x = y

(* No name is had for nothing, and a token buys one name, once: whatever   *)
(* failed on the way, and whatever older copy of the row a settings        *)
(* request wrote back.                                                     *)
NamesArePaidFor == NamesWereBought /\ TokenBuysOnce

(* A settings request leaves the name alone, unless the name was changed   *)
(* after the request had read the row: only then may its save bring an     *)
(* older name back, or take away a name just bought.                       *)
SettingsKeepTheName ==
  [][\A r \in Requests \ overtaken, p \in Pubkeys :
       /\ request[r].at = "save" /\ request'[r].at = "done"
       /\ request[r].pubkey = p /\ users[p] # NoUser
       => users'[p].name = users[p].name]_vars
=============================================================================
