------------------------ MODULE UserAccounts_proofs -------------------------
(***************************************************************************)
(* Proofs about UserAccounts, for any users, mint URLs, names and tokens   *)
(* and any number of overlapping requests.                                 *)
(***************************************************************************)
EXTENDS UserAccounts, TLAPS

-----------------------------------------------------------------------------
(* The strengthening.  A settings request carries the lock and the mint it *)
(* checks together; it may save them once that mint announced locking.     *)
SettingSteps == {"check", "load", "store", "save"}
EndSteps == {"idle", "done"}

LockInv(r) ==
  /\ request[r].at \in {"check", "load", "store"} =>
       /\ request[r].user.lockQuote => request[r].shouldLock
       /\ MintAt[request[r].url] = MintAt[request[r].user.mintUrl]
  /\ request[r].at = "store" /\ request[r].locking => MintAt[request[r].url] \in offered
  /\ request[r].at = "save" /\ request[r].user.lockQuote =>
       MintAt[request[r].user.mintUrl] \in offered

InfoInv ==
  \A u \in Urls : mints[u] # NoInfo /\ mints[u].locking => MintAt[u] \in offered

(* The name a request copied was bought, and is the current one unless the *)
(* request was overtaken.                                                  *)
Bought(p, name) == \E token \in proofs : <<p, name, token>> \in granted

CopyInv(r) ==
  request[r].at \in SettingSteps =>
    /\ request[r].user.name # NoName => Bought(request[r].pubkey, request[r].user.name)
    /\ r \notin overtaken => request[r].user.name = ReadUser(request[r].pubkey).name

(* A token that was exchanged belongs to one purchase until it is granted. *)
Redeemed(r) == request[r].at \in {"keep", "name"}

TokenInv(r) ==
  /\ request[r].at = "name" => request[r].token \in proofs
  /\ Redeemed(r) =>
       /\ request[r].token \notin unspent
       /\ \A x \in granted : x[3] # request[r].token
       /\ \A s \in Requests : Redeemed(s) /\ request[s].token = request[r].token => s = r

GrantInv == \A x \in granted : x[3] \notin unspent

RequestInv(r) == LockInv(r) /\ CopyInv(r) /\ TokenInv(r)

TableInv ==
  InfoInv /\ GrantInv /\ LockedWhereOffered /\ NamesWereBought /\ TokenBuysOnce

AccountsInv == TypeOK /\ TableInv /\ \A r \in Requests : RequestInv(r)

-----------------------------------------------------------------------------
(* Facts about the records. *)

LEMMA RequestTyped ==
  ASSUME TypeOK, NEW r \in Requests
  PROVE  /\ request[r].at \in SettingSteps => request[r] \in Setting
         /\ request[r].at \in {"redeem", "keep", "name"} => request[r] \in Purchase
BY DEF TypeOK, Setting, Purchase, SettingSteps

LEMMA SettingMoves ==
  ASSUME NEW x \in Setting, NEW a \in SettingSteps
  PROVE  [x EXCEPT !.at = a] \in Setting
BY DEF Setting, SettingSteps

LEMMA PurchaseMoves ==
  ASSUME NEW x \in Purchase, NEW a \in {"redeem", "keep", "name"}
  PROVE  [x EXCEPT !.at = a] \in Purchase
BY DEF Purchase

LEMMA ReadUserTyped ==
  ASSUME TypeOK, NEW p \in Pubkeys
  PROVE  ReadUser(p) \in User
BY AccountsAssumption DEF TypeOK, ReadUser, NewUser, User

(* A row, or the default user, has only a name and a lock it may have.     *)
LEMMA ReadUserSound ==
  ASSUME AccountsInv, NEW p \in Pubkeys
  PROVE  /\ ReadUser(p).lockQuote => MintAt[ReadUser(p).mintUrl] \in offered
         /\ ReadUser(p).name # NoName => Bought(p, ReadUser(p).name)
BY DEF AccountsInv, TableInv, LockedWhereOffered, NamesWereBought, ReadUser, NewUser, Bought

(* A step that leaves users, names and tokens alone and moves only request *)
(* r.                                                                      *)
LEMMA OneRequestMoves ==
  ASSUME AccountsInv, NEW r \in Requests,
         NEW v \in Setting \cup Purchase \cup [at : {"idle", "done"}],
         request' = [request EXCEPT ![r] = v],
         UNCHANGED <<users, advertised, unspent, proofs, granted, overtaken>>,
         mints' \in [Urls -> Info \cup {NoInfo}], InfoInv',
         offered \subseteq offered', offered' \subseteq Mints,
         RequestInv(r)'
  PROVE  AccountsInv'
<1>1. TypeOK'
  BY DEF AccountsInv, TypeOK
<1>2. request'[r] = v /\ \A s \in Requests \ {r} : request'[s] = request[s]
  BY DEF AccountsInv, TypeOK
<1>3. TableInv'
  BY DEF AccountsInv, TableInv, GrantInv, LockedWhereOffered, NamesWereBought, TokenBuysOnce
<1>4. ASSUME NEW s \in Requests \ {r} PROVE RequestInv(s)'
  <2>1. LockInv(s)'
    BY <1>2 DEF AccountsInv, RequestInv, LockInv
  <2>2. CopyInv(s)'
    BY <1>2 DEF AccountsInv, RequestInv, CopyInv, Bought, ReadUser
  <2>3. TokenInv(s)'
    <3>1. TokenInv(r)' /\ TokenInv(s)
      BY DEF AccountsInv, RequestInv
    <3>2. request'[s].at = "name" => request'[s].token \in proofs'
      BY <1>2, <3>1 DEF TokenInv
    <3>3. ASSUME Redeemed(s)'
          PROVE  request'[s].token \notin unspent' /\ \A x \in granted' : x[3] # request'[s].token
      BY <1>2, <3>1, <3>3 DEF TokenInv, Redeemed
    <3>4. ASSUME Redeemed(s)', NEW u \in Requests, Redeemed(u)',
                 request'[u].token = request'[s].token
          PROVE  u = s
      BY <1>2, <3>1, <3>4 DEF TokenInv, Redeemed
    <3>5. QED BY <3>2, <3>3, <3>4 DEF TokenInv
  <2>4. QED BY <2>1, <2>2, <2>3 DEF RequestInv
<1>5. QED BY <1>1, <1>3, <1>4 DEF AccountsInv

-----------------------------------------------------------------------------
LEMMA AccountsInit == Init => AccountsInv
<1> SUFFICES ASSUME Init PROVE AccountsInv
  OBVIOUS
<1>1. TypeOK
  BY DEF Init, TypeOK, Idle
<1>2. TableInv
  BY DEF Init, TableInv, InfoInv, GrantInv, LockedWhereOffered, NamesWereBought, TokenBuysOnce
<1>3. \A r \in Requests : request[r].at = "idle"
  BY DEF Init, Idle
<1>4. \A r \in Requests : RequestInv(r)
  BY <1>3 DEF RequestInv, LockInv, CopyInv, TokenInv, Redeemed, SettingSteps
<1>5. QED BY <1>1, <1>2, <1>4 DEF AccountsInv

(* A request that ends claims nothing.                                     *)
LEMMA EndStep ==
  ASSUME AccountsInv, NEW r \in Requests, End(r),
         UNCHANGED <<users, mints, advertised, unspent, proofs, offered, granted, overtaken>>
  PROVE  AccountsInv'
<1>1. request'[r] = [at |-> "done"]
  BY DEF End, AccountsInv, TypeOK
<1>2. RequestInv(r)'
  BY <1>1 DEF RequestInv, LockInv, CopyInv, TokenInv, Redeemed, SettingSteps
<1>3. InfoInv' /\ mints' \in [Urls -> Info \cup {NoInfo}] /\ offered' \subseteq Mints
  BY DEF AccountsInv, TypeOK, TableInv, InfoInv
<1>4. QED BY <1>2, <1>3, OneRequestMoves DEF End

(* Both settings requests start from the row as it is.                     *)
LEMMA SettingStarts ==
  ASSUME AccountsInv, NEW r \in Requests, NEW p \in Pubkeys, NEW v \in Setting,
         request' = [request EXCEPT ![r] = v],
         v.at = "check", v.pubkey = p, v.user.name = ReadUser(p).name,
         v.user.lockQuote => v.shouldLock, MintAt[v.url] = MintAt[v.user.mintUrl],
         UNCHANGED <<users, mints, advertised, unspent, proofs, offered, granted, overtaken>>
  PROVE  AccountsInv'
<1>1. request'[r] = v
  BY DEF AccountsInv, TypeOK
<1>2. LockInv(r)'
  BY <1>1 DEF LockInv
<1>3. CopyInv(r)'
  <2>1. v.user.name # NoName => Bought(p, v.user.name)
    BY ReadUserSound
  <2>2. Bought(p, v.user.name) => Bought(p, v.user.name)'
    BY DEF Bought
  <2>3. v.user.name = ReadUser(p).name'
    BY DEF ReadUser
  <2>4. request'[r].user.name # NoName =>
          Bought(request[r].pubkey, request[r].user.name)'
    BY <1>1, <2>1, <2>2
  <2>5. request'[r].user.name = ReadUser(request[r].pubkey)'.name
    BY <1>1, <2>3
  <2>6. QED BY <2>4, <2>5 DEF CopyInv
<1>4. TokenInv(r)'
  BY <1>1 DEF TokenInv, Redeemed
<1>5. InfoInv' /\ mints' \in [Urls -> Info \cup {NoInfo}] /\ offered' \subseteq Mints
  BY DEF AccountsInv, TypeOK, TableInv, InfoInv
<1>6. QED BY <1>2, <1>3, <1>4, <1>5, OneRequestMoves DEF RequestInv

LEMMA SetLockStep ==
  ASSUME AccountsInv, NEW r \in Requests, NEW p \in Pubkeys, NEW lock \in BOOLEAN,
         SetLock(r, p, lock)
  PROVE  AccountsInv'
<1> DEFINE v == [at |-> "check", pubkey |-> p, url |-> ReadUser(p).mintUrl, shouldLock |-> lock,
                 user |-> [ReadUser(p) EXCEPT !.lockQuote = lock], sets |-> "lockQuote",
                 locking |-> FALSE]
<1>1. ReadUser(p) \in User
  BY ReadUserTyped DEF AccountsInv
<1>2. [ReadUser(p) EXCEPT !.lockQuote = lock] \in User
  BY <1>1 DEF User
<1>3. ReadUser(p).mintUrl \in Urls
  BY <1>1 DEF User
<1>4. v \in Setting
  BY <1>2, <1>3 DEF Setting
<1>5. v.user.name = ReadUser(p).name /\ v.user.mintUrl = ReadUser(p).mintUrl
      /\ (v.user.lockQuote => lock)
  BY <1>1 DEF User
<1>6. request' = [request EXCEPT ![r] = v]
  BY DEF SetLock
<1>7. v.at = "check" /\ v.pubkey = p /\ v.url = ReadUser(p).mintUrl /\ (lock => v.shouldLock)
  OBVIOUS
<1>8. UNCHANGED <<users, mints, advertised, unspent, proofs, offered, granted, overtaken>>
  BY DEF SetLock
<1> HIDE DEF v
<1>9. QED BY <1>4, <1>5, <1>6, <1>7, <1>8, SettingStarts

LEMMA SetMintStep ==
  ASSUME AccountsInv, NEW r \in Requests, NEW p \in Pubkeys, NEW url \in Urls,
         SetMint(r, p, url)
  PROVE  AccountsInv'
<1> DEFINE v == [at |-> "check", pubkey |-> p, url |-> Normal[url],
                 shouldLock |-> ReadUser(p).lockQuote,
                 user |-> [ReadUser(p) EXCEPT !.mintUrl = url], sets |-> "mintUrl",
                 locking |-> FALSE]
<1>1. ReadUser(p) \in User
  BY ReadUserTyped DEF AccountsInv
<1>2. [ReadUser(p) EXCEPT !.mintUrl = url] \in User
  BY <1>1 DEF User
<1>3. Normal[url] \in Urls /\ MintAt[Normal[url]] = MintAt[url]
  BY AccountsAssumption
<1>4. v \in Setting
  <2>1. ReadUser(p).lockQuote \in BOOLEAN
    BY <1>1 DEF User
  <2>2. QED BY <1>2, <1>3, <2>1 DEF Setting
<1>5. v.user.name = ReadUser(p).name /\ v.user.mintUrl = url
      /\ (v.user.lockQuote => v.shouldLock)
  BY <1>1 DEF User
<1>6. request' = [request EXCEPT ![r] = v]
  BY DEF SetMint
<1>7. v.at = "check" /\ v.pubkey = p /\ v.url = Normal[url]
  OBVIOUS
<1>8. UNCHANGED <<users, mints, advertised, unspent, proofs, offered, granted, overtaken>>
  BY DEF SetMint
<1> HIDE DEF v
<1>9. QED BY <1>3, <1>4, <1>5, <1>6, <1>7, <1>8, SettingStarts

(* A settings request goes on with the pair it carries.                    *)
LEMMA SettingContinues ==
  ASSUME AccountsInv, NEW r \in Requests, request[r].at \in SettingSteps,
         NEW v \in Setting,
         v.at \in SettingSteps, v.pubkey = request[r].pubkey, v.user = request[r].user,
         request' = [request EXCEPT ![r] = v],
         UNCHANGED <<users, advertised, unspent, proofs, granted, overtaken>>,
         mints' \in [Urls -> Info \cup {NoInfo}], InfoInv',
         offered \subseteq offered', offered' \subseteq Mints,
         LockInv(r)'
  PROVE  AccountsInv'
<1>1. request'[r] = v
  BY DEF AccountsInv, TypeOK
<1>2. CopyInv(r)'
  <2>1. CopyInv(r)
    BY DEF AccountsInv, RequestInv
  <2>2. v.user.name # NoName => Bought(v.pubkey, v.user.name)
    BY <2>1 DEF CopyInv
  <2>3. Bought(v.pubkey, v.user.name) => Bought(v.pubkey, v.user.name)'
    BY DEF Bought
  <2>4. r \notin overtaken => v.user.name = ReadUser(v.pubkey)'.name
    BY <2>1 DEF CopyInv, ReadUser
  <2>5. request'[r].user.name # NoName =>
          Bought(request[r].pubkey, request[r].user.name)'
    BY <1>1, <2>2, <2>3
  <2>6. r \notin overtaken' => request'[r].user.name = ReadUser(request[r].pubkey)'.name
    BY <1>1, <2>4
  <2>7. QED BY <2>5, <2>6 DEF CopyInv
<1>3. TokenInv(r)'
  BY <1>1 DEF TokenInv, Redeemed, SettingSteps
<1>4. QED BY <1>2, <1>3, OneRequestMoves DEF RequestInv

(* The mint's answer lets the request save, or ends it.                    *)
LEMMA DecideStep ==
  ASSUME AccountsInv, NEW r \in Requests, request[r].at \in SettingSteps \ {"save"},
         NEW locking \in BOOLEAN, Decide(r, locking),
         locking => MintAt[request[r].url] \in offered,
         UNCHANGED <<users, advertised, unspent, proofs, offered, granted, overtaken>>,
         mints' \in [Urls -> Info \cup {NoInfo}], InfoInv'
  PROVE  AccountsInv'
<1>1. offered' \subseteq Mints /\ TypeOK
  BY DEF AccountsInv, TypeOK
<1>2. CASE request[r].shouldLock /\ ~locking
  <2>1. request' = [request EXCEPT ![r] = [at |-> "done"]]
    BY <1>2 DEF Decide, End
  <2>2. request'[r] = [at |-> "done"]
    BY <1>1, <2>1 DEF TypeOK
  <2>3. RequestInv(r)'
    BY <2>2 DEF RequestInv, LockInv, CopyInv, TokenInv, Redeemed, SettingSteps
  <2>4. QED BY <1>1, <2>1, <2>3, OneRequestMoves
<1>3. CASE ~(request[r].shouldLock /\ ~locking)
  <2> DEFINE v == [request[r] EXCEPT !.at = "save"]
  <2>1. request[r] \in Setting
    BY <1>1, RequestTyped
  <2>2. v \in Setting
    BY <2>1, SettingMoves DEF SettingSteps
  <2>3. v.at = "save" /\ v.pubkey = request[r].pubkey /\ v.user = request[r].user
    BY <2>1 DEF Setting
  <2>4. request' = [request EXCEPT ![r] = v]
    BY <1>3 DEF Decide, Continue
  <2>5. request'[r] = v
    BY <1>1, <2>4 DEF TypeOK
  <2> HIDE DEF v
  <2>6. LockInv(r)'
    <3>1. LockInv(r)
      BY DEF AccountsInv, RequestInv
    <3>2. request[r].user.lockQuote => MintAt[request[r].user.mintUrl] \in offered
      BY <1>3, <3>1 DEF LockInv, SettingSteps
    <3>3. QED BY <2>3, <2>5, <3>2 DEF LockInv
  <2>7. QED BY <1>1, <2>2, <2>3, <2>4, <2>6, SettingContinues DEF SettingSteps
<1>4. QED BY <1>2, <1>3

LEMMA FindMintStep ==
  ASSUME AccountsInv, NEW r \in Requests, FindMint(r)
  PROVE  AccountsInv'
<1> DEFINE info == mints[request[r].url]
<1>1. TypeOK /\ request[r].at = "check"
  BY DEF AccountsInv, FindMint
<1>2. request[r] \in Setting /\ request[r].url \in Urls
  BY <1>1, RequestTyped DEF SettingSteps, Setting
<1>3. InfoInv' /\ mints' \in [Urls -> Info \cup {NoInfo}] /\ offered' \subseteq Mints
  BY DEF AccountsInv, TypeOK, TableInv, InfoInv, FindMint
<1>4. CASE info = NoInfo \/ info.expired
  <2> DEFINE v == [request[r] EXCEPT !.at = "load"]
  <2>1. v \in Setting
    BY <1>2, SettingMoves DEF SettingSteps
  <2>2. v.at = "load" /\ v.pubkey = request[r].pubkey /\ v.user = request[r].user
        /\ v.url = request[r].url /\ (request[r].shouldLock => v.shouldLock)
    BY <1>2 DEF Setting
  <2>3. request' = [request EXCEPT ![r] = v]
    BY <1>4 DEF FindMint, Continue
  <2>4. request'[r] = v
    BY <1>1, <2>3 DEF TypeOK
  <2> HIDE DEF v
  <2>5. LockInv(r)'
    <3>1. LockInv(r)
      BY DEF AccountsInv, RequestInv
    <3>2. QED BY <1>1, <2>2, <2>4, <3>1 DEF LockInv
  <2>6. UNCHANGED <<users, advertised, unspent, proofs, offered, granted, overtaken>>
    BY DEF FindMint
  <2>7. QED BY <1>1, <1>3, <2>1, <2>2, <2>3, <2>5, <2>6, SettingContinues DEF SettingSteps
<1>5. CASE ~(info = NoInfo \/ info.expired)
  <2>1. Decide(r, info.locking)
    BY <1>5 DEF FindMint
  <2>2. info.locking \in BOOLEAN
    BY <1>1, <1>2, <1>5 DEF TypeOK, Info
  <2>3. info.locking => MintAt[request[r].url] \in offered
    BY <1>2, <1>5 DEF AccountsInv, TableInv, InfoInv
  <2>4. UNCHANGED <<users, advertised, unspent, proofs, offered, granted, overtaken>>
    BY DEF FindMint
  <2>5. request[r].at \in SettingSteps \ {"save"}
    BY <1>1 DEF SettingSteps
  <2> HIDE DEF info
  <2>6. QED BY <1>3, <2>1, <2>2, <2>3, <2>4, <2>5, DecideStep
<1>6. QED BY <1>4, <1>5

LEMMA LoadInfoStep ==
  ASSUME AccountsInv, NEW r \in Requests, LoadInfo(r)
  PROVE  AccountsInv'
<1> DEFINE mint == MintAt[Normal[request[r].url]]
           v == [request[r] EXCEPT !.at = "store", !.locking = advertised[mint]]
<1>1. TypeOK /\ request[r].at = "load"
  BY DEF AccountsInv, LoadInfo
<1>2. request[r] \in Setting /\ request[r].url \in Urls
  BY <1>1, RequestTyped DEF SettingSteps, Setting
<1>3. mint \in Mints /\ mint = MintAt[request[r].url]
  BY <1>2, AccountsAssumption
<1>4. advertised[mint] \in BOOLEAN
  BY <1>1, <1>3 DEF TypeOK
<1>5. v \in Setting
  BY <1>2, <1>4 DEF Setting
<1>6. v.at = "store" /\ v.pubkey = request[r].pubkey /\ v.user = request[r].user
      /\ v.url = request[r].url /\ (request[r].shouldLock => v.shouldLock)
      /\ (v.locking => advertised[mint])
  BY <1>2 DEF Setting
<1>7. request' = [request EXCEPT ![r] = v]
  BY DEF LoadInfo
<1>8. request'[r] = v
  BY <1>1, <1>7 DEF TypeOK
<1>9. offered \subseteq offered' /\ offered' \subseteq Mints /\ (advertised[mint] => mint \in offered')
  BY <1>1, <1>3 DEF LoadInfo, TypeOK
<1>10. UNCHANGED <<users, mints, advertised, unspent, proofs, granted, overtaken>>
  BY DEF LoadInfo
<1> HIDE DEF v
<1>11. LockInv(r)'
  <2>1. LockInv(r)
    BY DEF AccountsInv, RequestInv
  <2>2. QED BY <1>1, <1>3, <1>6, <1>8, <1>9, <2>1 DEF LockInv
<1>12. InfoInv' /\ mints' \in [Urls -> Info \cup {NoInfo}]
  BY <1>9, <1>10 DEF AccountsInv, TypeOK, TableInv, InfoInv
<1>13. QED
  BY <1>1, <1>5, <1>6, <1>7, <1>9, <1>10, <1>11, <1>12, SettingContinues DEF SettingSteps

LEMMA StoreInfoStep ==
  ASSUME AccountsInv, NEW r \in Requests, StoreInfo(r)
  PROVE  AccountsInv'
<1> DEFINE info == [locking |-> request[r].locking, expired |-> FALSE]
<1>1. TypeOK /\ request[r].at = "store"
  BY DEF AccountsInv, StoreInfo
<1>2. request[r] \in Setting
  BY <1>1, RequestTyped DEF SettingSteps
<1>3. request[r].url \in Urls /\ request[r].locking \in BOOLEAN
  BY <1>2 DEF Setting
<1>4. info \in Info
  BY <1>3 DEF Info
<1>5. request[r].locking => MintAt[request[r].url] \in offered
  BY <1>1 DEF AccountsInv, RequestInv, LockInv
<1>6. mints' = [mints EXCEPT ![request[r].url] = info]
  BY DEF StoreInfo
<1>7. mints' \in [Urls -> Info \cup {NoInfo}]
  BY <1>1, <1>4, <1>6 DEF TypeOK
<1>8. InfoInv'
  <2>1. offered' = offered
    BY DEF StoreInfo
  <2>2. InfoInv
    BY DEF AccountsInv, TableInv
  <2>3. ASSUME NEW u \in Urls, mints'[u] # NoInfo, mints'[u].locking
        PROVE  MintAt[u] \in offered
    <3>1. CASE u = request[r].url
      BY <1>1, <1>5, <1>6, <2>3, <3>1 DEF TypeOK
    <3>2. CASE u # request[r].url
      BY <1>1, <1>6, <2>2, <2>3, <3>2 DEF TypeOK, InfoInv
    <3>3. QED BY <3>1, <3>2
  <2>4. QED BY <2>1, <2>3 DEF InfoInv
<1>9. Decide(r, request[r].locking)
      /\ UNCHANGED <<users, advertised, unspent, proofs, offered, granted, overtaken>>
  BY DEF StoreInfo
<1>10. request[r].at \in SettingSteps \ {"save"}
  BY <1>1 DEF SettingSteps
<1>11. QED BY <1>3, <1>5, <1>7, <1>8, <1>9, <1>10, DecideStep

-----------------------------------------------------------------------------
(* A step that writes one row and ends one request. *)

(* The copies of other requests are right still, or known to be overtaken. *)
LEMMA WriteRowCopies ==
  ASSUME AccountsInv, NEW p \in Pubkeys, NEW row \in User, WriteRow(p, row),
         NEW r \in Requests, request' = [request EXCEPT ![r] = [at |-> "done"]],
         proofs' = proofs, granted \subseteq granted',
         NEW s \in Requests
  PROVE  CopyInv(s)'
<1>1. CASE s = r
  BY <1>1 DEF AccountsInv, TypeOK, CopyInv, SettingSteps
<1>2. CASE s # r /\ request[s].at \in SettingSteps
  <2>1. CopyInv(s) /\ TypeOK
    BY DEF AccountsInv, RequestInv
  <2>2. request'[s] = request[s]
    BY <1>2, <2>1 DEF TypeOK
  <2>3. request[s].user.name # NoName => Bought(request[s].pubkey, request[s].user.name)'
    BY <1>2, <2>1 DEF CopyInv, Bought
  <2>4. ASSUME s \notin overtaken'
        PROVE  request[s].user.name = ReadUser(request[s].pubkey)'.name
    <3>1. request[s].user.name = ReadUser(request[s].pubkey).name /\ request[s].pubkey \in Pubkeys
      <4>1. s \notin overtaken
        BY <2>4 DEF WriteRow
      <4>2. request[s] \in Setting
        BY <1>2, <2>1, RequestTyped
      <4>3. QED BY <1>2, <2>1, <4>1, <4>2 DEF CopyInv, Setting
    <3>2. users' = [users EXCEPT ![p] = row]
      BY DEF WriteRow
    <3>3. CASE request[s].pubkey # p
      BY <2>1, <2>2, <3>1, <3>2, <3>3 DEF ReadUser, TypeOK
    <3>4. CASE request[s].pubkey = p
      <4>1. s \in Holding(p)
        BY <1>2, <3>4 DEF Holding, SettingSteps
      <4>2. row.name = ReadUser(p).name
        BY <2>4, <4>1 DEF WriteRow
      <4>3. users'[p] = row /\ row # NoUser
        BY <2>1, <3>2, AccountsAssumption DEF TypeOK
      <4>4. ReadUser(p)' = row
        BY <4>3 DEF ReadUser
      <4>5. ReadUser(request[s].pubkey)' = row
        BY <2>2, <3>4, <4>4
      <4>6. QED BY <3>1, <3>4, <4>2, <4>5
    <3>5. QED BY <3>3, <3>4
  <2>5. request'[s].user.name # NoName => Bought(request[s].pubkey, request[s].user.name)'
    BY <2>2, <2>3
  <2>6. s \notin overtaken' => request'[s].user.name = ReadUser(request[s].pubkey)'.name
    BY <2>2, <2>4
  <2>7. QED BY <2>5, <2>6 DEF CopyInv
<1>3. CASE s # r /\ request[s].at \notin SettingSteps
  BY <1>3 DEF AccountsInv, TypeOK, CopyInv
<1>4. QED BY <1>1, <1>2, <1>3

(* No lock changes when another request ends.                              *)
LEMMA LocksKept ==
  ASSUME AccountsInv, NEW r \in Requests, request' = [request EXCEPT ![r] = [at |-> "done"]],
         offered' = offered, NEW s \in Requests
  PROVE  LockInv(s)'
BY DEF AccountsInv, TypeOK, RequestInv, LockInv

LEMMA WriteRowTypes ==
  ASSUME AccountsInv, NEW p \in Pubkeys, NEW row \in User, WriteRow(p, row)
  PROVE  /\ users' \in [Pubkeys -> User \cup {NoUser}]
         /\ overtaken' \subseteq Requests
         /\ users'[p] = row
         /\ \A other \in Pubkeys \ {p} : users'[other] = users[other]
BY DEF AccountsInv, TypeOK, WriteRow, Holding

LEMMA SaveUserStep ==
  ASSUME AccountsInv, NEW r \in Requests, SaveUser(r)
  PROVE  AccountsInv'
<1> DEFINE p == request[r].pubkey
           row == request[r].user
<1>1. TypeOK /\ request[r].at = "save" /\ End(r)
  BY DEF AccountsInv, SaveUser
<1>2. request[r] \in Setting
  BY <1>1, RequestTyped DEF SettingSteps
<1>3. p \in Pubkeys /\ row \in User
  BY <1>2 DEF Setting
<1>4. UNCHANGED <<mints, advertised, unspent, proofs, offered, granted>>
  BY DEF SaveUser
<1>5. CASE ~NameIsFree(p, row.name)
  <2>1. UNCHANGED <<users, overtaken>>
    BY <1>5 DEF SaveUser, SavedRow
  <2>2. QED BY <1>1, <1>4, <2>1, EndStep
<1>6. CASE NameIsFree(p, row.name)
  <2>1. WriteRow(p, row)
    BY <1>6 DEF SaveUser, SavedRow
  <2>2. request' = [request EXCEPT ![r] = [at |-> "done"]]
    BY <1>1 DEF End
  <2>3. LockInv(r) /\ CopyInv(r)
    BY DEF AccountsInv, RequestInv
  <2>4. /\ users' \in [Pubkeys -> User \cup {NoUser}]
        /\ overtaken' \subseteq Requests
        /\ users'[p] = row
        /\ \A other \in Pubkeys \ {p} : users'[other] = users[other]
    BY <1>3, <2>1, WriteRowTypes
  <2>5. TypeOK'
    BY <1>1, <1>4, <2>2, <2>4 DEF TypeOK
  <2>6. LockedWhereOffered'
    <3>1. row.lockQuote => MintAt[row.mintUrl] \in offered
      BY <1>1, <2>3 DEF LockInv
    <3>2. QED BY <1>4, <2>4, <3>1 DEF AccountsInv, TableInv, LockedWhereOffered
  <2>7. NamesWereBought'
    <3>1. row.name # NoName => Bought(p, row.name)
      BY <1>1, <2>3 DEF CopyInv, SettingSteps
    <3>2. QED BY <1>4, <2>4, <3>1 DEF AccountsInv, TableInv, NamesWereBought, Bought
  <2>8. TableInv'
    BY <1>4, <2>6, <2>7 DEF AccountsInv, TableInv, InfoInv, GrantInv, TokenBuysOnce
  <2>9. ASSUME NEW s \in Requests PROVE RequestInv(s)'
    <3>1. CopyInv(s)'
      BY <1>3, <1>4, <2>1, <2>2, WriteRowCopies
    <3>2. LockInv(s)'
      BY <1>4, <2>2, LocksKept
    <3>3. TokenInv(s)'
      <4>1. \A u \in Requests : Redeemed(u)' => request'[u] = request[u] /\ Redeemed(u)
        BY <1>1, <2>2 DEF TypeOK, Redeemed
      <4>2. request'[s].at = "name" => request'[s] = request[s]
        BY <1>1, <2>2 DEF TypeOK
      <4>3. TokenInv(s)
        BY DEF AccountsInv, RequestInv
      <4>4. QED BY <1>4, <4>1, <4>2, <4>3 DEF TokenInv
    <3>4. QED BY <3>1, <3>2, <3>3 DEF RequestInv
  <2>10. QED BY <2>5, <2>8, <2>9 DEF AccountsInv
<1>7. QED BY <1>5, <1>6

-----------------------------------------------------------------------------
(* Purchases. *)

LEMMA BuyNameStep ==
  ASSUME AccountsInv, NEW r \in Requests, NEW p \in Pubkeys, NEW name \in Names,
         NEW canonical \in BOOLEAN, NEW token \in Tokens,
         BuyName(r, p, name, canonical, token)
  PROVE  AccountsInv'
<1> DEFINE v == [at |-> "redeem", pubkey |-> p, name |-> name, token |-> token]
<1>1. v \in Purchase
  BY DEF Purchase
<1>2. request' = [request EXCEPT ![r] = v]
      /\ UNCHANGED <<users, mints, advertised, unspent, proofs, offered, granted, overtaken>>
  BY DEF BuyName
<1>3. request'[r].at = "redeem"
  BY <1>2 DEF AccountsInv, TypeOK
<1>4. RequestInv(r)'
  BY <1>3 DEF RequestInv, LockInv, CopyInv, TokenInv, Redeemed, SettingSteps
<1>5. InfoInv' /\ mints' \in [Urls -> Info \cup {NoInfo}] /\ offered' \subseteq Mints
  BY <1>2 DEF AccountsInv, TypeOK, TableInv, InfoInv
<1> HIDE DEF v
<1>6. QED BY <1>1, <1>2, <1>4, <1>5, OneRequestMoves

(* What both steps of a purchase after its redemption need: the purchase   *)
(* moves, the accounts stay, and proofs are only added.                    *)
LEMMA PurchaseMoved ==
  ASSUME AccountsInv, NEW r \in Requests, NEW a \in {"keep", "name"},
         request[r] \in Purchase, Continue(r, a),
         proofs \subseteq proofs',
         UNCHANGED <<users, mints, advertised, offered, granted, overtaken>>
  PROVE  /\ request' \in [Requests -> Setting \cup Purchase \cup [at : {"idle", "done"}]]
         /\ request'[r].at = a /\ request'[r].token = request[r].token
         /\ \A s \in Requests \ {r} : request'[s] = request[s]
         /\ \A s \in Requests : LockInv(s)' /\ CopyInv(s)'
         /\ InfoInv' /\ LockedWhereOffered' /\ NamesWereBought' /\ TokenBuysOnce'
<1> DEFINE v == [request[r] EXCEPT !.at = a]
<1>1. v \in Purchase /\ v.at = a /\ v.token = request[r].token
  BY DEF Purchase
<1>2. request' = [request EXCEPT ![r] = v]
  BY DEF Continue
<1>3. request' \in [Requests -> Setting \cup Purchase \cup [at : {"idle", "done"}]]
      /\ request'[r] = v
      /\ \A s \in Requests \ {r} : request'[s] = request[s]
  BY <1>1, <1>2 DEF AccountsInv, TypeOK
<1> HIDE DEF v
<1>4. request'[r].at = a /\ request'[r].token = request[r].token
  BY <1>1, <1>3
<1>5. LockInv(r)' /\ CopyInv(r)'
  BY <1>4 DEF LockInv, CopyInv, SettingSteps
<1>6. ASSUME NEW s \in Requests \ {r} PROVE LockInv(s)' /\ CopyInv(s)'
  <2>1. LockInv(s)'
    BY <1>3 DEF AccountsInv, RequestInv, LockInv
  <2>2. CopyInv(s)'
    BY <1>3 DEF AccountsInv, RequestInv, CopyInv, Bought, ReadUser
  <2>3. QED BY <2>1, <2>2
<1>7. InfoInv' /\ LockedWhereOffered' /\ NamesWereBought' /\ TokenBuysOnce'
  BY DEF AccountsInv, TableInv, InfoInv, LockedWhereOffered, NamesWereBought, TokenBuysOnce
<1>8. QED BY <1>3, <1>4, <1>5, <1>6, <1>7

LEMMA RedeemTokenStep ==
  ASSUME AccountsInv, NEW r \in Requests, RedeemToken(r)
  PROVE  AccountsInv'
<1> DEFINE token == request[r].token
<1>1. TypeOK /\ request[r].at = "redeem"
  BY DEF AccountsInv, RedeemToken
<1>2. request[r] \in Purchase
  BY <1>1, RequestTyped
<1>3. token \in Tokens /\ token \in unspent /\ unspent' = unspent \ {token}
  BY <1>2 DEF RedeemToken, Accepted, Purchase
<1>4. UNCHANGED <<users, mints, advertised, proofs, offered, granted, overtaken>>
      /\ Continue(r, "keep")
  BY DEF RedeemToken
<1>5. /\ request' \in [Requests -> Setting \cup Purchase \cup [at : {"idle", "done"}]]
      /\ request'[r].at = "keep" /\ request'[r].token = token
      /\ \A s \in Requests \ {r} : request'[s] = request[s]
      /\ \A s \in Requests : LockInv(s)' /\ CopyInv(s)'
      /\ InfoInv' /\ LockedWhereOffered' /\ NamesWereBought' /\ TokenBuysOnce'
  BY <1>2, <1>4, PurchaseMoved
<1>6. TypeOK'
  BY <1>1, <1>3, <1>4, <1>5 DEF TypeOK
<1>7. GrantInv'
  BY <1>3, <1>4 DEF AccountsInv, TableInv, GrantInv
<1>8. \A s \in Requests : TokenInv(s)
  BY DEF AccountsInv, RequestInv
<1>9. TokenInv(r)'
  <2>1. \A x \in granted' : x[3] # token
    BY <1>3, <1>4 DEF AccountsInv, TableInv, GrantInv
  <2>2. ASSUME NEW s \in Requests, Redeemed(s)', request'[s].token = token PROVE s = r
    BY <1>3, <1>5, <1>8, <2>2 DEF TokenInv, Redeemed
  <2>3. QED BY <1>3, <1>5, <2>1, <2>2 DEF TokenInv
<1>10. ASSUME NEW s \in Requests \ {r} PROVE TokenInv(s)'
  <2>1. request'[s].at = "name" => request'[s].token \in proofs'
    BY <1>4, <1>5, <1>8 DEF TokenInv
  <2>2. ASSUME Redeemed(s)'
        PROVE  /\ request'[s].token \notin unspent'
               /\ \A x \in granted' : x[3] # request'[s].token
    BY <1>3, <1>4, <1>5, <1>8, <2>2 DEF TokenInv, Redeemed
  <2>3. ASSUME Redeemed(s)', NEW u \in Requests, Redeemed(u)',
               request'[u].token = request'[s].token
        PROVE  u = s
    BY <1>3, <1>5, <1>8, <2>3 DEF TokenInv, Redeemed
  <2>4. QED BY <2>1, <2>2, <2>3 DEF TokenInv
<1>11. QED BY <1>5, <1>6, <1>7, <1>9, <1>10 DEF AccountsInv, TableInv, RequestInv

LEMMA SaveProofsStep ==
  ASSUME AccountsInv, NEW r \in Requests, SaveProofs(r)
  PROVE  AccountsInv'
<1> DEFINE token == request[r].token
<1>1. TypeOK /\ request[r].at = "keep"
  BY DEF AccountsInv, SaveProofs
<1>2. request[r] \in Purchase
  BY <1>1, RequestTyped
<1>3. token \in Tokens /\ proofs' = proofs \cup {token}
  BY <1>2 DEF SaveProofs, Purchase
<1>4. UNCHANGED <<users, mints, advertised, unspent, offered, granted, overtaken>>
      /\ Continue(r, "name")
  BY DEF SaveProofs
<1>5. /\ request' \in [Requests -> Setting \cup Purchase \cup [at : {"idle", "done"}]]
      /\ request'[r].at = "name" /\ request'[r].token = token
      /\ \A s \in Requests \ {r} : request'[s] = request[s]
      /\ \A s \in Requests : LockInv(s)' /\ CopyInv(s)'
      /\ InfoInv' /\ LockedWhereOffered' /\ NamesWereBought' /\ TokenBuysOnce'
  BY <1>2, <1>3, <1>4, PurchaseMoved
<1>6. \A s \in Requests : TokenInv(s)
  BY DEF AccountsInv, RequestInv
<1>7. token \notin unspent
  BY <1>1, <1>6 DEF TokenInv, Redeemed
<1>8. TypeOK'
  BY <1>1, <1>3, <1>4, <1>5, <1>7 DEF TypeOK
<1>9. GrantInv'
  BY <1>4 DEF AccountsInv, TableInv, GrantInv
<1>10. \A u \in Requests : Redeemed(u)' => Redeemed(u) /\ request'[u].token = request[u].token
  BY <1>1, <1>5 DEF Redeemed
<1>11. ASSUME NEW s \in Requests PROVE TokenInv(s)'
  <2>1. request'[s].at = "name" => request'[s].token \in proofs'
    BY <1>3, <1>5, <1>6 DEF TokenInv
  <2>2. QED BY <1>4, <1>6, <1>10, <2>1 DEF TokenInv
<1>12. QED BY <1>5, <1>8, <1>9, <1>11 DEF AccountsInv, TableInv, RequestInv

LEMMA UpsertUsernameStep ==
  ASSUME AccountsInv, NEW r \in Requests, UpsertUsername(r)
  PROVE  AccountsInv'
<1> DEFINE p == request[r].pubkey
           name == request[r].name
           token == request[r].token
           row == [ReadUser(p) EXCEPT !.name = name]
<1>1. TypeOK /\ request[r].at = "name" /\ End(r)
  BY DEF AccountsInv, UpsertUsername
<1>2. request[r] \in Purchase
  BY <1>1, RequestTyped
<1>3. p \in Pubkeys /\ name \in Names /\ token \in Tokens
  BY <1>2 DEF Purchase
<1>4. UNCHANGED <<mints, advertised, unspent, proofs, offered>>
  BY DEF UpsertUsername
<1>5. CASE ~NameIsFree(p, name)
  <2>1. UNCHANGED <<users, granted, overtaken>>
    BY <1>5 DEF UpsertUsername
  <2>2. QED BY <1>1, <1>4, <2>1, EndStep
<1>6. CASE NameIsFree(p, name)
  <2>1. WriteRow(p, row) /\ granted' = granted \cup {<<p, name, token>>}
    BY <1>6 DEF UpsertUsername
  <2>2. request' = [request EXCEPT ![r] = [at |-> "done"]]
    BY <1>1 DEF End
  <2>3. /\ row \in User /\ row.name = name
        /\ row.lockQuote => MintAt[row.mintUrl] \in offered
    <3>1. ReadUser(p) \in User
      BY <1>1, <1>3, ReadUserTyped
    <3>2. row \in User /\ row.name = name
      BY <1>3, <3>1 DEF User
    <3>3. row.mintUrl = ReadUser(p).mintUrl /\ (row.lockQuote => ReadUser(p).lockQuote)
      BY <3>1 DEF User
    <3>4. QED BY <1>3, <3>2, <3>3, ReadUserSound
  <2> HIDE DEF row
  <2>4. /\ users' \in [Pubkeys -> User \cup {NoUser}]
        /\ overtaken' \subseteq Requests
        /\ users'[p] = row
        /\ \A other \in Pubkeys \ {p} : users'[other] = users[other]
    BY <1>3, <2>1, <2>3, WriteRowTypes
  <2>5. TypeOK'
    BY <1>1, <1>3, <1>4, <2>1, <2>2, <2>4 DEF TypeOK
  <2>6. \A s \in Requests : TokenInv(s)
    BY DEF AccountsInv, RequestInv
  <2>7. token \in proofs /\ token \notin unspent /\ \A x \in granted : x[3] # token
    BY <1>1, <2>6 DEF TokenInv, Redeemed
  <2>8. TableInv'
    <3>1. InfoInv'
      BY <1>4 DEF AccountsInv, TableInv, InfoInv
    <3>2. LockedWhereOffered'
      BY <1>4, <2>3, <2>4 DEF AccountsInv, TableInv, LockedWhereOffered
    <3>3. NamesWereBought'
      BY <1>4, <2>1, <2>3, <2>4, <2>7 DEF AccountsInv, TableInv, NamesWereBought
    <3>4. GrantInv' /\ TokenBuysOnce'
      BY <1>4, <2>1, <2>7 DEF AccountsInv, TableInv, GrantInv, TokenBuysOnce
    <3>5. QED BY <3>1, <3>2, <3>3, <3>4 DEF TableInv
  <2>9. ASSUME NEW s \in Requests PROVE RequestInv(s)'
    <3>1. CopyInv(s)'
      BY <1>3, <1>4, <2>1, <2>2, <2>3, WriteRowCopies
    <3>2. LockInv(s)'
      BY <1>4, <2>2, LocksKept
    <3>3. TokenInv(s)'
      <4>1. \A u \in Requests : Redeemed(u)' => u # r /\ request'[u] = request[u] /\ Redeemed(u)
        BY <1>1, <2>2 DEF TypeOK, Redeemed
      <4>2. request'[s].at = "name" => request'[s] = request[s]
        BY <1>1, <2>2 DEF TypeOK
      <4>3. Redeemed(s)' => request[s].token # token
        BY <1>1, <2>6, <4>1 DEF TokenInv, Redeemed
      <4>4. QED BY <1>4, <2>1, <2>6, <4>1, <4>2, <4>3 DEF TokenInv
    <3>4. QED BY <3>1, <3>2, <3>3 DEF RequestInv
  <2>10. QED BY <2>5, <2>8, <2>9 DEF AccountsInv
<1>7. QED BY <1>5, <1>6

-----------------------------------------------------------------------------
(* Time, and the mints. *)

LEMMA InfoExpiresStep ==
  ASSUME AccountsInv, NEW url \in Urls, InfoExpires(url)
  PROVE  AccountsInv'
<1> DEFINE info == [mints[url] EXCEPT !.expired = TRUE]
<1>1. TypeOK /\ InfoInv /\ mints[url] # NoInfo
  BY DEF AccountsInv, TableInv, InfoExpires
<1>2. mints[url] \in Info
  BY <1>1 DEF TypeOK
<1>3. info \in Info /\ (info.locking => mints[url].locking)
  BY <1>2 DEF Info
<1>4. mints' = [mints EXCEPT ![url] = info]
      /\ UNCHANGED <<users, request, advertised, unspent, proofs, offered, granted, overtaken>>
  BY DEF InfoExpires
<1> HIDE DEF info
<1>5. TypeOK'
  BY <1>1, <1>3, <1>4 DEF TypeOK
<1>6. ASSUME NEW u \in Urls, mints'[u] # NoInfo, mints'[u].locking
      PROVE  MintAt[u] \in offered'
  <2>1. CASE u = url
    BY <1>1, <1>3, <1>4, <1>6, <2>1 DEF TypeOK, InfoInv
  <2>2. CASE u # url
    BY <1>1, <1>4, <1>6, <2>2 DEF TypeOK, InfoInv
  <2>3. QED BY <2>1, <2>2
<1>7. TableInv'
  BY <1>4, <1>6 DEF AccountsInv, TableInv, InfoInv, GrantInv, LockedWhereOffered,
                    NamesWereBought, TokenBuysOnce
<1>8. \A r \in Requests : RequestInv(r)'
  BY <1>4 DEF AccountsInv, RequestInv, LockInv, CopyInv, Bought, ReadUser, TokenInv, Redeemed
<1>9. QED BY <1>5, <1>7, <1>8 DEF AccountsInv

LEMMA MintChangesStep ==
  ASSUME AccountsInv, NEW mint \in Mints, MintChanges(mint)
  PROVE  AccountsInv'
<1>1. UNCHANGED <<users, mints, request, unspent, proofs, offered, granted, overtaken>>
  BY DEF MintChanges
<1>2. advertised' \in [Mints -> BOOLEAN]
  BY DEF MintChanges, AccountsInv, TypeOK
<1>3. TypeOK'
  BY <1>1, <1>2 DEF AccountsInv, TypeOK
<1>4. TableInv'
  BY <1>1 DEF AccountsInv, TableInv, InfoInv, GrantInv, LockedWhereOffered,
              NamesWereBought, TokenBuysOnce
<1>5. \A r \in Requests : RequestInv(r)'
  BY <1>1 DEF AccountsInv, RequestInv, LockInv, CopyInv, Bought, ReadUser, TokenInv, Redeemed
<1>6. QED BY <1>3, <1>4, <1>5 DEF AccountsInv

-----------------------------------------------------------------------------
LEMMA AccountsNext == AccountsInv /\ [Next]_vars => AccountsInv'
<1> SUFFICES ASSUME AccountsInv, [Next]_vars PROVE AccountsInv'
  OBVIOUS
<1>1. CASE UNCHANGED vars
  <2>1. TypeOK' /\ TableInv'
    BY <1>1 DEF vars, AccountsInv, TypeOK, TableInv, InfoInv, GrantInv, LockedWhereOffered,
                NamesWereBought, TokenBuysOnce
  <2>2. \A r \in Requests : RequestInv(r)'
    BY <1>1 DEF vars, AccountsInv, RequestInv, LockInv, CopyInv, Bought, ReadUser, TokenInv,
                Redeemed
  <2>3. QED BY <2>1, <2>2 DEF AccountsInv
<1>2. ASSUME NEW r \in Requests, NEW p \in Pubkeys,
             \/ \E lock \in BOOLEAN : SetLock(r, p, lock)
             \/ \E url \in Urls : SetMint(r, p, url)
             \/ \E name \in Names, canonical \in BOOLEAN, token \in Tokens :
                  BuyName(r, p, name, canonical, token)
      PROVE  AccountsInv'
  BY <1>2, SetLockStep, SetMintStep, BuyNameStep
<1>3. ASSUME NEW r \in Requests,
             \/ FindMint(r) \/ LoadInfo(r) \/ StoreInfo(r) \/ SaveUser(r)
             \/ RedeemToken(r) \/ SaveProofs(r) \/ UpsertUsername(r)
      PROVE  AccountsInv'
  BY <1>3, FindMintStep, LoadInfoStep, StoreInfoStep, SaveUserStep, RedeemTokenStep,
     SaveProofsStep, UpsertUsernameStep
<1>4. ASSUME NEW r \in Requests, Fail(r) PROVE AccountsInv'
  BY <1>4, EndStep DEF Fail
<1>5. ASSUME NEW url \in Urls, InfoExpires(url) PROVE AccountsInv'
  BY <1>5, InfoExpiresStep
<1>6. ASSUME NEW mint \in Mints, MintChanges(mint) PROVE AccountsInv'
  BY <1>6, MintChangesStep
<1>7. QED BY <1>1, <1>2, <1>3, <1>4, <1>5, <1>6 DEF Next

(* A save that was not overtaken writes the name that is there.            *)
LEMMA SettingsKeepTheNameStep ==
  ASSUME AccountsInv, Next, NEW r \in Requests \ overtaken, NEW p \in Pubkeys,
         request[r].at = "save", request'[r].at = "done",
         request[r].pubkey = p, users[p] # NoUser
  PROVE  users'[p].name = users[p].name
<1>1. CASE users' = users
  BY <1>1
<1>2. ASSUME NEW s \in Requests, SaveUser(s) \/ UpsertUsername(s)
      PROVE  users'[p].name = users[p].name
  <2>1. TypeOK /\ End(s)
    BY <1>2 DEF AccountsInv, SaveUser, UpsertUsername
  <2>2. s = r
    BY <2>1 DEF End, TypeOK
  <2>3. SaveUser(r)
    BY <1>2, <2>2 DEF UpsertUsername
  <2>4. request[r].user.name = ReadUser(p).name
    BY DEF AccountsInv, RequestInv, CopyInv, SettingSteps
  <2>5. CASE WriteRow(p, request[r].user)
    <3>1. users'[p] = request[r].user
      BY <2>1, <2>5 DEF WriteRow, TypeOK
    <3>2. QED BY <2>4, <3>1 DEF ReadUser
  <2>6. QED BY <1>1, <2>3, <2>5 DEF SaveUser, SavedRow
<1>3. users' = users \/ \E s \in Requests : SaveUser(s) \/ UpsertUsername(s)
  BY DEF Next, SetLock, SetMint, BuyName, FindMint, LoadInfo, StoreInfo, RedeemToken,
         SaveProofs, Fail, InfoExpires, MintChanges
<1>4. QED BY <1>1, <1>2, <1>3

-----------------------------------------------------------------------------
(* The strengthened invariant holds in every behaviour of the handlers.    *)
THEOREM AccountsInvariant == Spec => []AccountsInv
BY AccountsInit, AccountsNext, PTL DEF Spec

(* Every reachable state has the types TypeOK states; in particular the    *)
(* proofs kept are those of tokens that were exchanged.                    *)
THEOREM AccountsTypes == Spec => []TypeOK
<1>1. AccountsInv => TypeOK
  BY DEF AccountsInv
<1>2. QED BY <1>1, AccountsInvariant, PTL

(* However settings requests overlap, quotes are locked only at a mint     *)
(* that announced it can.                                                  *)
THEOREM LocksAreOffered == Spec => []LockedWhereOffered
<1>1. AccountsInv => LockedWhereOffered
  BY DEF AccountsInv, TableInv
<1>2. QED BY <1>1, AccountsInvariant, PTL

(* Every name in the table was bought by its owner, with proofs the server *)
(* keeps, and no token buys two names, however many requests carry it.     *)
THEOREM NamesArePaid == Spec => []NamesArePaidFor
<1>1. AccountsInv => NamesArePaidFor
  BY DEF AccountsInv, TableInv, NamesArePaidFor
<1>2. QED BY <1>1, AccountsInvariant, PTL

(* Only a settings request that was overtaken changes a name.              *)
THEOREM SettingsPreserveNames == Spec => SettingsKeepTheName
<1> DEFINE Kept ==
      \A r \in Requests \ overtaken, p \in Pubkeys :
        /\ request[r].at = "save" /\ request'[r].at = "done"
        /\ request[r].pubkey = p /\ users[p] # NoUser
        => users'[p].name = users[p].name
<1>1. AccountsInv /\ [Next]_vars => [Kept]_vars
  BY SettingsKeepTheNameStep
<1>2. QED BY <1>1, AccountsInvariant, PTL DEF Spec, SettingsKeepTheName
=============================================================================
