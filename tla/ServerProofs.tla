---------------------------- MODULE ServerProofs ----------------------------
(***************************************************************************)
(* Users, tokens, the server's settings and the encryption of Matrix       *)
(* bridges, for any number of users, apps, tabs, tokens, requests, values, *)
(* fields, bridges, devices, keys, messages and restarts.                  *)
(*                                                                         *)
(* Tokens: LogoutIsFinal is not inductive: what a renewal under way will   *)
(* write depends on the login of the token that it checked.  The invariant *)
(* says of each such renewal that its login is not ended, unless the row   *)
(* that it will update is of a login that came while it was under way.     *)
(*                                                                         *)
(* Settings: CommonKept says nothing of what a request has read and will   *)
(* write back; ReadersCurrent adds that.                                   *)
(*                                                                         *)
(* One-time keys: ClaimedOnce needs that a key is unused in the table only *)
(* before it was handed out (HandedIsUsed), that no two claims are between *)
(* their statements with one key (ClaimsApart), and that the server stores *)
(* each key it makes once (StoredOnce).  FirstMessageIsRead needs, on top  *)
(* of that, that the key of a message that is still to come is in the      *)
(* account and in every copy of it that is about to overwrite it           *)
(* (InAccount).                                                            *)
(*                                                                         *)
(* Matrix logins: DeviceWorks needs, for each device, how far whoever makes*)
(* its account has come (DeviceInv), and for each bridge, which of the keys*)
(* it holds or is about to be told is the valid one (BridgeInv).           *)
(*                                                                         *)
(* Rooms: KeyedIsRead needs that a key lasts in the cache as long as the   *)
(* bridge that sends with it thinks (KeysLive), at each point of a request *)
(* that reads a message (LetterInv).                                       *)
(*                                                                         *)
(* Users: ListAgrees speaks of an app that has read all.  UsersInv says of *)
(* every app that it shows of a user what the rows of user_log up to its   *)
(* version make of them, while the cache has what all the rows make        *)
(* (OneHistory, a path along the log); that it is sent the rows after its  *)
(* version, but for those of a dropped request (InboxOf); and that table   *)
(* and cache agree, for the next restart.                                  *)
(*                                                                         *)
(* The last part joins these and the groups: MCSpec of MCGroups.           *)
(***************************************************************************)
EXTENDS MCGroups, GroupsProofs

----------------------------------------------------------------------------
\* Tokens.

\* Each token that was made goes back to a login that was made before it.
LoginsKnown == \A t \in Token : t <= lastToken => loginOf[t] \in 1..t

\* A renewal under way belongs to a login that goes on, or is known to cross.
RenewalsCurrent ==
    stored # 0 => \A tab \in Tabs :
        renewing[tab] # 0 => loginOf[renewing[tab]] > ended \/ crossed

TokensInv == TokensTypeOK /\ LoginsKnown /\ RenewalsCurrent /\ LogoutIsFinal

----------------------------------------------------------------------------
\* What Make does: the new token follows the others, whose logins stay, and goes
\* to a tab or is lost.
Made(tab, login) ==
  /\ lastToken \in 0..MaxTokens /\ lastToken' \in 0..MaxTokens /\ lastToken' = lastToken + 1
  /\ loginOf' \in [Token -> 0..lastToken']
  /\ \A t \in Token : t <= lastToken => loginOf'[t] = loginOf[t]
  /\ loginOf'[lastToken'] = IF login = 0 THEN lastToken' ELSE login
  /\ held' \in [Tabs -> 0..lastToken']
  /\ \/ lost' = TRUE
     \/ lost' = FALSE /\ held'[tab] = lastToken'

\* A token that is made is a new one.
LEMMA MakeToken ==
  ASSUME TokensInv, NEW tab \in Tabs, NEW login \in 0..lastToken, Make(tab, login)
  PROVE  Made(tab, login)
<1> USE TokensAssumption DEF Token
<1>1. /\ lastToken \in 0..MaxTokens /\ lastToken + 1 \in Token /\ lastToken' = lastToken + 1
      /\ loginOf' = [loginOf EXCEPT ![lastToken + 1] = IF login = 0 THEN lastToken + 1 ELSE login]
      /\ loginOf \in [Token -> 0..lastToken]
      /\ held \in [Tabs -> 0..lastToken]
  BY DEF Make, TokensInv, TokensTypeOK
<1>2. loginOf' \in [Token -> 0..lastToken']
  BY <1>1
<1>3. /\ \A t \in Token : t <= lastToken => loginOf'[t] = loginOf[t]
      /\ loginOf'[lastToken'] = IF login = 0 THEN lastToken' ELSE login
  BY <1>1
<1>4. \/ held' = [held EXCEPT ![tab] = lastToken'] /\ lost' = FALSE
      \/ held' = held /\ lost' = TRUE
  BY <1>1 DEF Make
<1>5. /\ held' \in [Tabs -> 0..lastToken']
      /\ lost' = TRUE \/ (lost' = FALSE /\ held'[tab] = lastToken')
  <2>1. CASE held' = held /\ lost' = TRUE
    BY <1>1, <2>1
  <2>2. CASE held' = [held EXCEPT ![tab] = lastToken'] /\ lost' = FALSE
    <3>1. held' \in [Tabs -> 0..lastToken'] /\ held'[tab] = lastToken'
      BY <1>1, <2>2
    <3> QED BY <2>2, <3>1
  <2> QED BY <1>4, <2>1, <2>2
<1> QED BY <1>1, <1>2, <1>3, <1>5 DEF Made

\* The logins of the tokens stay known when a token is made.
LEMMA MakeKnown ==
  ASSUME TokensInv, NEW tab \in Tabs, NEW login \in 0..lastToken, Make(tab, login)
  PROVE  LoginsKnown'
<1> USE TokensAssumption DEF Token
<1>1. Made(tab, login)
  BY MakeToken
<1>2. SUFFICES ASSUME NEW t \in Token, t <= lastToken'
               PROVE  loginOf'[t] \in 1..t
  BY DEF LoginsKnown
<1>3. CASE t <= lastToken
  BY <1>1, <1>3 DEF Made, TokensInv, LoginsKnown
<1>4. CASE t = lastToken'
  BY <1>1, <1>4 DEF Made
<1> QED BY <1>1, <1>2, <1>3, <1>4 DEF Made

\* A login.
LEMMA LoginStep ==
  ASSUME TokensInv, NEW tab \in Tabs, Login(tab)
  PROVE  TokensInv'
<1> USE TokensAssumption DEF Token
<1>1. /\ Make(tab, 0) /\ stored' = lastToken + 1 /\ renewing' = renewing
      /\ ended' = ended /\ status' = status
      /\ crossed' = (crossed \/ \E c \in Tabs : renewing[c] # 0 /\ loginOf[renewing[c]] <= ended)
  BY DEF Login, Upsert
<1>2. /\ {stored, ended} \subseteq 0..lastToken /\ lastToken \in 0..MaxTokens
      /\ renewing \in [Tabs -> 0..lastToken] /\ loginOf \in [Token -> 0..lastToken]
  BY DEF TokensInv, TokensTypeOK
<1>3. 0 \in 0..lastToken
  BY <1>2
<1>a. Made(tab, 0)
  BY <1>1, <1>3, MakeToken
<1>4. TokensTypeOK'
  <2>1. /\ status' \in {"normal", "frozen", "deleted"} /\ crossed' \in BOOLEAN /\ lost' \in BOOLEAN
    BY <1>1, <1>a DEF TokensInv, TokensTypeOK, Made
  <2>2. {stored', ended'} \subseteq 0..lastToken' /\ lastToken' \in 0..MaxTokens
    BY <1>1, <1>2, <1>3, <1>a DEF Made
  <2>3. renewing' \in [Tabs -> 0..lastToken']
    BY <1>1, <1>2, <1>3, <1>a DEF Made
  <2> QED BY <2>1, <2>2, <2>3, <1>a DEF Made, TokensTypeOK
<1>5. LoginsKnown'
  BY <1>1, <1>3, MakeKnown
<1>6. RenewalsCurrent'
  <2>1. SUFFICES ASSUME NEW c \in Tabs, renewing[c] # 0, ~(loginOf'[renewing[c]] > ended)
                 PROVE  crossed'
    BY <1>1 DEF RenewalsCurrent
  <2>2. renewing[c] \in Token /\ renewing[c] <= lastToken /\ loginOf'[renewing[c]] = loginOf[renewing[c]]
    BY <1>1, <1>2, <1>3, <2>1, <1>a DEF Made
  <2>3. loginOf[renewing[c]] <= ended
    BY <1>2, <2>1, <2>2
  <2> QED BY <1>1, <2>1, <2>3
<1>7. LogoutIsFinal'
  BY <1>1, <1>2, <1>a DEF Made, LogoutIsFinal
<1> QED BY <1>4, <1>5, <1>6, <1>7 DEF TokensInv

\* A renewal.
LEMMA RenewStep ==
  ASSUME TokensInv, NEW tab \in Tabs, Renew(tab)
  PROVE  TokensInv'
<1> USE TokensAssumption DEF Token
<1> DEFINE login == loginOf[renewing[tab]]
<1>1. /\ renewing[tab] # 0 /\ Make(tab, login)
      /\ stored' = IF stored = 0 THEN 0 ELSE lastToken + 1
      /\ renewing' = [renewing EXCEPT ![tab] = 0]
      /\ ended' = ended /\ status' = status /\ crossed' = crossed
  BY DEF Renew, UpdateRow
<1>2. /\ {stored, ended} \subseteq 0..lastToken /\ lastToken \in 0..MaxTokens
      /\ renewing \in [Tabs -> 0..lastToken] /\ loginOf \in [Token -> 0..lastToken]
  BY DEF TokensInv, TokensTypeOK
<1>3. renewing[tab] \in Token /\ login \in 0..lastToken /\ login # 0
  BY <1>1, <1>2 DEF TokensInv, LoginsKnown
<1>a. Made(tab, login)
  BY <1>1, <1>3, MakeToken
<1> HIDE DEF login
<1>4. TokensTypeOK'
  <2>1. /\ status' \in {"normal", "frozen", "deleted"} /\ crossed' \in BOOLEAN /\ lost' \in BOOLEAN
    BY <1>1, <1>a DEF TokensInv, TokensTypeOK, Made
  <2>2. {stored', ended'} \subseteq 0..lastToken' /\ lastToken' \in 0..MaxTokens
    BY SMTT(30), <1>1, <1>2, <1>3, <1>a DEF Made
  <2>3. renewing' \in [Tabs -> 0..lastToken']
    BY SMTT(30), <1>1, <1>2, <1>3, <1>a DEF Made
  <2> QED BY <2>1, <2>2, <2>3, <1>a DEF Made, TokensTypeOK
<1>5. LoginsKnown'
  BY <1>1, <1>3, MakeKnown
<1>6. RenewalsCurrent'
  <2>1. SUFFICES ASSUME stored' # 0, NEW c \in Tabs, renewing'[c] # 0
                 PROVE  loginOf'[renewing'[c]] > ended' \/ crossed'
    BY DEF RenewalsCurrent
  <2>2. renewing'[c] = renewing[c] /\ renewing[c] \in Token /\ renewing[c] <= lastToken
    BY <1>1, <1>2, <2>1
  <2>3. loginOf'[renewing[c]] = loginOf[renewing[c]]
    BY <1>1, <1>3, <2>2, <1>a DEF Made
  <2>4. stored # 0
    BY <1>1, <2>1
  <2> QED BY <1>1, <2>1, <2>2, <2>3, <2>4 DEF TokensInv, RenewalsCurrent
<1>7. LogoutIsFinal'
  <2>1. SUFFICES ASSUME stored' # 0
                 PROVE  loginOf'[stored'] > ended' \/ crossed'
    BY DEF LogoutIsFinal
  <2>2. stored # 0 /\ stored' = lastToken + 1
    BY <1>1, <2>1
  <2>3. loginOf'[stored'] = login
    BY <1>1, <1>3, <2>2, <1>a DEF Made
  <2>4. login > ended \/ crossed
    BY <1>1, <2>2 DEF TokensInv, RenewalsCurrent, login
  <2> QED BY <1>1, <2>3, <2>4
<1> QED BY <1>4, <1>5, <1>6, <1>7 DEF TokensInv

\* The actions that make no token.
LEMMA OtherStep ==
  ASSUME TokensInv,
         \/ \E tab \in Tabs : CheckToken(tab) \/ Logout(tab)
         \/ \E tab, other \in Tabs : Share(tab, other)
         \/ DeleteAccount \/ SetStatus \/ RestartTokens
         \/ UNCHANGED tokenVars
  PROVE  TokensInv'
<1> USE TokensAssumption DEF Token, TokensInv, TokensTypeOK, LoginsKnown, RenewalsCurrent, LogoutIsFinal
\* Both the logout and the deletion leave no row, and end all there is.
<1> DEFINE EndsAll == /\ stored' = 0 /\ ended' = lastToken /\ lost' = FALSE
                      /\ UNCHANGED <<held, renewing, lastToken, loginOf, crossed>>
<1>a. ASSUME EndsAll, status' \in {"normal", "frozen", "deleted"}
      PROVE  TokensInv'
  <2>1. crossed' \in BOOLEAN /\ lost' \in BOOLEAN
    BY <1>a
  <2>2. {stored', ended'} \subseteq 0..lastToken' /\ lastToken' \in 0..MaxTokens
    BY <1>a
  <2>3. /\ held' \in [Tabs -> 0..lastToken'] /\ renewing' \in [Tabs -> 0..lastToken']
        /\ loginOf' \in [Token -> 0..lastToken']
    BY <1>a
  <2>4. LoginsKnown' /\ RenewalsCurrent' /\ LogoutIsFinal'
    BY <1>a
  <2> QED BY <1>a, <2>1, <2>2, <2>3, <2>4
<1>1. ASSUME NEW tab \in Tabs, CheckToken(tab)
      PROVE  TokensInv'
  <2>1. renewing' = [renewing EXCEPT ![tab] = stored] /\ stored # 0
    BY <1>1 DEF CheckToken
  <2>2. RenewalsCurrent'
    BY <1>1, <2>1 DEF CheckToken
  <2> QED BY <1>1, <2>1, <2>2 DEF CheckToken
<1>2. ASSUME NEW tab \in Tabs, Logout(tab)
      PROVE  TokensInv'
  BY <1>2, <1>a DEF Logout
<1>3. ASSUME NEW tab \in Tabs, NEW other \in Tabs, Share(tab, other)
      PROVE  TokensInv'
  BY <1>3 DEF Share
<1>4. CASE DeleteAccount
  BY <1>4, <1>a DEF DeleteAccount
<1>5. CASE SetStatus
  BY <1>5 DEF SetStatus
<1>6. CASE RestartTokens
  BY <1>6 DEF RestartTokens
<1>7. CASE UNCHANGED tokenVars
  BY <1>7 DEF tokenVars
<1> QED BY <1>1, <1>2, <1>3, <1>4, <1>5, <1>6, <1>7

----------------------------------------------------------------------------
\* The invariant above holds in every state, for any tabs and bounds.
THEOREM TokensInvariance == TokensSpec => []TokensInv
<1>1. TokensInit => TokensInv
  <2>1. SUFFICES ASSUME TokensInit
                 PROVE  TokensInv
    OBVIOUS
  <2>2. crossed \in BOOLEAN /\ lost \in BOOLEAN
    BY <2>1 DEF TokensInit
  <2>3. /\ {stored, ended} \subseteq 0..lastToken /\ lastToken \in 0..MaxTokens
        /\ held \in [Tabs -> 0..lastToken] /\ renewing \in [Tabs -> 0..lastToken]
        /\ loginOf \in [Token -> 0..lastToken]
    BY <2>1, TokensAssumption DEF TokensInit
  <2>4. LoginsKnown /\ RenewalsCurrent /\ LogoutIsFinal
    BY <2>1 DEF TokensInit, LoginsKnown, RenewalsCurrent, LogoutIsFinal, Token
  <2> QED BY <2>1, <2>2, <2>3, <2>4 DEF TokensInit, TokensInv, TokensTypeOK
<1>2. TokensInv /\ [TokensNext]_tokenVars => TokensInv'
  BY LoginStep, RenewStep, OtherStep DEF TokensNext
<1> QED BY <1>1, <1>2, PTL DEF TokensSpec

\* A logout and a deletion end every login made before, except where a renewal
\* from before crosses a login from after.
THEOREM LogoutFinal == TokensSpec => []LogoutIsFinal
<1>1. TokensInv => LogoutIsFinal
  BY DEF TokensInv
<1> QED BY <1>1, TokensInvariance, PTL

\* The stored token is always one that a tab holds, unless its answer was lost.
THEOREM TokenHeld == TokensSpec => []TokenIsHeld
<1>1. TokensInit => TokenIsHeld
  BY DEF TokensInit, TokenIsHeld
<1>2. TokensInv /\ TokenIsHeld /\ [TokensNext]_tokenVars => TokenIsHeld'
  <2>1. SUFFICES ASSUME TokensInv, TokenIsHeld, [TokensNext]_tokenVars
                 PROVE  TokenIsHeld'
    OBVIOUS
  <2>2. held \in [Tabs -> 0..lastToken] /\ renewing \in [Tabs -> 0..lastToken]
        /\ lastToken \in Nat /\ 0 \in 0..lastToken
    BY <2>1, TokensAssumption DEF TokensInv, TokensTypeOK
  <2>3. ASSUME NEW tab \in Tabs, Login(tab)
        PROVE  TokenIsHeld'
    <3>1. Make(tab, 0) /\ stored' = lastToken + 1
      BY <2>3 DEF Login, Upsert
    <3>2. Made(tab, 0)
      BY <2>1, <2>2, <3>1, MakeToken
    <3> QED BY <3>1, <3>2 DEF Made, TokenIsHeld
  <2>4. ASSUME NEW tab \in Tabs, Renew(tab)
        PROVE  TokenIsHeld'
    <3>1. /\ Make(tab, loginOf[renewing[tab]]) /\ renewing[tab] # 0
          /\ stored' = IF stored = 0 THEN 0 ELSE lastToken + 1
      BY <2>4 DEF Renew, UpdateRow
    <3>2. loginOf[renewing[tab]] \in 0..lastToken
      BY TokensAssumption, <2>1, <2>2, <3>1 DEF TokensInv, TokensTypeOK, Token
    <3>3. Made(tab, loginOf[renewing[tab]])
      BY <2>1, <3>1, <3>2, MakeToken
    <3> QED BY <3>1, <3>3 DEF Made, TokenIsHeld
  <2>5. ASSUME NEW tab \in Tabs, NEW other \in Tabs, Share(tab, other)
        PROVE  TokenIsHeld'
    <3>1. /\ held' = [held EXCEPT ![other] = held[tab]]
          /\ held[other] # stored \/ \E c \in Tabs \ {other} : held[c] = stored
          /\ stored' = stored /\ lost' = lost
      BY <2>5 DEF Share
    <3> QED BY <2>1, <2>2, <3>1 DEF TokenIsHeld
  <2>6. ASSUME NEW tab \in Tabs, CheckToken(tab) \/ Logout(tab)
        PROVE  TokenIsHeld'
    BY <2>1, <2>6 DEF CheckToken, Logout, TokenIsHeld
  <2>7. CASE DeleteAccount \/ SetStatus \/ RestartTokens \/ UNCHANGED tokenVars
    BY <2>1, <2>7 DEF DeleteAccount, SetStatus, RestartTokens, tokenVars, TokenIsHeld
  <2> QED BY <2>1, <2>3, <2>4, <2>5, <2>6, <2>7 DEF TokensNext
<1> QED BY <1>1, <1>2, TokensInvariance, PTL DEF TokensSpec

----------------------------------------------------------------------------
\* The server's settings.

\* What a request has read is what was last answered, but for the fields that
\* were written since, and those that were wrong when it read them.
ReadersCurrent ==
    \A e \in Editors :
        editing[e].pc = "read" =>
            \A f \in Fields \ (overlaid \cup editing[e].missed) : editing[e].seen[f] = answered[f]

ConfigIInv == ConfigTypeOK /\ InstanceAgrees /\ ReadersCurrent /\ CommonKept

\* There is no setting half set, nor read, at the start.
LEMMA ConfigInitially == ConfigInit => ConfigIInv
  BY DEF ConfigInit, ConfigIInv, ConfigTypeOK, InstanceAgrees, ReadersCurrent, CommonKept,
         Common, EditState, NoEdit

\* A request that is past reading is a record with these fields.
LEMMA ReadShape ==
  ASSUME ConfigTypeOK, NEW e \in Editors, editing[e].pc = "read"
  PROVE  /\ editing[e].seen \in Common /\ editing[e].field \in Fields
         /\ editing[e].value \in Values /\ editing[e].missed \subseteq Fields
         /\ editing[e] = [pc |-> "read", seen |-> editing[e].seen, field |-> editing[e].field,
                          value |-> editing[e].value, missed |-> editing[e].missed]
  BY DEF ConfigTypeOK, EditState, NoEdit

\* What is merged is a row, with the field of the request and what it read.
LEMMA MergedFields ==
  ASSUME ConfigTypeOK, NEW e \in Editors, editing[e].pc = "read"
  PROVE  /\ Merged(editing[e]) \in Common
         /\ Merged(editing[e])[editing[e].field] = editing[e].value
         /\ \A f \in Fields \ {editing[e].field} : Merged(editing[e])[f] = editing[e].seen[f]
  BY ReadShape DEF Merged, Common

\* Every step keeps the types.
LEMMA TypesKept == ConfigTypeOK /\ [ConfigNext]_configVars => ConfigTypeOK'
<1> SUFFICES ASSUME ConfigTypeOK, [ConfigNext]_configVars PROVE ConfigTypeOK'
  OBVIOUS
<1>1. ASSUME NEW e \in Editors, NEW v \in Values, StoreConfig(e, v) PROVE ConfigTypeOK'
  BY <1>1 DEF ConfigTypeOK, StoreConfig, EditState
<1>2. ASSUME NEW e \in Editors, NEW f \in Fields, NEW v \in Values, ReadCommon(e, f, v)
      PROVE  ConfigTypeOK'
  BY <1>2 DEF ConfigTypeOK, ReadCommon, EditState
<1>3. ASSUME NEW e \in Editors, CacheConfig(e) PROVE ConfigTypeOK'
  <2>1. editing[e].value \in Values
    BY <1>3 DEF ConfigTypeOK, CacheConfig, EditState, NoEdit
  <2> QED BY <1>3, <2>1 DEF ConfigTypeOK, CacheConfig, NewInstance, EditState
<1>4. ASSUME NEW e \in Editors, WriteCommon(e) PROVE ConfigTypeOK'
  <2>1. editing[e].pc = "read"
    BY <1>4 DEF WriteCommon
  <2>2. commonRow' \in Common /\ answered' \in Common
    BY <1>4, <2>1, ReadShape, MergedFields DEF WriteCommon, ConfigTypeOK, Common
  <2>3. overlaid' \subseteq Fields
    BY <1>4, <2>1, ReadShape DEF WriteCommon, ConfigTypeOK
  <2>4. editing' \in [Editors -> EditState]
    <3> SUFFICES ASSUME NEW x \in Editors PROVE editing'[x] \in EditState
      BY <1>4 DEF WriteCommon
    <3>1. CASE x = e
      BY <1>4, <3>1 DEF WriteCommon, EditState
    <3>2. CASE x # e /\ editing[x].pc = "read"
      <4>1. editing'[x] = [editing[x] EXCEPT !.missed = @ \cup {editing[e].field}]
        BY <1>4, <3>2 DEF WriteCommon
      <4>2. editing'[x] = [pc |-> "read", seen |-> editing[x].seen, field |-> editing[x].field,
                           value |-> editing[x].value,
                           missed |-> editing[x].missed \cup {editing[e].field}]
        BY <4>1, <3>2, ReadShape
      <4>3. /\ editing[x].seen \in Common /\ editing[x].field \in Fields
            /\ editing[x].value \in Values
            /\ editing[x].missed \cup {editing[e].field} \in SUBSET Fields
        BY <3>2, <2>1, ReadShape
      <4> QED BY <4>2, <4>3 DEF EditState
    <3>3. CASE x # e /\ editing[x].pc # "read"
      BY <1>4, <3>3 DEF WriteCommon, ConfigTypeOK
    <3> QED BY <3>1, <3>2, <3>3
  <2> QED BY <1>4, <2>2, <2>3, <2>4 DEF WriteCommon, ConfigTypeOK
<1>5. ASSUME NEW e \in Editors, DropEdit(e) PROVE ConfigTypeOK'
  BY <1>5 DEF ConfigTypeOK, DropEdit, EditState
<1>6. CASE RestartConfig
  BY <1>6 DEF ConfigTypeOK, RestartConfig, EditState
<1>7. CASE UNCHANGED configVars
  BY <1>7 DEF ConfigTypeOK, configVars
<1> QED
  BY <1>1, <1>2, <1>3, <1>4, <1>5, <1>6, <1>7 DEF ConfigNext

\* Every step keeps row and instance together, but for the exempted.
LEMMA InstanceKept == ConfigTypeOK /\ InstanceAgrees /\ [ConfigNext]_configVars => InstanceAgrees'
<1> SUFFICES ASSUME ConfigTypeOK, InstanceAgrees, [ConfigNext]_configVars,
                    \A e \in Editors : editing'[e].pc # "stored", ~unsettled'
             PROVE  instance' = configRow'
  BY DEF InstanceAgrees
<1>1. ASSUME NEW e \in Editors, NEW v \in Values, StoreConfig(e, v) PROVE FALSE
  \* The request's own set is half done.
  BY <1>1 DEF ConfigTypeOK, StoreConfig
<1>2. ASSUME NEW e \in Editors, NEW f \in Fields, NEW v \in Values, ReadCommon(e, f, v)
      PROVE  instance' = configRow'
  BY <1>2 DEF ConfigTypeOK, ReadCommon, InstanceAgrees
<1>3. ASSUME NEW e \in Editors, CacheConfig(e) PROVE instance' = configRow'
  BY <1>3 DEF CacheConfig, NewInstance
<1>4. ASSUME NEW e \in Editors, WriteCommon(e) PROVE instance' = configRow'
  <2>1. \A x \in Editors : editing[x].pc # "stored"
    <3> SUFFICES ASSUME NEW x \in Editors, editing[x].pc = "stored" PROVE FALSE
      OBVIOUS
    <3> QED BY <1>4 DEF WriteCommon
  <2> QED BY <1>4, <2>1 DEF WriteCommon, InstanceAgrees
<1>5. ASSUME NEW e \in Editors, DropEdit(e) PROVE instance' = configRow'
  BY <1>5 DEF ConfigTypeOK, DropEdit, InstanceAgrees
<1>6. CASE RestartConfig
  BY <1>6 DEF RestartConfig
<1>7. CASE UNCHANGED configVars
  BY <1>7 DEF InstanceAgrees, configVars
<1> QED
  BY <1>1, <1>2, <1>3, <1>4, <1>5, <1>6, <1>7 DEF ConfigNext

\* Every step keeps what the requests have read, and the row they will replace.
LEMMA FieldsKept ==
  ConfigTypeOK /\ ReadersCurrent /\ CommonKept /\ [ConfigNext]_configVars
      => ReadersCurrent' /\ CommonKept'
<1> SUFFICES ASSUME ConfigTypeOK, ReadersCurrent, CommonKept, [ConfigNext]_configVars
             PROVE  ReadersCurrent' /\ CommonKept'
  OBVIOUS
<1>1. ASSUME NEW e \in Editors, NEW v \in Values, StoreConfig(e, v)
      PROVE  ReadersCurrent' /\ CommonKept'
  BY <1>1 DEF ConfigTypeOK, StoreConfig, ReadersCurrent, CommonKept
<1>2. ASSUME NEW e \in Editors, NEW f \in Fields, NEW v \in Values, ReadCommon(e, f, v)
      PROVE  ReadersCurrent' /\ CommonKept'
  \* The request reads the row, which is right but for the fields overlaid.
  BY <1>2 DEF ConfigTypeOK, ReadCommon, ReadersCurrent, CommonKept
<1>3. ASSUME NEW e \in Editors, CacheConfig(e) PROVE ReadersCurrent' /\ CommonKept'
  BY <1>3 DEF ConfigTypeOK, CacheConfig, NoEdit, ReadersCurrent, CommonKept
<1>4. ASSUME NEW e \in Editors, WriteCommon(e) PROVE ReadersCurrent' /\ CommonKept'
  <2> DEFINE edit == editing[e]
  <2>1. edit.pc = "read" /\ edit.field \in Fields
    BY <1>4, ReadShape DEF WriteCommon
  <2>2. /\ answered'[edit.field] = edit.value
        /\ \A f \in Fields \ {edit.field} : answered'[f] = answered[f]
    BY <1>4, <2>1 DEF WriteCommon, ConfigTypeOK, Common
  <2>3. overlaid' = (overlaid \cup edit.missed) \ {edit.field} /\ commonRow' = Merged(edit)
    BY <1>4 DEF WriteCommon
  <2>4. CommonKept'
    <3> SUFFICES ASSUME NEW f \in Fields, f \notin overlaid' PROVE commonRow'[f] = answered'[f]
      BY DEF CommonKept
    <3>1. CASE f = edit.field
      BY <3>1, <2>1, <2>2, <2>3, MergedFields
    <3>2. CASE f # edit.field
      <4>1. edit.seen[f] = answered[f]
        BY <3>2, <2>1, <2>3 DEF ReadersCurrent
      <4> QED BY <4>1, <3>2, <2>1, <2>2, <2>3, MergedFields
    <3> QED BY <3>1, <3>2
  <2>5. ReadersCurrent'
    <3> SUFFICES ASSUME NEW x \in Editors, editing'[x].pc = "read",
                        NEW f \in Fields, f \notin overlaid', f \notin editing'[x].missed
                 PROVE  editing'[x].seen[f] = answered'[f]
      BY DEF ReadersCurrent
    <3>1. x # e /\ editing[x].pc = "read"
      BY <1>4 DEF WriteCommon, NoEdit
    <3>2. editing'[x] = [editing[x] EXCEPT !.missed = @ \cup {edit.field}]
      BY <1>4, <3>1 DEF WriteCommon
    <3>3. /\ editing'[x].seen = editing[x].seen
          /\ editing'[x].missed = editing[x].missed \cup {edit.field}
      BY <3>1, <3>2, ReadShape
    <3>4. f # edit.field /\ f \notin overlaid /\ f \notin editing[x].missed
      BY <3>3, <2>3
    <3> QED BY <3>1, <3>3, <3>4, <2>2 DEF ReadersCurrent
  <2> QED BY <2>4, <2>5
<1>5. ASSUME NEW e \in Editors, DropEdit(e) PROVE ReadersCurrent' /\ CommonKept'
  BY <1>5 DEF ConfigTypeOK, DropEdit, NoEdit, ReadersCurrent, CommonKept
<1>6. CASE RestartConfig
  BY <1>6 DEF RestartConfig, NoEdit, ReadersCurrent, CommonKept
<1>7. CASE UNCHANGED configVars
  BY <1>7 DEF ReadersCurrent, CommonKept, configVars
<1> QED
  BY <1>1, <1>2, <1>3, <1>4, <1>5, <1>6, <1>7 DEF ConfigNext

\* The invariant holds throughout.
LEMMA ConfigInvariance == ConfigSpec => []ConfigIInv
<1>1. ConfigIInv /\ [ConfigNext]_configVars => ConfigIInv'
  BY TypesKept, InstanceKept, FieldsKept DEF ConfigIInv
<1> QED BY ConfigInitially, <1>1, PTL DEF ConfigSpec

\* The instance that the handlers read is the stored setting whenever no set is
\* half done or was left so.
THEOREM InstanceHeld == ConfigSpec => []InstanceAgrees
<1>1. ConfigIInv => InstanceAgrees
  BY DEF ConfigIInv
<1> QED BY ConfigInvariance, <1>1, PTL

\* A field of the common settings is what it was last set to, unless a request
\* for another field that had read it before overwrote it.
THEOREM CommonHeld == ConfigSpec => []CommonKept
<1>1. ConfigIInv => CommonKept
  BY DEF ConfigIInv
<1> QED BY ConfigInvariance, <1>1, PTL

----------------------------------------------------------------------------
\* One-time keys.

Unused(k) == k \in DOMAIN otks /\ ~otks[k]

Selected(p, k) == peer[p].pc = "selected" /\ peer[p].key = k

\* Nothing is known of a key that was not made yet.
KeysKnown ==
    /\ \A k \in Otk : k > lastKey => handed[k] = 0
    /\ making.keys \subseteq 1..lastKey
    /\ \A p \in Peers : /\ peer[p].pc # "idle" => peer[p].key \in 1..lastKey
                        /\ peer[p].loaded \subseteq 1..lastKey

\* The server's keys that are still to be stored are in nobody's hands.
StoredOnce ==
    owner = "server" =>
        /\ making.keys \cap DOMAIN otks = {}
        /\ \A k \in Otk : handed[k] > 0 => k \in DOMAIN otks
        /\ \A p \in Peers : peer[p].pc = "selected" => peer[p].key \in DOMAIN otks

HandedIsUsed == \A k \in Otk \ blurredKeys : Unused(k) => handed[k] = 0

ClaimsApart ==
    \A k \in Otk \ blurredKeys, p \in Peers :
        Selected(p, k) => handed[k] = 0 /\ \A q \in Peers : Selected(q, k) => q = p

KeysIInv ==
    KeysTypeOK /\ KeysKnown /\ StoredOnce /\ HandedIsUsed /\ ClaimsApart /\ ClaimedOnce

\* There is no key at the start.
LEMMA KeysInitially == KeysInit => KeysIInv
<1> SUFFICES ASSUME KeysInit PROVE KeysIInv
  OBVIOUS
<1> USE BatchAssumption, MaxKeysAssumption DEF Otk, KeysInit
<1>1. KeysTypeOK
  BY DEF KeysTypeOK, Making, IdlePeer
<1>2. KeysKnown /\ StoredOnce
  BY DEF KeysKnown, StoredOnce, IdlePeer
<1>3. HandedIsUsed /\ ClaimsApart /\ ClaimedOnce
  BY DEF HandedIsUsed, ClaimsApart, ClaimedOnce, Unused, Selected, IdlePeer
<1> QED BY <1>1, <1>2, <1>3 DEF KeysIInv

\* The keys generated at once are new ones.
LEMMA NewBatch ==
  ASSUME KeysIInv, Batch \subseteq Otk
  PROVE  /\ lastKey \in 0..MaxKeys /\ lastKey + BatchSize \in 0..MaxKeys
         /\ lastKey + BatchSize > lastKey
         /\ Batch \in SUBSET Otk /\ Batch \subseteq 1..lastKey + BatchSize
         /\ Batch \cap 1..lastKey = {}
<1> USE BatchAssumption, MaxKeysAssumption
<1>1. lastKey \in 0..MaxKeys
  BY DEF KeysIInv, KeysTypeOK
<1>2. lastKey + BatchSize \in Otk
  BY <1>1 DEF Batch
<1> QED BY <1>1, <1>2 DEF Batch, Otk

\* Making keys, for either device: nobody has one of them.
LEMMA MakeKept ==
  ASSUME KeysIInv, Ensure \/ Generate
  PROVE  KeysIInv'
<1> USE BatchAssumption, MaxKeysAssumption
<1>1. Batch \subseteq Otk
  BY DEF Ensure, Generate
<1>2. /\ lastKey' = lastKey + BatchSize
      /\ making' \in Making /\ making'.keys = Batch
      /\ account' = account \/ account' = Batch
      /\ UNCHANGED <<owner, otks, peer, handed, blurredKeys, spoilt, refused>>
  BY <1>1, NewBatch DEF Ensure, Generate, Making
<1>3. KeysTypeOK'
  <2>1. lastKey' \in 0..MaxKeys /\ 1..lastKey \subseteq 1..lastKey'
    BY <1>1, <1>2, NewBatch
  <2>2. account' \subseteq 1..lastKey'
    <3>1. account \subseteq 1..lastKey
      BY DEF KeysIInv, KeysTypeOK
    <3> QED BY <1>1, <1>2, <2>1, <3>1, NewBatch
  <2>3. DOMAIN otks' \subseteq 1..lastKey' /\ \A k \in DOMAIN otks' : otks'[k] \in BOOLEAN
    BY <1>2, <2>1 DEF KeysIInv, KeysTypeOK
  <2> QED BY <1>2, <2>1, <2>2, <2>3 DEF KeysIInv, KeysTypeOK
<1>4. KeysKnown'
  <2>1. lastKey \in 0..MaxKeys /\ lastKey' \in 0..MaxKeys /\ lastKey' > lastKey
    BY <1>1, <1>2, NewBatch
  <2>2. \A k \in Otk : k > lastKey' => handed'[k] = 0
    BY <1>2, <2>1 DEF KeysIInv, KeysKnown, Otk
  <2>3. making'.keys \subseteq 1..lastKey'
    BY <1>1, <1>2, NewBatch
  <2>4. 1..lastKey \subseteq 1..lastKey'
    BY <2>1
  <2> QED BY <1>2, <2>2, <2>3, <2>4 DEF KeysIInv, KeysKnown
<1>5. StoredOnce'
  BY <1>1, <1>2, NewBatch DEF KeysIInv, KeysTypeOK, StoredOnce
<1>6. HandedIsUsed' /\ ClaimsApart' /\ ClaimedOnce'
  BY <1>2 DEF KeysIInv, HandedIsUsed, ClaimsApart, ClaimedOnce, Unused, Selected
<1> QED BY <1>3, <1>4, <1>5, <1>6 DEF KeysIInv

\* The server's device is stored: no key is touched.
LEMMA StoreDeviceKept == KeysIInv /\ StoreDevice => KeysIInv'
<1> SUFFICES ASSUME KeysIInv, StoreDevice PROVE KeysIInv'
  OBVIOUS
<1>1. making' \in Making /\ making'.keys = making.keys
  BY DEF StoreDevice, KeysIInv, KeysTypeOK, Making
<1> QED
  BY <1>1 DEF StoreDevice, KeysIInv, KeysTypeOK, KeysKnown, StoredOnce, HandedIsUsed, ClaimsApart,
              ClaimedOnce, Unused, Selected

\* A key that the server stores was not in the table, so nobody was given it.
LEMMA StoreOtkKept ==
  ASSUME NEW k \in Otk, KeysIInv, StoreOtk(k)
  PROVE  KeysIInv'
<1>1. /\ owner = "server" /\ k \in making.keys /\ k \notin DOMAIN otks
      /\ handed[k] = 0 /\ \A p \in Peers : ~Selected(p, k)
      /\ k \in 1..lastKey
  BY DEF StoreOtk, KeysIInv, StoredOnce, KeysKnown, KeysTypeOK, Selected
<1>2. /\ DOMAIN otks' = DOMAIN otks \cup {k}
      /\ \A j \in DOMAIN otks' : otks'[j] = (j # k /\ otks[j])
  BY <1>1 DEF StoreOtk
<1>3. making' \in Making /\ making'.keys = making.keys \ {k}
  BY DEF StoreOtk, KeysIInv, KeysTypeOK, Making
<1>4. UNCHANGED <<owner, account, lastKey, peer, handed, blurredKeys, spoilt, refused>>
  BY DEF StoreOtk
<1>5. KeysTypeOK'
  BY <1>1, <1>2, <1>3, <1>4 DEF KeysIInv, KeysTypeOK
<1>6. KeysKnown' /\ StoredOnce'
  BY <1>1, <1>2, <1>3, <1>4 DEF KeysIInv, KeysKnown, StoredOnce
<1>7. HandedIsUsed' /\ ClaimsApart' /\ ClaimedOnce'
  <2>1. \A j \in Otk : Unused(j)' => j = k \/ Unused(j)
    BY <1>2 DEF Unused
  <2>2. HandedIsUsed'
    BY <2>1, <1>1, <1>4 DEF KeysIInv, HandedIsUsed
  <2> QED BY <2>2, <1>4 DEF KeysIInv, ClaimsApart, ClaimedOnce, Selected
<1> QED BY <1>5, <1>6, <1>7 DEF KeysIInv

\* An upload stores as unused what was uploaded, exempted where somebody has it,
\* and what was unused before.
LEMMA UploadKept == KeysIInv /\ Upload => KeysIInv'
<1> SUFFICES ASSUME KeysIInv, Upload PROVE KeysIInv'
  OBVIOUS
<1>1. /\ owner = "bridge" /\ making.keys \subseteq 1..lastKey
      /\ blurredKeys' = blurredKeys \cup
            {k \in making.keys : handed[k] > 0 \/ \E p \in Peers : peer[p].key = k}
      /\ UNCHANGED <<owner, account, lastKey, peer, handed, spoilt, refused>>
  BY DEF Upload, KeysIInv, KeysKnown
<1>2. /\ DOMAIN otks' = making.keys \cup {j \in DOMAIN otks : ~otks[j]}
      /\ \A j \in DOMAIN otks' : otks'[j] = FALSE
  BY DEF Upload
<1>3. making' \in Making /\ making'.keys \subseteq making.keys
  BY DEF Upload, KeysIInv, KeysTypeOK, Making
<1>4. KeysTypeOK'
  BY <1>1, <1>2, <1>3, BatchAssumption, MaxKeysAssumption DEF KeysIInv, KeysTypeOK, Making
<1>5. KeysKnown' /\ StoredOnce'
  BY <1>1, <1>3 DEF KeysIInv, KeysKnown, StoredOnce
<1>6. HandedIsUsed'
  <2> SUFFICES ASSUME NEW k \in Otk, k \notin blurredKeys', k \in DOMAIN otks' PROVE handed[k] = 0
    BY <1>1 DEF HandedIsUsed, Unused
  <2>1. CASE k \in making.keys
    BY <1>1, <2>1 DEF KeysIInv, KeysTypeOK
  <2>2. CASE k \in DOMAIN otks /\ ~otks[k]
    BY <1>1, <2>2 DEF KeysIInv, HandedIsUsed, Unused
  <2> QED BY <1>2, <2>1, <2>2
<1>7. ClaimsApart' /\ ClaimedOnce'
  BY <1>1 DEF KeysIInv, ClaimsApart, ClaimedOnce, Selected
<1> QED BY <1>4, <1>5, <1>6, <1>7 DEF KeysIInv

\* A claim selects a key that is unused, hence was not handed out.
LEMMA SelectKept ==
  ASSUME NEW p \in Peers, NEW k \in Otk, KeysIInv, Select(p, k)
  PROVE  KeysIInv'
<1>1. /\ Unused(k) /\ k \in 1..lastKey /\ k \in 0..MaxKeys
      /\ peer' = [peer EXCEPT ![p] = [pc |-> "selected", key |-> k, loaded |-> {}]]
      /\ blurredKeys \subseteq blurredKeys' /\ blurredKeys' \subseteq Otk
      /\ \A q \in Peers : Selected(q, k) => k \in blurredKeys'
      /\ UNCHANGED <<owner, account, otks, making, lastKey, handed, spoilt, refused>>
  BY MaxKeysAssumption DEF Select, KeysIInv, KeysTypeOK, Unused, Selected, Otk
<1>2. peer \in [Peers -> [pc : {"idle", "selected", "holding", "loaded"}, key : 0..MaxKeys, loaded : SUBSET Otk]]
  BY DEF KeysIInv, KeysTypeOK
<1>3. KeysTypeOK'
  BY <1>1, <1>2 DEF KeysIInv, KeysTypeOK
<1>4. KeysKnown' /\ StoredOnce'
  BY <1>1, <1>2 DEF KeysIInv, KeysKnown, StoredOnce, Unused
<1>5. HandedIsUsed' /\ ClaimedOnce'
  BY <1>1 DEF KeysIInv, HandedIsUsed, ClaimedOnce, Unused
<1>6. ClaimsApart'
  <2> SUFFICES ASSUME NEW j \in Otk, j \notin blurredKeys', NEW q \in Peers, Selected(q, j)'
               PROVE  handed[j] = 0 /\ \A r \in Peers : Selected(r, j)' => r = q
    BY <1>1 DEF ClaimsApart
  <2>1. CASE j = k
    BY <1>1, <1>2, <2>1 DEF KeysIInv, HandedIsUsed, Selected
  <2>2. CASE j # k
    BY <1>1, <1>2, <2>2 DEF KeysIInv, ClaimsApart, Selected
  <2> QED BY <2>1, <2>2
<1> QED BY <1>3, <1>4, <1>5, <1>6 DEF KeysIInv

\* The claim marks the key, or the key is exempted.
LEMMA ClaimKept ==
  ASSUME NEW p \in Peers, KeysIInv, Claim(p)
  PROVE  KeysIInv'
<1> DEFINE k == peer[p].key
<1>1. /\ peer \in [Peers -> [pc : {"idle", "selected", "holding", "loaded"}, key : 0..MaxKeys, loaded : SUBSET Otk]]
      /\ handed \in [Otk -> Nat] /\ Selected(p, k) /\ k \in 1..lastKey /\ k \in Otk
  BY MaxKeysAssumption DEF Claim, KeysIInv, KeysTypeOK, KeysKnown, Selected, Otk
<1>2. /\ handed' = [handed EXCEPT ![k] = @ + 1]
      /\ peer' = [peer EXCEPT ![p].pc = "holding"]
      /\ spoilt' = spoilt \/ spoilt' = spoilt \cup {k}
      /\ UNCHANGED <<owner, account, making, lastKey, refused>>
  BY DEF Claim
<1>3. /\ blurredKeys \subseteq blurredKeys' /\ blurredKeys' \subseteq Otk
      /\ DOMAIN otks' = DOMAIN otks
      /\ \A j \in DOMAIN otks : otks'[j] \in BOOLEAN /\ (~otks'[j] => ~otks[j])
      /\ k \in blurredKeys' \/ (k \in DOMAIN otks => otks'[k])
  BY <1>1 DEF Claim, MarkUsed, KeysIInv, KeysTypeOK
<1>4. \A q \in Peers : /\ peer'[q].key = peer[q].key /\ peer'[q].loaded = peer[q].loaded
                       /\ q # p => peer'[q].pc = peer[q].pc
  BY <1>1, <1>2
<1>5. peer'[p].pc = "holding" /\ peer[p].pc = "selected"
  BY <1>1, <1>2 DEF Selected
<1>6. \A j \in Otk : handed'[j] = IF j = k THEN handed[k] + 1 ELSE handed[j]
  BY <1>1, <1>2
<1>7. KeysTypeOK'
  <2>1. handed' \in [Otk -> Nat] /\ blurredKeys' \cup spoilt' \cup refused' \subseteq Otk
    BY <1>1, <1>2, <1>3 DEF KeysIInv, KeysTypeOK
  <2>2. peer' \in [Peers -> [pc : {"idle", "selected", "holding", "loaded"}, key : 0..MaxKeys, loaded : SUBSET Otk]]
    BY <1>1, <1>2
  <2> QED BY <2>1, <2>2, <1>2, <1>3 DEF KeysIInv, KeysTypeOK
<1>8. KeysKnown'
  BY <1>1, <1>2, <1>4, <1>5, <1>6, MaxKeysAssumption DEF KeysIInv, KeysTypeOK, KeysKnown
<1>9. StoredOnce'
  <2> SUFFICES ASSUME owner = "server"
               PROVE  /\ making.keys \cap DOMAIN otks = {}
                      /\ \A j \in Otk : handed'[j] > 0 => j \in DOMAIN otks
                      /\ \A q \in Peers : peer'[q].pc = "selected" => peer[q].key \in DOMAIN otks
    BY <1>2, <1>3, <1>4 DEF StoredOnce
  <2> QED BY <1>4, <1>5, <1>6 DEF KeysIInv, StoredOnce
<1>10. HandedIsUsed'
  <2> SUFFICES ASSUME NEW j \in Otk, j \notin blurredKeys', j \in DOMAIN otks, ~otks'[j]
               PROVE  handed'[j] = 0
    BY <1>3 DEF HandedIsUsed, Unused
  <2>1. j # k /\ ~otks[j] /\ j \notin blurredKeys
    BY <1>3
  <2> QED BY <2>1, <1>6 DEF KeysIInv, HandedIsUsed, Unused
<1>11. ClaimsApart'
  <2> SUFFICES ASSUME NEW j \in Otk, j \notin blurredKeys', NEW q \in Peers, Selected(q, j)'
               PROVE  handed'[j] = 0 /\ \A r \in Peers : Selected(r, j)' => r = q
    BY DEF ClaimsApart
  <2>1. q # p /\ Selected(q, j) /\ j \notin blurredKeys
    BY <1>3, <1>4, <1>5 DEF Selected
  <2>2. handed[j] = 0 /\ \A r \in Peers : Selected(r, j) => r = q
    BY <2>1 DEF KeysIInv, ClaimsApart
  <2>3. j # k
    BY <2>1, <2>2, <1>1
  <2> QED BY <2>2, <2>3, <1>4, <1>5, <1>6 DEF Selected
<1>12. ClaimedOnce'
  <2> SUFFICES ASSUME NEW j \in Otk, j \notin blurredKeys' PROVE handed'[j] <= 1
    BY DEF ClaimedOnce
  <2>1. CASE j = k
    BY <2>1, <1>1, <1>3, <1>6 DEF KeysIInv, ClaimsApart
  <2>2. CASE j # k
    BY <2>2, <1>3, <1>6 DEF KeysIInv, ClaimedOnce
  <2> QED BY <2>1, <2>2
<1> QED BY <1>7, <1>8, <1>9, <1>10, <1>11, <1>12 DEF KeysIInv

\* What happens to the messages, and to a bridge, neither claims nor stores a key.
LEMMA MessageKept ==
  ASSUME KeysIInv, NEW p \in Peers, Load(p) \/ Save(p) \/ SendAgain(p) \/ GiveUp(p)
  PROVE  KeysIInv'
<1> DEFINE Peer == [pc : {"idle", "selected", "holding", "loaded"}, key : 0..MaxKeys, loaded : SUBSET Otk]
<1>1. /\ lastKey \in 0..MaxKeys /\ account \subseteq 1..lastKey /\ account \subseteq Otk
      /\ peer \in [Peers -> Peer]
      /\ peer[p].loaded \subseteq 1..lastKey
      /\ peer[p].pc # "idle" => peer[p].key \in 1..lastKey /\ peer[p].key \in Otk
  BY MaxKeysAssumption DEF KeysIInv, KeysTypeOK, KeysKnown, Otk
<1>2. \E x \in Peer : /\ peer' = [peer EXCEPT ![p] = x]
                      /\ x.pc # "selected"
                      /\ x.pc # "idle" => x.key \in 1..lastKey
                      /\ x.loaded \subseteq 1..lastKey
  <2>1. CASE Load(p)
    <3> DEFINE loaded == [pc |-> "loaded", key |-> peer[p].key, loaded |-> account]
    <3>1. loaded \in Peer /\ IdlePeer \in Peer
      BY <2>1, <1>1, MaxKeysAssumption DEF Load, IdlePeer
    <3>2. CASE peer[p].key \in account
      <4>1. peer' = [peer EXCEPT ![p] = loaded]
        BY <2>1, <3>2 DEF Load
      <4>2. peer[p].key \in 1..lastKey
        BY <2>1, <1>1 DEF Load
      <4> HIDE DEF Peer
      <4> QED BY <4>1, <4>2, <3>1, <1>1
    <3>3. CASE peer[p].key \notin account
      <4>1. peer' = [peer EXCEPT ![p] = IdlePeer]
        BY <2>1, <3>3 DEF Load
      <4> HIDE DEF Peer
      <4> QED BY <4>1, <3>1 DEF IdlePeer
    <3> QED BY <3>2, <3>3
  <2>2. CASE Save(p) \/ GiveUp(p)
    BY <2>2, <1>1, MaxKeysAssumption DEF Save, GiveUp, IdlePeer
  <2>3. CASE SendAgain(p)
    <3> DEFINE again == [pc |-> "holding", key |-> peer[p].key, loaded |-> {}]
    <3>1. peer' = [peer EXCEPT ![p] = again] /\ peer[p].key \in 1..lastKey
      BY <2>3, <1>1 DEF SendAgain
    <3>2. again \in Peer
      BY <1>1
    <3> HIDE DEF Peer
    <3> QED BY <3>1, <3>2
  <2> QED BY <2>1, <2>2, <2>3
<1>3. /\ account' \subseteq 1..lastKey
      /\ spoilt' \subseteq Otk /\ refused' \subseteq Otk
      /\ UNCHANGED <<owner, otks, making, lastKey, handed, blurredKeys>>
  BY <1>1 DEF Load, Save, SendAgain, GiveUp, SaveAccount, KeysIInv, KeysTypeOK
<1>4. \A q \in Peers : /\ peer'[q] \in Peer /\ peer'[q].loaded \subseteq 1..lastKey
                       /\ peer'[q].pc # "idle" => peer'[q].key \in 1..lastKey
                       /\ peer'[q].pc = "selected" => peer'[q] = peer[q]
  <2> SUFFICES ASSUME NEW q \in Peers
               PROVE  /\ peer'[q] \in Peer /\ peer'[q].loaded \subseteq 1..lastKey
                      /\ peer'[q].pc # "idle" => peer'[q].key \in 1..lastKey
                      /\ peer'[q].pc = "selected" => peer'[q] = peer[q]
    OBVIOUS
  <2>1. CASE q = p
    BY <2>1, <1>1, <1>2
  <2>2. CASE q # p
    BY <2>2, <1>1, <1>2 DEF KeysIInv, KeysKnown
  <2> QED BY <2>1, <2>2
<1>5. peer' \in [Peers -> Peer]
  BY <1>1, <1>2
<1>6. KeysTypeOK'
  BY <1>3, <1>5 DEF KeysIInv, KeysTypeOK
<1>7. KeysKnown' /\ StoredOnce'
  BY <1>3, <1>4 DEF KeysIInv, KeysKnown, StoredOnce
<1>8. HandedIsUsed' /\ ClaimsApart' /\ ClaimedOnce'
  BY <1>3, <1>4 DEF KeysIInv, HandedIsUsed, ClaimsApart, ClaimedOnce, Unused, Selected
<1> QED BY <1>6, <1>7, <1>8 DEF KeysIInv

\* After a start, requests are gone and the server stores no key that it made
\* before; the bridges keep what they were given.
LEMMA RestartKept == KeysIInv /\ RestartKeys => KeysIInv'
<1> SUFFICES ASSUME KeysIInv, RestartKeys PROVE KeysIInv'
  OBVIOUS
<1> DEFINE Peer == [pc : {"idle", "selected", "holding", "loaded"}, key : 0..MaxKeys, loaded : SUBSET Otk]
<1>1. /\ making' \in Making /\ making'.keys \subseteq making.keys
      /\ UNCHANGED <<owner, account, otks, lastKey, handed, blurredKeys, spoilt, refused>>
  BY DEF RestartKeys, KeysIInv, KeysTypeOK, Making
<1>2. /\ peer \in [Peers -> Peer] /\ IdlePeer \in Peer
      /\ peer' = [p \in Peers |-> IF peer[p].pc = "holding" THEN peer[p] ELSE IdlePeer]
  BY MaxKeysAssumption DEF RestartKeys, KeysIInv, KeysTypeOK, IdlePeer
<1>3. peer' \in [Peers -> Peer]
  BY <1>2
<1>4. \A p \in Peers : /\ peer'[p].pc # "selected"
                       /\ peer'[p].pc # "idle" => peer'[p] = peer[p]
                       /\ peer'[p].loaded \subseteq peer[p].loaded
  BY <1>2 DEF IdlePeer
<1>5. KeysTypeOK'
  BY <1>1, <1>3 DEF KeysIInv, KeysTypeOK
<1>6. KeysKnown' /\ StoredOnce'
  BY <1>1, <1>4 DEF KeysIInv, KeysKnown, StoredOnce
<1>7. HandedIsUsed' /\ ClaimsApart' /\ ClaimedOnce'
  BY <1>1, <1>4 DEF KeysIInv, HandedIsUsed, ClaimsApart, ClaimedOnce, Unused, Selected
<1> QED BY <1>5, <1>6, <1>7 DEF KeysIInv

\* Each step, and so the whole of a run, keeps the invariant.
LEMMA KeysKept == KeysIInv /\ [KeysNext]_keysVars => KeysIInv'
<1> SUFFICES ASSUME KeysIInv, [KeysNext]_keysVars PROVE KeysIInv'
  OBVIOUS
<1>1. CASE UNCHANGED keysVars
  BY <1>1 DEF keysVars, KeysIInv, KeysTypeOK, KeysKnown, StoredOnce, HandedIsUsed, ClaimsApart,
              ClaimedOnce, Unused, Selected
<1> QED
  BY <1>1, MakeKept, StoreDeviceKept, StoreOtkKept, UploadKept, SelectKept, ClaimKept,
     MessageKept, RestartKept DEF KeysNext

\* The invariant holds throughout.
LEMMA KeysInvariance == KeysSpec => []KeysIInv
  BY KeysInitially, KeysKept, PTL DEF KeysSpec

\* No key is handed out twice, but for those that the code is known to blur.
THEOREM KeyHandedOnce == KeysSpec => []ClaimedOnce
<1>1. KeysIInv => ClaimedOnce
  BY DEF KeysIInv
<1> QED BY KeysInvariance, <1>1, PTL

----------------------------------------------------------------------------
\* The messages to the server's device.

\* A bridge that has been answered with k and whose message was not saved yet.
Has(p, k) == peer[p].pc \in {"holding", "loaded"} /\ peer[p].key = k

\* k will be found by a message with it, whatever other messages save before.
InAccount(k) ==
    /\ k \in account
    /\ \A q \in Peers : peer[q].pc = "loaded" /\ peer[q].key # k => k \in peer[q].loaded

UnclaimedInAccount ==
    \A k \in Otk : handed[k] = 0 /\ k \in making.keys \cup DOMAIN otks => InAccount(k)

HeldInAccount ==
    \A k \in Otk \ spoilt, p \in Peers :
        Has(p, k) => InAccount(k) /\ \A q \in Peers : Has(q, k) => q = p

HeldWasHanded == \A k \in Otk, p \in Peers : Has(p, k) => handed[k] > 0

AccountInv ==
    /\ owner = "server" => UnclaimedInAccount /\ HeldInAccount /\ HeldWasHanded
    /\ FirstMessageIsRead

\* There is no account at the start.
LEMMA AccountInitially == KeysInit => AccountInv
  BY DEF KeysInit, AccountInv, UnclaimedInAccount, HeldInAccount, HeldWasHanded, Has, IdlePeer,
         FirstMessageIsRead

\* Steps that neither touch the account nor give anyone a key.
LEMMA AccountUntouched ==
  ASSUME KeysIInv, AccountInv,
         UNCHANGED <<owner, account, handed, spoilt, refused>>,
         making'.keys \cup DOMAIN otks' \subseteq making.keys \cup DOMAIN otks,
         \A p \in Peers : peer'[p].pc \in {"holding", "loaded"} => peer'[p] = peer[p]
  PROVE  AccountInv'
<1>1. FirstMessageIsRead'
  BY DEF AccountInv, FirstMessageIsRead
<1> SUFFICES ASSUME owner = "server" PROVE UnclaimedInAccount' /\ HeldInAccount' /\ HeldWasHanded'
  BY <1>1 DEF AccountInv
<1>2. \A k \in Otk, p \in Peers : Has(p, k)' => Has(p, k)
  BY DEF Has
<1>3. \A k \in Otk : InAccount(k) => InAccount(k)'
  BY DEF InAccount
<1> QED BY <1>2, <1>3 DEF AccountInv, UnclaimedInAccount, HeldInAccount, HeldWasHanded

\* The first account is made of the keys that are to be stored.
LEMMA AccountEnsured == KeysIInv /\ AccountInv /\ Ensure => AccountInv'
<1> SUFFICES ASSUME KeysIInv, AccountInv, Ensure PROVE AccountInv'
  OBVIOUS
<1>1. /\ lastKey = 0 /\ account' = Batch /\ making'.keys = Batch
      /\ UNCHANGED <<owner, otks, peer, handed, spoilt, refused>>
  BY DEF Ensure, Missing
<1>2. \A p \in Peers : peer[p].pc = "idle"
  BY <1>1 DEF KeysIInv, KeysKnown
<1>3. DOMAIN otks = {}
  <2>1. DOMAIN otks \subseteq 1..0
    BY <1>1 DEF KeysIInv, KeysTypeOK
  <2> QED BY SMTT(30), <2>1
<1> QED
  BY <1>1, <1>2, <1>3 DEF AccountInv, UnclaimedInAccount, HeldInAccount, HeldWasHanded, Has, InAccount,
                          FirstMessageIsRead

\* A key that is handed out for the first time is in the account.
LEMMA AccountClaimed ==
  ASSUME NEW p \in Peers, KeysIInv, AccountInv, Claim(p)
  PROVE  AccountInv'
<1> DEFINE k == peer[p].key
<1>1. /\ peer[p].pc = "selected" /\ k \in Otk
      /\ handed \in [Otk -> Nat]
      /\ owner = "server" => k \in DOMAIN otks
  BY MaxKeysAssumption DEF Claim, KeysIInv, KeysTypeOK, KeysKnown, StoredOnce, Otk
<1>2. /\ handed' = [handed EXCEPT ![k] = @ + 1]
      /\ peer' = [peer EXCEPT ![p].pc = "holding"]
      /\ spoilt' = IF handed[k] > 0 THEN spoilt \cup {k} ELSE spoilt
      /\ UNCHANGED <<owner, account, making, refused>>
  BY DEF Claim
<1>3. DOMAIN otks' = DOMAIN otks
  BY DEF Claim, MarkUsed
<1>4. \A q \in Peers : /\ peer'[q].key = peer[q].key /\ peer'[q].loaded = peer[q].loaded
                       /\ peer'[q].pc = IF q = p THEN "holding" ELSE peer[q].pc
  BY <1>2 DEF KeysIInv, KeysTypeOK
<1>5. FirstMessageIsRead'
  BY <1>2 DEF AccountInv, FirstMessageIsRead
<1> SUFFICES ASSUME owner = "server" PROVE UnclaimedInAccount' /\ HeldInAccount' /\ HeldWasHanded'
  BY <1>2, <1>5 DEF AccountInv
<1>6. \A j \in Otk : InAccount(j) => InAccount(j)'
  BY <1>2, <1>4 DEF InAccount
<1>7. \A j \in Otk, q \in Peers : Has(q, j)' => Has(q, j) \/ (q = p /\ j = k)
  BY <1>4 DEF Has
<1>8. \A j \in Otk : handed'[j] = IF j = k THEN handed[k] + 1 ELSE handed[j]
  BY <1>1, <1>2
<1>9. UnclaimedInAccount'
  BY <1>1, <1>2, <1>3, <1>6, <1>8 DEF AccountInv, UnclaimedInAccount
<1>10. HeldWasHanded'
  BY <1>1, <1>7, <1>8 DEF AccountInv, HeldWasHanded
<1>11. HeldInAccount'
  <2> SUFFICES ASSUME NEW j \in Otk, j \notin spoilt', NEW q \in Peers, Has(q, j)'
               PROVE  InAccount(j)' /\ \A r \in Peers : Has(r, j)' => r = q
    BY DEF HeldInAccount
  <2>1. CASE j = k
    <3>1. handed[k] = 0
      BY <2>1, <1>1, <1>2
    <3>2. InAccount(k)
      BY <3>1, <1>1 DEF AccountInv, UnclaimedInAccount
    <3>3. \A r \in Peers : ~Has(r, k)
      BY <3>1, <1>1 DEF AccountInv, HeldWasHanded
    <3> QED BY <2>1, <3>2, <3>3, <1>1, <1>6, <1>7
  <2>2. CASE j # k
    <3>1. j \notin spoilt /\ Has(q, j)
      BY <2>2, <1>2, <1>7
    <3> QED BY <2>2, <3>1, <1>6, <1>7 DEF AccountInv, HeldInAccount
  <2> QED BY <2>1, <2>2
<1> QED BY <1>9, <1>10, <1>11

\* A message that is loaded has a copy of the whole account; one that cannot be
\* read was not the first one with its key.
LEMMA AccountLoaded ==
  ASSUME NEW p \in Peers, KeysIInv, AccountInv, Load(p)
  PROVE  AccountInv'
<1> DEFINE k == peer[p].key
<1>1. /\ owner = "server" /\ Has(p, k) /\ k \in Otk
      /\ UNCHANGED <<owner, account, otks, making, handed, spoilt>>
  BY MaxKeysAssumption DEF Load, Has, KeysIInv, KeysTypeOK, KeysKnown, Otk
<1>2. \/ /\ peer' = [peer EXCEPT ![p] = [pc |-> "loaded", key |-> k, loaded |-> account]]
         /\ refused' = refused
      \/ /\ peer' = [peer EXCEPT ![p] = IdlePeer]
         /\ refused' = refused \cup {k} /\ k \notin account
  BY DEF Load
<1>3. FirstMessageIsRead'
  BY <1>1, <1>2 DEF AccountInv, HeldInAccount, InAccount, FirstMessageIsRead
<1>4. \A q \in Peers, j \in Otk : Has(q, j)' => Has(q, j)
  BY <1>1, <1>2 DEF Has, IdlePeer, KeysIInv, KeysTypeOK
<1>5. \A q \in Peers : peer'[q].pc = "loaded" =>
          peer'[q] = peer[q] \/ peer'[q].loaded = account
  BY <1>2 DEF IdlePeer, KeysIInv, KeysTypeOK
<1>6. \A j \in Otk : InAccount(j) => InAccount(j)'
  BY <1>1, <1>5 DEF InAccount
<1> QED
  BY <1>1, <1>3, <1>4, <1>6 DEF AccountInv, UnclaimedInAccount, HeldInAccount, HeldWasHanded

\* What is saved lacks only the key of the message, which nobody else has.
LEMMA AccountSaved ==
  ASSUME NEW p \in Peers, KeysIInv, AccountInv, Save(p) \/ SendAgain(p)
  PROVE  AccountInv'
<1> DEFINE k == peer[p].key
<1>1. /\ peer[p].pc = "loaded" /\ Has(p, k) /\ k \in Otk
      /\ account' = account \/ account' = peer[p].loaded \ {k}
      /\ UNCHANGED <<owner, otks, making, handed, refused>>
  BY MaxKeysAssumption DEF Save, SendAgain, SaveAccount, Has, KeysIInv, KeysTypeOK, KeysKnown, Otk
<1>2. \/ /\ peer' = [peer EXCEPT ![p] = IdlePeer]
         /\ spoilt' = spoilt
      \/ /\ peer' = [peer EXCEPT ![p] = [pc |-> "holding", key |-> k, loaded |-> {}]]
         /\ spoilt' = spoilt \cup {k}
  BY DEF Save, SendAgain
<1>3. FirstMessageIsRead'
  BY <1>1, <1>2 DEF AccountInv, FirstMessageIsRead
<1> SUFFICES ASSUME owner = "server" PROVE UnclaimedInAccount' /\ HeldInAccount' /\ HeldWasHanded'
  BY <1>1, <1>3 DEF AccountInv
<1>4. \A q \in Peers : q # p => peer'[q] = peer[q]
  BY <1>2 DEF KeysIInv, KeysTypeOK
<1>5. peer'[p].pc # "loaded" /\ (k \notin spoilt' => peer'[p].pc = "idle")
  BY <1>2 DEF IdlePeer, KeysIInv, KeysTypeOK
<1>6. \A q \in Peers, j \in Otk : Has(q, j)' => Has(q, j)
  BY <1>1, <1>2 DEF Has, IdlePeer, KeysIInv, KeysTypeOK
<1>7. \A j \in Otk : InAccount(j) /\ j # k => InAccount(j)'
  BY <1>1, <1>4, <1>5 DEF InAccount
<1>8. handed[k] > 0
  BY <1>1 DEF AccountInv, HeldWasHanded
<1>9. UnclaimedInAccount'
  BY <1>1, <1>7, <1>8 DEF AccountInv, UnclaimedInAccount
<1>10. HeldWasHanded'
  BY <1>1, <1>6 DEF AccountInv, HeldWasHanded
<1>11. HeldInAccount'
  <2> SUFFICES ASSUME NEW j \in Otk, j \notin spoilt', NEW q \in Peers, Has(q, j)'
               PROVE  InAccount(j)' /\ \A r \in Peers : Has(r, j)' => r = q
    BY DEF HeldInAccount
  <2>1. j \notin spoilt /\ Has(q, j) /\ InAccount(j) /\ \A r \in Peers : Has(r, j) => r = q
    BY <1>2, <1>6 DEF AccountInv, HeldInAccount
  <2>2. j # k
    <3> SUFFICES ASSUME j = k PROVE FALSE
      OBVIOUS
    <3>1. q = p
      BY <2>1, <1>1
    <3> QED BY <3>1, <1>5 DEF Has
  <2> QED BY <2>1, <2>2, <1>6, <1>7
<1> QED BY <1>9, <1>10, <1>11

\* Each step keeps it.
LEMMA AccountKept == KeysIInv /\ AccountInv /\ [KeysNext]_keysVars => AccountInv'
<1> SUFFICES ASSUME KeysIInv, AccountInv, [KeysNext]_keysVars PROVE AccountInv'
  OBVIOUS
<1>1. CASE UNCHANGED keysVars
  BY <1>1, AccountUntouched DEF keysVars
<1>2. CASE StoreDevice
  BY <1>2, AccountUntouched DEF StoreDevice, KeysIInv, KeysTypeOK, Making
<1>3. ASSUME NEW k \in Otk, StoreOtk(k) PROVE AccountInv'
  <2>1. DOMAIN otks' = DOMAIN otks \cup {k} /\ k \in making.keys /\ making'.keys \subseteq making.keys
    BY <1>3 DEF StoreOtk, KeysIInv, KeysTypeOK, Making
  <2> QED BY <1>3, <2>1, AccountUntouched DEF StoreOtk
<1>4. CASE owner = "bridge" /\ (Generate \/ Upload)
  BY <1>4 DEF Generate, Upload, AccountInv, FirstMessageIsRead
<1>5. ASSUME NEW p \in Peers, NEW k \in Otk, Select(p, k) PROVE AccountInv'
  BY <1>5, AccountUntouched DEF Select, KeysIInv, KeysTypeOK
<1>6. ASSUME NEW p \in Peers, GiveUp(p) PROVE AccountInv'
  BY <1>6, AccountUntouched DEF GiveUp, IdlePeer, KeysIInv, KeysTypeOK
<1>7. CASE RestartKeys
  <2>1. making'.keys \subseteq making.keys
    BY <1>7 DEF RestartKeys
  <2> QED BY <1>7, <2>1, AccountUntouched DEF RestartKeys, IdlePeer
<1> QED
  BY <1>1, <1>2, <1>3, <1>4, <1>5, <1>6, <1>7, AccountEnsured, AccountClaimed, AccountLoaded, AccountSaved
     DEF KeysNext, Generate, Upload

\* The first message with a key that was handed out once is read, although the
\* account is loaded, changed and saved without a lock.
THEOREM FirstMessageRead == KeysSpec => []FirstMessageIsRead
<1>1. KeysIInv /\ AccountInv /\ [KeysNext]_keysVars => (KeysIInv /\ AccountInv)'
  BY KeysKept, AccountKept
<1>2. AccountInv => FirstMessageIsRead
  BY DEF AccountInv
<1> QED BY KeysInitially, AccountInitially, <1>1, <1>2, PTL DEF KeysSpec

----------------------------------------------------------------------------
\* Logins.

\* The login of bridge b makes the account of device d, or writes its last parts.
MakingAccount(b, d) == bridge[b].device = d /\ bridge[b].pc \in Parts \cup {"count"}
Finishing(b, d) == bridge[b].device = d /\ bridge[b].pc \in {"device", "otks"}

\* What is known of a device: cache and table agree unless a request was dropped
\* between them; the newest key is the valid one, whether a bridge has been told
\* of it or will be; and who has a key or an account has a whole account, or
\* somebody is about to complete it, or it was cut short.
DeviceInv(d) ==
    /\ d \notin blurredRows => keyCache[d] = keyTable[d]
    /\ d \notin blurredRows /\ told[d] # 0 /\ told[d] = newest[d] => keyTable[d] = told[d]
    /\ \A b \in Bridges :
          d \notin blurredRows /\ MakingAccount(b, d) /\ bridge[b].key = newest[d] => keyTable[d] = newest[d]
    /\ "account" \in olm[d] => d \in cut \/ olm[d] = Parts \/ \E b \in Bridges : Finishing(b, d)
    /\ told[d] # 0 \/ keyCache[d] # 0 \/ keyTable[d] # 0 =>
          d \in cut \/ olm[d] = Parts \/ \E b \in Bridges : MakingAccount(b, d)
    /\ ~botHere => told[d] = 0 /\ keyCache[d] = 0 /\ keyTable[d] = 0 /\ olm[d] = {}

\* What is known of a login: it has a key, and the parts before its own are written.
BridgeInv(b) ==
    LET pc == bridge[b].pc
        d == bridge[b].device IN
    /\ pc \in Parts \cup {"count"} => bridge[b].key > 0
    /\ botHere /\ pc \in {"device", "otks"} => "account" \in olm[d]
    /\ botHere /\ pc = "otks" => "device" \in olm[d]

LoginIInv ==
    /\ LoginTypeOK
    /\ \A d \in Devices : DeviceInv(d)
    /\ \A b \in Bridges : BridgeInv(b)

LoginRecord == [pc : {"idle", "update", "create", "count"} \cup Parts, device : Devices,
                key : 0..lastApiKey]

\* A bridge that has no login under way is a bridge.
LEMMA IdleRecord ==
  ASSUME lastApiKey \in Nat
  PROVE  IdleBridge \in LoginRecord /\ IdleBridge.pc = "idle"
<1>1. (CHOOSE d \in Devices : TRUE) \in Devices
  BY LoginAssumption
<1> QED BY <1>1 DEF IdleBridge, LoginRecord

\* No device has a key or an account at the start.
LEMMA LoginInitially == LoginInit => LoginIInv
<1> SUFFICES ASSUME LoginInit PROVE LoginIInv
  OBVIOUS
<1>1. lastApiKey = 0 /\ lastApiKey \in 0..MaxApiKeys
  BY LoginAssumption DEF LoginInit
<1>2. \A d \in Devices : keyCache[d] = 0 /\ keyTable[d] = 0 /\ told[d] = 0 /\ newest[d] = 0 /\ olm[d] = {}
  BY DEF LoginInit
<1>3. IdleBridge \in LoginRecord /\ IdleBridge.pc = "idle"
  BY <1>1, IdleRecord
<1>4. LoginTypeOK
  <2>1. [d \in Devices |-> 0] \in [Devices -> 0..lastApiKey]
    BY <1>1
  <2> QED BY <1>1, <1>3, <2>1 DEF LoginInit, LoginTypeOK, LoginRecord
<1>5. ASSUME NEW d \in Devices PROVE DeviceInv(d)
  BY <1>2, <1>3 DEF LoginInit, DeviceInv, MakingAccount, Parts
<1>6. ASSUME NEW b \in Bridges PROVE BridgeInv(b)
  BY <1>3 DEF LoginInit, BridgeInv, Parts
<1> QED BY <1>4, <1>5, <1>6 DEF LoginIInv

\* A device is undisturbed when nothing changes of it or of the logins that make it.
Undisturbed(d) ==
    /\ keyCache'[d] = keyCache[d] /\ keyTable'[d] = keyTable[d]
    /\ told'[d] = told[d] /\ newest'[d] = newest[d] /\ olm'[d] = olm[d]
    /\ botHere' = botHere
    /\ d \in blurredRows' <=> d \in blurredRows
    /\ d \in cut => d \in cut'
    /\ \A b \in Bridges :
          /\ MakingAccount(b, d)' <=> MakingAccount(b, d)
          /\ Finishing(b, d)' <=> Finishing(b, d)
          /\ MakingAccount(b, d) => bridge'[b].key = bridge[b].key

\* A device that a step leaves alone keeps its part of the invariant.
LEMMA UndisturbedKept ==
  ASSUME NEW d \in Devices, DeviceInv(d), Undisturbed(d)
  PROVE  DeviceInv(d)'
BY DEF DeviceInv, Undisturbed

\* A bridge that a step leaves alone does, too, unless it touches the device that it uses.
LEMMA BridgeStays ==
  ASSUME NEW b \in Bridges, BridgeInv(b), bridge'[b] = bridge[b], botHere' => botHere,
         olm[bridge[b].device] \subseteq olm'[bridge[b].device]
  PROVE  BridgeInv(b)'
BY DEF BridgeInv

\* A login that is not making a device is nothing to the devices.
LEMMA BridgeIdles ==
  ASSUME NEW b \in Bridges, bridge'[b].pc \in {"idle", "update", "create"}
  PROVE  /\ BridgeInv(b)'
         /\ \A d : ~MakingAccount(b, d)' /\ ~Finishing(b, d)'
BY DEF BridgeInv, MakingAccount, Finishing, Parts

\* The step of one login: the others stay.
LEMMA BridgeSteps ==
  ASSUME LoginTypeOK, NEW b \in Bridges, NEW r, bridge' = [bridge EXCEPT ![b] = r]
  PROVE  /\ bridge'[b] = r
         /\ \A c \in Bridges \ {b} :
               /\ bridge'[c] = bridge[c]
               /\ \A d : (MakingAccount(c, d)' <=> MakingAccount(c, d)) /\ (Finishing(c, d)' <=> Finishing(c, d))
<1>1. bridge \in [Bridges -> LoginRecord]
  BY DEF LoginTypeOK, LoginRecord
<1>2. bridge'[b] = r /\ \A c \in Bridges \ {b} : bridge'[c] = bridge[c]
  BY <1>1
<1> QED BY <1>2 DEF MakingAccount, Finishing

\* The login starts.
LEMMA StartKept ==
  ASSUME LoginIInv, NEW b \in Bridges, NEW d \in Devices, StartLogin(b, d)
  PROVE  LoginIInv'
<1>1. LoginTypeOK /\ (\A e \in Devices : DeviceInv(e)) /\ (\A c \in Bridges : BridgeInv(c))
  BY DEF LoginIInv
<1>2. PICK p \in {"update", "create"} : p = IF keyCache[d] # 0 THEN "update" ELSE "create"
  OBVIOUS
<1> DEFINE r == [pc |-> p, device |-> d, key |-> 0]
<1>3. /\ bridge[b].pc = "idle" /\ bridge' = [bridge EXCEPT ![b] = r]
      /\ UNCHANGED <<botHere, keyCache, keyTable, olm, lastApiKey, told, newest, blurredRows, cut>>
  BY <1>2 DEF StartLogin
<1>4. r \in LoginRecord /\ r.pc = p
  BY <1>1 DEF LoginRecord, LoginTypeOK
<1> HIDE DEF r
<1>5. LoginTypeOK'
  BY <1>1, <1>3, <1>4 DEF LoginTypeOK, LoginRecord
<1>6. bridge'[b] = r /\ \A c \in Bridges \ {b} : bridge'[c] = bridge[c]
  BY <1>1, <1>3, BridgeSteps
<1>7. ~(bridge[b].pc \in Parts \cup {"count"}) /\ bridge'[b].pc \in {"idle", "update", "create"}
  BY <1>3, <1>4, <1>6 DEF Parts
<1>8. ASSUME NEW e \in Devices PROVE Undisturbed(e)
  BY <1>3, <1>6, <1>7 DEF Undisturbed, MakingAccount, Finishing, Parts
<1>9. ASSUME NEW c \in Bridges PROVE BridgeInv(c)'
  BY <1>1, <1>3, <1>6, <1>7, BridgeStays, BridgeIdles
<1> QED BY <1>1, <1>5, <1>8, <1>9, UndisturbedKept DEF LoginIInv

\* A login ends: what is left is idle.
LEMMA LoginEnds ==
  ASSUME LoginTypeOK, NEW b \in Bridges, Ends(b)
  PROVE  /\ bridge' \in [Bridges -> LoginRecord]
         /\ bridge'[b].pc = "idle"
         /\ \A d : ~MakingAccount(b, d)' /\ ~Finishing(b, d)'
         /\ \A c \in Bridges \ {b} :
               /\ bridge'[c] = bridge[c]
               /\ \A d : (MakingAccount(c, d)' <=> MakingAccount(c, d)) /\ (Finishing(c, d)' <=> Finishing(c, d))
<1>1. bridge \in [Bridges -> LoginRecord] /\ lastApiKey \in Nat
  BY DEF LoginTypeOK, LoginRecord
<1>2. IdleBridge \in LoginRecord /\ IdleBridge.pc = "idle"
  BY <1>1, IdleRecord
<1>3. bridge' = [bridge EXCEPT ![b] = IdleBridge]
  BY DEF Ends
<1> QED BY <1>1, <1>2, <1>3, BridgeSteps, BridgeIdles

\* What a new key does.
LEMMA KeyMade ==
  ASSUME LoginTypeOK, NEW d \in Devices, NEW row \in BOOLEAN, MakeKey(d, row)
  PROVE  /\ lastApiKey \in Nat /\ lastApiKey' = lastApiKey + 1 /\ lastApiKey' \in 0..MaxApiKeys
         /\ newest' \in [Devices -> 0..lastApiKey'] /\ keyTable' \in [Devices -> 0..lastApiKey']
         /\ newest'[d] = lastApiKey' /\ keyTable'[d] = IF row THEN lastApiKey' ELSE 0
         /\ \A e \in Devices \ {d} : newest'[e] = newest[e] /\ keyTable'[e] = keyTable[e]
         /\ \A f \in [Devices -> 0..lastApiKey] : f \in [Devices -> 0..lastApiKey']
         /\ \A e \in Devices : told[e] < lastApiKey' /\ newest[e] < lastApiKey'
         /\ \A b \in Bridges : bridge[b].key < lastApiKey'
         /\ bridge \in [Bridges -> LoginRecord']
<1>1. /\ lastApiKey \in 0..MaxApiKeys /\ newest \in [Devices -> 0..lastApiKey]
      /\ told \in [Devices -> 0..lastApiKey]
      /\ keyTable \in [Devices -> 0..lastApiKey] /\ bridge \in [Bridges -> LoginRecord]
  BY DEF LoginTypeOK, LoginRecord
<1>2. /\ lastApiKey + 1 <= MaxApiKeys /\ lastApiKey' = lastApiKey + 1
      /\ newest' = [newest EXCEPT ![d] = lastApiKey + 1]
      /\ keyTable' = [keyTable EXCEPT ![d] = IF row THEN lastApiKey + 1 ELSE 0]
  BY DEF MakeKey
<1>3. /\ lastApiKey \in Nat /\ lastApiKey' \in 0..MaxApiKeys
      /\ 0..lastApiKey \subseteq 0..lastApiKey' /\ lastApiKey + 1 \in 0..lastApiKey'
      /\ 0 \in 0..lastApiKey'
  BY <1>1, <1>2, LoginAssumption
<1>4. newest' \in [Devices -> 0..lastApiKey'] /\ keyTable' \in [Devices -> 0..lastApiKey']
  BY <1>1, <1>2, <1>3
<1>5. \A f \in [Devices -> 0..lastApiKey] : f \in [Devices -> 0..lastApiKey']
  BY <1>3
<1>6. \A b \in Bridges : bridge[b].key \in 0..lastApiKey
  BY <1>1 DEF LoginRecord
<1>7. bridge \in [Bridges -> LoginRecord']
  BY <1>1, <1>3 DEF LoginRecord
<1> QED BY <1>1, <1>2, <1>3, <1>4, <1>5, <1>6, <1>7

\* update_device_api_key.
LEMMA UpdateKept ==
  ASSUME LoginIInv, NEW b \in Bridges, UpdateDevice(b)
  PROVE  LoginIInv'
<1>1. LoginTypeOK /\ (\A e \in Devices : DeviceInv(e)) /\ (\A c \in Bridges : BridgeInv(c))
  BY DEF LoginIInv
<1>2. PICK d \in Devices : d = bridge[b].device
  BY <1>1 DEF LoginTypeOK
<1>3. /\ bridge[b].pc = "update" /\ botHere /\ keyCache[d] # 0
      /\ MakeKey(d, keyTable[d] # 0) /\ Ends(b)
      /\ \/ /\ keyCache' = [keyCache EXCEPT ![d] = lastApiKey + 1]
            /\ blurredRows' = IF keyTable[d] # 0 THEN blurredRows \ {d} ELSE blurredRows
            /\ Told(d, lastApiKey + 1) \/ told' = told
         \/ blurredRows' = blurredRows \cup {d} /\ UNCHANGED <<keyCache, told>>
      /\ UNCHANGED <<botHere, olm, cut>>
  BY <1>2 DEF UpdateDevice
<1>4. PICK row \in BOOLEAN : row <=> keyTable[d] # 0
  OBVIOUS
<1>5. MakeKey(d, row)
  BY <1>3, <1>4
<1>6. /\ keyCache' \in [Devices -> 0..lastApiKey'] /\ told' \in [Devices -> 0..lastApiKey']
      /\ told'[d] \in {told[d], lastApiKey'}
      /\ \A e \in Devices \ {d} : keyCache'[e] = keyCache[e] /\ told'[e] = told[e]
  BY <1>1, <1>3, <1>5, KeyMade DEF LoginTypeOK, Told
<1>7. LoginTypeOK'
  BY <1>1, <1>3, <1>5, <1>6, KeyMade, LoginEnds DEF LoginTypeOK, LoginRecord
<1>8. bridge[b].pc \notin Parts \cup {"count"}
  BY <1>3 DEF Parts
<1>9. ASSUME NEW e \in Devices \ {d} PROVE Undisturbed(e)
  <2>1. e \in blurredRows' <=> e \in blurredRows
    BY <1>3
  <2> QED BY <1>1, <1>3, <1>5, <1>6, <1>8, <2>1, KeyMade, LoginEnds DEF Undisturbed, MakingAccount, Finishing, Parts
<1>10. DeviceInv(d)'
  <2>1. DeviceInv(d)
    BY <1>1
  <2>2. /\ lastApiKey \in Nat /\ lastApiKey' = lastApiKey + 1 /\ newest'[d] = lastApiKey'
        /\ keyTable'[d] = IF row THEN lastApiKey' ELSE 0
        /\ told[d] < lastApiKey'
        /\ \A c \in Bridges : bridge[c].key < lastApiKey'
    BY <1>1, <1>5, KeyMade
  <2>3. \A c \in Bridges : MakingAccount(c, d)' => MakingAccount(c, d) /\ bridge'[c].key < lastApiKey'
    BY <1>1, <1>3, <2>2, LoginEnds
  <2>4. \/ d \in blurredRows'
        \/ keyCache'[d] = lastApiKey' /\ keyTable'[d] = lastApiKey'
    \* A row that is not there was missed before.
    <3>1. d \notin blurredRows => row
      BY <1>3, <1>4, <2>1 DEF DeviceInv
    <3> QED BY <1>1, <1>3, <1>4, <2>2, <3>1 DEF LoginTypeOK
  <2>5. olm'[d] = olm[d] /\ cut' = cut /\ botHere' = TRUE
    BY <1>1, <1>3 DEF LoginTypeOK
  <2>6. d \in cut \/ olm[d] = Parts \/ \E c \in Bridges : MakingAccount(c, d)
    BY <1>3, <2>1 DEF DeviceInv
  <2>7. \A c \in Bridges : (MakingAccount(c, d) => MakingAccount(c, d)') /\ (Finishing(c, d) => Finishing(c, d)')
    BY <1>1, <1>3, <1>8, LoginEnds DEF MakingAccount, Finishing, Parts
  <2>8. told[d] \in Nat
    BY <1>1 DEF LoginTypeOK
  <2> QED BY <1>6, <2>1, <2>2, <2>3, <2>4, <2>5, <2>6, <2>7, <2>8 DEF DeviceInv
<1>11. ASSUME NEW c \in Bridges PROVE BridgeInv(c)'
  BY <1>1, <1>3, LoginEnds, BridgeStays, BridgeIdles
<1> QED BY <1>1, <1>7, <1>9, <1>10, <1>11, UndisturbedKept DEF LoginIInv

\* create_new_device.
LEMMA CreateKept ==
  ASSUME LoginIInv, NEW b \in Bridges, CreateDevice(b)
  PROVE  LoginIInv'
<1>1. LoginTypeOK /\ (\A e \in Devices : DeviceInv(e)) /\ (\A c \in Bridges : BridgeInv(c))
  BY DEF LoginIInv
<1>2. PICK d \in Devices : d = bridge[b].device
  BY <1>1 DEF LoginTypeOK
<1> DEFINE r == [bridge[b] EXCEPT !.pc = "count", !.key = lastApiKey + 1]
<1>3. /\ bridge[b].pc = "create" /\ botHere /\ keyCache[d] = 0 /\ keyTable[d] = 0
      /\ MakeKey(d, TRUE)
      /\ \/ /\ keyCache' = [keyCache EXCEPT ![d] = lastApiKey + 1]
            /\ bridge' = [bridge EXCEPT ![b] = r]
            /\ blurredRows' = blurredRows \ {d} /\ cut' = cut
         \/ /\ blurredRows' = blurredRows \cup {d} /\ cut' = cut \cup {d}
            /\ Ends(b) /\ keyCache' = keyCache
      /\ UNCHANGED <<botHere, olm, told>>
  BY <1>1, <1>2 DEF CreateDevice, LoginTypeOK
<1>4. /\ lastApiKey \in Nat /\ lastApiKey' = lastApiKey + 1 /\ newest'[d] = lastApiKey'
      /\ keyTable'[d] = lastApiKey' /\ told[d] < lastApiKey'
      /\ \A c \in Bridges : bridge[c].key < lastApiKey'
      /\ bridge \in [Bridges -> LoginRecord']
  BY <1>1, <1>3, KeyMade
<1>5. r \in LoginRecord' /\ r.pc = "count" /\ r.device = d /\ r.key = lastApiKey'
  <2>1. bridge[b] \in LoginRecord' /\ lastApiKey' \in 0..lastApiKey' /\ "count" \in {"count"}
    BY <1>4
  <2> QED BY <1>2, <1>4, <2>1 DEF LoginRecord
<1> HIDE DEF r
<1>6. /\ bridge' \in [Bridges -> LoginRecord']
      /\ \A c \in Bridges \ {b} :
            /\ bridge'[c] = bridge[c]
            /\ \A e : (MakingAccount(c, e)' <=> MakingAccount(c, e)) /\ (Finishing(c, e)' <=> Finishing(c, e))
      /\ \/ /\ bridge'[b] = r /\ keyCache' = [keyCache EXCEPT ![d] = lastApiKey + 1]
            /\ blurredRows' = blurredRows \ {d} /\ cut' = cut
         \/ /\ bridge'[b].pc = "idle" /\ keyCache' = keyCache
            /\ blurredRows' = blurredRows \cup {d} /\ cut' = cut \cup {d}
  <2>1. CASE bridge' = [bridge EXCEPT ![b] = r]
    <3>1. bridge' \in [Bridges -> LoginRecord']
      BY <1>4, <1>5, <2>1
    <3>2. bridge'[b] = r
      BY <1>4, <2>1
    <3> QED BY <1>1, <1>3, <2>1, <3>1, <3>2, BridgeSteps, LoginEnds
  <2>2. CASE Ends(b) /\ keyCache' = keyCache /\ blurredRows' = blurredRows \cup {d} /\ cut' = cut \cup {d}
    BY <1>1, <1>4, <2>2, LoginEnds DEF LoginRecord
  <2> QED BY <1>3, <2>1, <2>2
<1>7. keyCache' \in [Devices -> 0..lastApiKey'] /\ \A e \in Devices \ {d} : keyCache'[e] = keyCache[e]
  <2>1. keyCache \in [Devices -> 0..lastApiKey'] /\ lastApiKey + 1 \in 0..lastApiKey'
    BY <1>1, <1>3, <1>4, KeyMade DEF LoginTypeOK
  <2> QED BY <1>6, <2>1
<1>8. LoginTypeOK'
  BY <1>1, <1>3, <1>6, <1>7, KeyMade DEF LoginTypeOK, LoginRecord
<1>9. ASSUME NEW e \in Devices \ {d} PROVE Undisturbed(e)
  <2>1. (e \in blurredRows' <=> e \in blurredRows) /\ (e \in cut => e \in cut')
    BY <1>6
  <2>2. newest'[e] = newest[e] /\ keyTable'[e] = keyTable[e]
    BY <1>1, <1>3, KeyMade
  <2>3. ~MakingAccount(b, e) /\ ~Finishing(b, e) /\ ~MakingAccount(b, e)' /\ ~Finishing(b, e)'
    BY <1>2, <1>5, <1>6 DEF MakingAccount, Finishing, Parts
  <2> QED BY <1>3, <1>6, <1>7, <2>1, <2>2, <2>3 DEF Undisturbed, MakingAccount
<1>10. DeviceInv(d)'
  <2>1. DeviceInv(d)
    BY <1>1
  <2>2. olm'[d] = olm[d] /\ told'[d] = told[d] /\ botHere' = TRUE /\ cut \subseteq cut'
    BY <1>1, <1>3, <1>6 DEF LoginTypeOK
  <2>3. \A c \in Bridges \ {b} : MakingAccount(c, d)' => bridge'[c].key < lastApiKey'
    BY <1>4, <1>6
  <2>4. CASE /\ bridge'[b] = r /\ keyCache' = [keyCache EXCEPT ![d] = lastApiKey + 1]
    <3>1. MakingAccount(b, d)' /\ bridge'[b].key = lastApiKey' /\ keyCache'[d] = lastApiKey'
      BY <1>1, <1>4, <1>5, <2>4 DEF MakingAccount, LoginTypeOK
    <3>2. \A c \in Bridges : Finishing(c, d) => Finishing(c, d)'
      BY <1>3, <1>6 DEF Finishing
    <3>3. told[d] # lastApiKey'
      BY <1>1, <1>4 DEF LoginTypeOK
    <3> QED BY <1>4, <2>1, <2>2, <2>3, <3>1, <3>2, <3>3 DEF DeviceInv
  <2>5. CASE d \in blurredRows' /\ d \in cut'
    BY <2>2, <2>5 DEF DeviceInv
  <2> QED BY <1>6, <2>4, <2>5
<1>11. ASSUME NEW c \in Bridges PROVE BridgeInv(c)'
  <2>1. CASE c # b
    BY <1>1, <1>3, <1>6, <2>1, BridgeStays
  <2>2. CASE c = b
    BY <1>4, <1>5, <1>6, <2>2 DEF BridgeInv, Parts
  <2> QED BY <2>1, <2>2
<1> QED BY <1>1, <1>8, <1>9, <1>10, <1>11, UndisturbedKept DEF LoginIInv

\* A login that goes on keeps its device and its key.
LEMMA PartStarts ==
  ASSUME LoginTypeOK, NEW b \in Bridges, NEW p \in Parts, bridge' = [bridge EXCEPT ![b].pc = p]
  PROVE  /\ bridge' \in [Bridges -> LoginRecord]
         /\ bridge'[b].pc = p /\ bridge'[b].device = bridge[b].device /\ bridge'[b].key = bridge[b].key
         /\ \A c \in Bridges \ {b} :
               /\ bridge'[c] = bridge[c]
               /\ \A e : (MakingAccount(c, e)' <=> MakingAccount(c, e)) /\ (Finishing(c, e)' <=> Finishing(c, e))
<1> DEFINE r == [bridge[b] EXCEPT !.pc = p]
<1>1. bridge \in [Bridges -> LoginRecord]
  BY DEF LoginTypeOK, LoginRecord
<1>2. bridge' = [bridge EXCEPT ![b] = r]
  BY <1>1
<1>3. r \in LoginRecord /\ r.pc = p /\ r.device = bridge[b].device /\ r.key = bridge[b].key
  BY <1>1 DEF LoginRecord
<1> HIDE DEF r
<1>4. bridge' \in [Bridges -> LoginRecord]
  BY <1>1, <1>2, <1>3
<1> QED BY <1>2, <1>3, <1>4, BridgeSteps

\* A login is refused before it makes anything.
LEMMA RefuseKept ==
  ASSUME LoginIInv, NEW b \in Bridges, Refuse(b)
  PROVE  LoginIInv'
<1>1. LoginTypeOK /\ (\A e \in Devices : DeviceInv(e)) /\ (\A c \in Bridges : BridgeInv(c))
  BY DEF LoginIInv
<1>2. /\ bridge[b].pc \in {"update", "create"} /\ Ends(b)
      /\ UNCHANGED <<botHere, keyCache, keyTable, olm, lastApiKey, told, newest, blurredRows, cut>>
  BY DEF Refuse
<1>3. LoginTypeOK'
  BY <1>1, <1>2, LoginEnds DEF LoginTypeOK, LoginRecord
<1>4. ASSUME NEW e \in Devices PROVE Undisturbed(e)
  <2>1. ~MakingAccount(b, e) /\ ~Finishing(b, e)
    BY <1>2 DEF MakingAccount, Finishing, Parts
  <2> QED BY <1>1, <1>2, <2>1, LoginEnds DEF Undisturbed
<1>5. ASSUME NEW c \in Bridges PROVE BridgeInv(c)'
  BY <1>1, <1>2, LoginEnds, BridgeStays, BridgeIdles
<1> QED BY <1>1, <1>3, <1>4, <1>5, UndisturbedKept DEF LoginIInv

\* create_device_account finds an account, or begins one.
LEMMA CountKept ==
  ASSUME LoginIInv, NEW b \in Bridges, Count(b)
  PROVE  LoginIInv'
<1>1. LoginTypeOK /\ (\A e \in Devices : DeviceInv(e)) /\ (\A c \in Bridges : BridgeInv(c))
  BY DEF LoginIInv
<1>2. PICK d \in Devices : d = bridge[b].device
  BY <1>1 DEF LoginTypeOK
<1>3. /\ bridge[b].pc = "count" /\ MakingAccount(b, d) /\ ~Finishing(b, d)
      /\ UNCHANGED <<botHere, keyCache, keyTable, olm, lastApiKey, newest, blurredRows, cut>>
  BY <1>2 DEF Count, MakingAccount, Finishing
<1>4. CASE "account" \notin olm[d]
  <2>1. bridge' = [bridge EXCEPT ![b].pc = "account"] /\ told' = told /\ "account" \in Parts
    BY <1>2, <1>4 DEF Count, Parts
  <2>2. LoginTypeOK'
    BY <1>1, <1>3, <2>1, PartStarts DEF LoginTypeOK, LoginRecord
  <2>3. /\ bridge'[b].pc = "account" /\ bridge'[b].device = d /\ bridge'[b].key = bridge[b].key
        /\ \A c \in Bridges \ {b} :
              /\ bridge'[c] = bridge[c]
              /\ \A e : (MakingAccount(c, e)' <=> MakingAccount(c, e)) /\ (Finishing(c, e)' <=> Finishing(c, e))
    BY <1>1, <1>2, <2>1, PartStarts
  <2>4. \A e : (MakingAccount(b, e)' <=> MakingAccount(b, e)) /\ (Finishing(b, e)' <=> Finishing(b, e))
    BY <1>2, <1>3, <2>3 DEF MakingAccount, Finishing, Parts
  <2>5. ASSUME NEW e \in Devices PROVE Undisturbed(e)
    BY <1>3, <2>1, <2>3, <2>4 DEF Undisturbed
  <2>6. ASSUME NEW c \in Bridges PROVE BridgeInv(c)'
    <3>1. CASE c = b
      BY <1>1, <1>3, <2>3, <3>1 DEF BridgeInv
    <3> QED BY <1>1, <1>3, <2>3, <3>1, BridgeStays
  <2> QED BY <1>1, <2>2, <2>5, <2>6, UndisturbedKept DEF LoginIInv
<1>5. CASE "account" \in olm[d]
  <2>1. Told(d, bridge[b].key) /\ Ends(b) /\ bridge[b].key \in 0..lastApiKey
    BY <1>1, <1>2, <1>5 DEF Count, LoginTypeOK
  <2>2. /\ told' \in [Devices -> 0..lastApiKey]
        /\ told'[d] \in {told[d], bridge[b].key}
        /\ \A e \in Devices \ {d} : told'[e] = told[e]
    BY <1>1, <2>1 DEF Told, LoginTypeOK
  <2>3. LoginTypeOK'
    BY <1>1, <1>3, <2>1, <2>2, LoginEnds DEF LoginTypeOK, LoginRecord
  <2>4. ASSUME NEW e \in Devices \ {d} PROVE Undisturbed(e)
    <3>1. ~MakingAccount(b, e) /\ ~Finishing(b, e)
      BY <1>2 DEF MakingAccount, Finishing
    <3> QED BY <1>1, <1>3, <2>1, <2>2, <3>1, LoginEnds DEF Undisturbed
  <2>5. DeviceInv(d)'
    <3>1. DeviceInv(d) /\ \A c \in Bridges \ {b} : /\ bridge'[c] = bridge[c]
                                                   /\ MakingAccount(c, d)' <=> MakingAccount(c, d)
                                                   /\ Finishing(c, d)' <=> Finishing(c, d)
      BY <1>1, <2>1, LoginEnds
    <3>2. ~MakingAccount(b, d)'
      BY <1>1, <2>1, LoginEnds
    <3>3. olm'[d] = Parts \/ d \in cut' \/ \E c \in Bridges : Finishing(c, d)'
      \* The account is whole, or another login is about to complete it.
      BY <1>3, <1>5, <3>1 DEF DeviceInv
    <3>4. \A c \in Bridges : Finishing(c, d)' => MakingAccount(c, d)'
      BY DEF Finishing, MakingAccount, Parts
    <3>5. botHere' = TRUE
      BY <1>1, <1>3, <1>5, <3>1 DEF DeviceInv, LoginTypeOK
    <3>6. d \notin blurredRows' /\ told'[d] # 0 /\ told'[d] = newest'[d] => keyTable'[d] = told'[d]
      BY <1>3, <2>2, <3>1 DEF DeviceInv
    <3> QED BY <1>3, <3>1, <3>2, <3>3, <3>4, <3>5, <3>6 DEF DeviceInv
  <2>6. ASSUME NEW c \in Bridges PROVE BridgeInv(c)'
    BY <1>1, <1>3, <2>1, LoginEnds, BridgeStays, BridgeIdles
  <2> QED BY <1>1, <2>3, <2>4, <2>5, <2>6, UndisturbedKept DEF LoginIInv
<1> QED BY <1>4, <1>5

\* A part of the account is written.
LEMMA PartKept ==
  ASSUME LoginIInv, NEW b \in Bridges, NEW piece \in Parts, StorePart(b, piece)
  PROVE  LoginIInv'
<1>1. LoginTypeOK /\ (\A e \in Devices : DeviceInv(e)) /\ (\A c \in Bridges : BridgeInv(c))
  BY DEF LoginIInv
<1>2. PICK d \in Devices : d = bridge[b].device
  BY <1>1 DEF LoginTypeOK
<1>3. /\ bridge[b].pc = piece /\ MakingAccount(b, d) /\ botHere
      /\ olm' = [olm EXCEPT ![d] = @ \cup {piece}]
      /\ UNCHANGED <<botHere, keyCache, keyTable, lastApiKey, newest, blurredRows, cut>>
  BY <1>2 DEF StorePart, Writable, MakingAccount
<1>4. /\ olm' \in [Devices -> SUBSET Parts] /\ olm'[d] = olm[d] \cup {piece}
      /\ \A e \in Devices : olm[e] \subseteq olm'[e] /\ (e # d => olm'[e] = olm[e])
  BY <1>1, <1>3 DEF LoginTypeOK
<1>5. CASE piece # "otks"
  <2>1. PICK p \in Parts : p = After(piece) /\ p = IF piece = "account" THEN "device" ELSE "otks"
    BY DEF After, Parts
  <2>2. bridge' = [bridge EXCEPT ![b].pc = p] /\ told' = told
    BY <1>5, <2>1 DEF StorePart
  <2>3. LoginTypeOK'
    BY <1>1, <1>3, <1>4, <2>2, PartStarts DEF LoginTypeOK, LoginRecord
  <2>4. /\ bridge'[b].pc = p /\ bridge'[b].device = d /\ bridge'[b].key = bridge[b].key
        /\ \A c \in Bridges \ {b} :
              /\ bridge'[c] = bridge[c]
              /\ \A e : (MakingAccount(c, e)' <=> MakingAccount(c, e)) /\ (Finishing(c, e)' <=> Finishing(c, e))
    BY <1>1, <1>2, <2>2, PartStarts
  <2>5. MakingAccount(b, d)' /\ Finishing(b, d)' /\ \A e \in Devices \ {d} :
           ~MakingAccount(b, e) /\ ~Finishing(b, e) /\ ~MakingAccount(b, e)' /\ ~Finishing(b, e)'
    BY <1>2, <2>1, <2>4 DEF MakingAccount, Finishing, Parts
  <2>6. ASSUME NEW e \in Devices \ {d} PROVE Undisturbed(e)
    BY <1>3, <1>4, <2>2, <2>4, <2>5 DEF Undisturbed
  <2>7. DeviceInv(d)'
    <3>1. \A c \in Bridges : MakingAccount(c, d)' => MakingAccount(c, d) /\ bridge'[c].key = bridge[c].key
      BY <1>3, <2>4
    <3> QED BY <1>1, <1>3, <2>2, <2>5, <3>1 DEF DeviceInv
  <2>8. ASSUME NEW c \in Bridges PROVE BridgeInv(c)'
    <3>1. CASE c = b
      <4>1. piece \in {"account", "device"} /\ (piece = "device" => "account" \in olm[d])
        BY <1>1, <1>2, <1>3, <1>5 DEF BridgeInv, Parts
      <4>2. bridge'[b].key > 0
        BY <1>1, <1>3, <2>4 DEF BridgeInv
      <4> QED BY <1>4, <2>1, <2>4, <3>1, <4>1, <4>2 DEF BridgeInv
    <3>2. CASE c # b
      <4>1. bridge[c].device \in Devices
        BY <1>1 DEF LoginTypeOK
      <4> QED BY <1>1, <1>3, <1>4, <2>4, <3>2, <4>1, BridgeStays
    <3> QED BY <3>1, <3>2
  <2> QED BY <1>1, <2>3, <2>6, <2>7, <2>8, UndisturbedKept DEF LoginIInv
<1>6. CASE piece = "otks"
  <2>1. Told(d, bridge[b].key) /\ Ends(b) /\ bridge[b].key \in 0..lastApiKey
    BY <1>1, <1>2, <1>6 DEF StorePart, LoginTypeOK
  <2>2. /\ told' \in [Devices -> 0..lastApiKey]
        /\ told'[d] \in {told[d], bridge[b].key}
        /\ \A e \in Devices \ {d} : told'[e] = told[e]
    BY <1>1, <2>1 DEF Told, LoginTypeOK
  <2>3. LoginTypeOK'
    BY <1>1, <1>3, <1>4, <2>1, <2>2, LoginEnds DEF LoginTypeOK, LoginRecord
  <2>4. ASSUME NEW e \in Devices \ {d} PROVE Undisturbed(e)
    <3>1. ~MakingAccount(b, e) /\ ~Finishing(b, e)
      BY <1>2 DEF MakingAccount, Finishing
    <3> QED BY <1>1, <1>3, <1>4, <2>1, <2>2, <3>1, LoginEnds DEF Undisturbed
  <2>5. DeviceInv(d)'
    <3>1. /\ DeviceInv(d)
          /\ \A c \in Bridges \ {b} : bridge'[c] = bridge[c] /\ (MakingAccount(c, d)' <=> MakingAccount(c, d))
      BY <1>1, <2>1, LoginEnds
    <3>2. ~MakingAccount(b, d)'
      BY <1>1, <2>1, LoginEnds
    <3>3. olm'[d] = Parts
      \* The parts before the last are there.
      <4>1. olm[d] \subseteq Parts /\ "account" \in olm[d] /\ "device" \in olm[d]
        BY <1>1, <1>2, <1>3, <1>6 DEF BridgeInv, LoginTypeOK
      <4> QED BY <1>4, <1>6, <4>1 DEF Parts
    <3>4. d \notin blurredRows' /\ told'[d] # 0 /\ told'[d] = newest'[d] => keyTable'[d] = told'[d]
      BY <1>3, <2>2, <3>1 DEF DeviceInv
    <3> QED BY <1>3, <3>1, <3>2, <3>3, <3>4 DEF DeviceInv
  <2>6. ASSUME NEW c \in Bridges PROVE BridgeInv(c)'
    <3>1. bridge[c].device \in Devices
      BY <1>1 DEF LoginTypeOK
    <3> QED BY <1>1, <1>3, <1>4, <2>1, <3>1, LoginEnds, BridgeStays, BridgeIdles
  <2> QED BY <1>1, <2>3, <2>4, <2>5, <2>6, UndisturbedKept DEF LoginIInv
<1> QED BY <1>5, <1>6

\* A login fails: another completes the account, or nobody was told of the device,
\* or the account is cut short.
LEMMA FailureKept ==
  ASSUME LoginIInv, NEW b \in Bridges, DropLogin(b) \/ \E piece \in Parts : StoreFails(b, piece)
  PROVE  LoginIInv'
<1>1. LoginTypeOK /\ (\A e \in Devices : DeviceInv(e)) /\ (\A c \in Bridges : BridgeInv(c))
  BY DEF LoginIInv
<1>2. PICK d \in Devices : d = bridge[b].device
  BY <1>1 DEF LoginTypeOK
<1>3. /\ Ends(b) /\ cut \subseteq cut' /\ cut' \subseteq Devices
      /\ UNCHANGED <<botHere, keyCache, keyTable, olm, lastApiKey, told, newest, blurredRows>>
      /\ d \in cut' \/ ~MakingAccount(b, d) \/ ~botHere
           \/ (bridge[b].pc = "account" /\ "account" \in olm[d])
  BY <1>1, <1>2 DEF DropLogin, StoreFails, Writable, MakingAccount, Parts, LoginTypeOK
<1>4. LoginTypeOK'
  BY <1>1, <1>3, LoginEnds DEF LoginTypeOK, LoginRecord
<1>5. ASSUME NEW e \in Devices \ {d} PROVE Undisturbed(e)
  <2>1. ~MakingAccount(b, e) /\ ~Finishing(b, e)
    BY <1>2 DEF MakingAccount, Finishing
  <2> QED BY <1>1, <1>3, <2>1, LoginEnds DEF Undisturbed
<1>6. DeviceInv(d)'
  <2>1. DeviceInv(d) /\ \A c \in Bridges \ {b} : /\ bridge'[c] = bridge[c]
                                                 /\ MakingAccount(c, d)' <=> MakingAccount(c, d)
                                                 /\ Finishing(c, d)' <=> Finishing(c, d)
    BY <1>1, <1>3, LoginEnds
  <2>2. ~MakingAccount(b, d)'
    BY <1>1, <1>3, LoginEnds
  <2>3. \A c \in Bridges : (Finishing(c, d) => MakingAccount(c, d)) /\ (Finishing(c, d)' => MakingAccount(c, d)')
    BY DEF Finishing, MakingAccount, Parts
  <2>4. CASE d \in cut' \/ ~MakingAccount(b, d)
    BY <1>3, <2>1, <2>2, <2>3, <2>4 DEF DeviceInv
  <2>5. CASE ~botHere
    BY <1>3, <2>1, <2>2, <2>5 DEF DeviceInv
  <2>6. CASE bridge[b].pc = "account" /\ "account" \in olm[d]
    <3>1. ~Finishing(b, d)
      BY <2>6 DEF Finishing
    <3>2. d \in cut' \/ olm'[d] = Parts \/ \E c \in Bridges : Finishing(c, d)'
      BY <1>3, <2>1, <2>6, <3>1 DEF DeviceInv
    <3> QED BY <1>3, <2>1, <2>2, <2>3, <3>2 DEF DeviceInv
  <2> QED BY <1>3, <2>4, <2>5, <2>6
<1>7. ASSUME NEW c \in Bridges PROVE BridgeInv(c)'
  BY <1>1, <1>3, LoginEnds, BridgeStays, BridgeIdles
<1> QED BY <1>1, <1>4, <1>5, <1>6, <1>7, UndisturbedKept DEF LoginIInv

\* create_bot_api_key, of a device that may have kept an account.
LEMMA BotKeyMade ==
  ASSUME LoginIInv, NEW d \in Devices, CreateBotApiKey(d)
  PROVE  LoginIInv'
<1>1. LoginTypeOK /\ (\A e \in Devices : DeviceInv(e)) /\ (\A c \in Bridges : BridgeInv(c))
  BY DEF LoginIInv
<1>2. /\ botHere /\ keyCache[d] = 0 /\ keyTable[d] = 0 /\ MakeKey(d, TRUE)
      /\ \/ keyCache' = [keyCache EXCEPT ![d] = lastApiKey + 1] /\ blurredRows' = blurredRows \ {d}
         \/ keyCache' = keyCache /\ blurredRows' = blurredRows \cup {d}
      /\ cut' = IF "account" \in olm[d] THEN cut ELSE cut \cup {d}
      /\ UNCHANGED <<botHere, olm, bridge, told>>
  BY DEF CreateBotApiKey
<1>3. /\ lastApiKey \in Nat /\ lastApiKey' = lastApiKey + 1 /\ newest'[d] = lastApiKey'
      /\ keyTable'[d] = lastApiKey' /\ told[d] < lastApiKey'
      /\ \A c \in Bridges : bridge[c].key < lastApiKey'
      /\ bridge \in [Bridges -> LoginRecord']
  BY <1>1, <1>2, KeyMade
<1>t. /\ lastApiKey + 1 \in 0..lastApiKey'
      /\ keyCache \in [Devices -> 0..lastApiKey'] /\ told \in [Devices -> 0..lastApiKey']
  <2>1. \A f \in [Devices -> 0..lastApiKey] : f \in [Devices -> 0..lastApiKey']
    BY <1>1, <1>2, KeyMade
  <2> QED BY <1>1, <1>3, <2>1 DEF LoginTypeOK
<1>4. /\ keyCache' \in [Devices -> 0..lastApiKey']
      /\ \A e \in Devices \ {d} : keyCache'[e] = keyCache[e]
      /\ d \in blurredRows' \/ keyCache'[d] = lastApiKey'
  BY <1>2, <1>3, <1>t
<1>5. LoginTypeOK'
  BY <1>1, <1>2, <1>3, <1>t, <1>4, KeyMade DEF LoginTypeOK, LoginRecord
<1>6. \A b \in Bridges : \A e : (MakingAccount(b, e)' <=> MakingAccount(b, e)) /\ (Finishing(b, e)' <=> Finishing(b, e))
  BY <1>2 DEF MakingAccount, Finishing
<1>7. ASSUME NEW e \in Devices \ {d} PROVE Undisturbed(e)
  <2>1. (e \in blurredRows' <=> e \in blurredRows) /\ (e \in cut => e \in cut')
    BY <1>2
  <2>2. newest'[e] = newest[e] /\ keyTable'[e] = keyTable[e]
    BY <1>1, <1>2, KeyMade
  <2> QED BY <1>2, <1>4, <1>6, <2>1, <2>2 DEF Undisturbed
<1>8. DeviceInv(d)'
  <2>1. DeviceInv(d) /\ botHere' = TRUE
    BY <1>1, <1>2 DEF LoginTypeOK
  <2>2. \A c \in Bridges : Finishing(c, d) => MakingAccount(c, d)
    BY DEF Finishing, MakingAccount, Parts
  <2>3. "account" \in olm[d] => d \in cut \/ olm[d] = Parts \/ \E c \in Bridges : Finishing(c, d)
    BY <2>1 DEF DeviceInv
  <2>4. told'[d] # newest'[d] /\ \A c \in Bridges : bridge'[c].key # newest'[d]
    <3>1. told[d] \in Nat /\ \A c \in Bridges : bridge[c].key \in Nat
      BY <1>1 DEF LoginTypeOK
    <3> QED BY <1>2, <1>3, <3>1
  <2> QED BY <1>2, <1>3, <1>4, <1>6, <2>1, <2>2, <2>3, <2>4 DEF DeviceInv
<1>9. ASSUME NEW c \in Bridges PROVE BridgeInv(c)'
  BY <1>1, <1>2, BridgeStays
<1> QED BY <1>1, <1>5, <1>7, <1>8, <1>9, UndisturbedKept DEF LoginIInv

\* delete_bot_api_key, of a device that a login may be making.
LEMMA BotKeyDeleted ==
  ASSUME LoginIInv, NEW d \in Devices, DeleteBotApiKey(d)
  PROVE  LoginIInv'
<1>1. LoginTypeOK /\ (\A e \in Devices : DeviceInv(e)) /\ (\A c \in Bridges : BridgeInv(c))
  BY DEF LoginIInv
<1>2. /\ keyTable' = [keyTable EXCEPT ![d] = 0]
      /\ told' = [told EXCEPT ![d] = 0] /\ newest' = [newest EXCEPT ![d] = 0]
      /\ \/ keyCache' = [keyCache EXCEPT ![d] = 0] /\ blurredRows' = blurredRows \ {d}
         \/ keyCache' = keyCache /\ blurredRows' = blurredRows \cup {d}
      /\ UNCHANGED <<botHere, olm, bridge, lastApiKey, cut>>
  BY DEF DeleteBotApiKey
<1>3. LoginTypeOK'
  <2>1. 0 \in 0..lastApiKey
    BY <1>1 DEF LoginTypeOK
  <2>2. keyTable' \in [Devices -> 0..lastApiKey] /\ told' \in [Devices -> 0..lastApiKey]
        /\ newest' \in [Devices -> 0..lastApiKey] /\ keyCache' \in [Devices -> 0..lastApiKey]
    BY <1>1, <1>2, <2>1 DEF LoginTypeOK
  <2> QED BY <1>1, <1>2, <2>2 DEF LoginTypeOK
<1>4. \A b \in Bridges : \A e : (MakingAccount(b, e)' <=> MakingAccount(b, e)) /\ (Finishing(b, e)' <=> Finishing(b, e))
  BY <1>2 DEF MakingAccount, Finishing
<1>5. ASSUME NEW e \in Devices \ {d} PROVE Undisturbed(e)
  BY <1>1, <1>2, <1>4 DEF Undisturbed, LoginTypeOK
<1>6. DeviceInv(d)'
  <2>1. /\ keyTable'[d] = 0 /\ told'[d] = 0 /\ newest'[d] = 0
        /\ keyCache'[d] \in {0, keyCache[d]}
        /\ d \in blurredRows' \/ keyCache'[d] = 0
    BY <1>1, <1>2 DEF LoginTypeOK
  <2>2. DeviceInv(d)
    BY <1>1
  <2> QED BY <1>2, <1>4, <2>1, <2>2 DEF DeviceInv
<1>7. ASSUME NEW c \in Bridges PROVE BridgeInv(c)'
  BY <1>1, <1>2, BridgeStays
<1> QED BY <1>1, <1>3, <1>5, <1>6, <1>7, UndisturbedKept DEF LoginIInv

\* delete_user of the bot.
LEMMA BotDeleted ==
  ASSUME LoginIInv, DeleteBot
  PROVE  LoginIInv'
<1>1. LoginTypeOK /\ (\A e \in Devices : DeviceInv(e)) /\ (\A c \in Bridges : BridgeInv(c))
  BY DEF LoginIInv
<1>2. /\ botHere' = FALSE
      /\ \A d \in Devices : keyCache'[d] = 0 /\ keyTable'[d] = 0 /\ told'[d] = 0 /\ newest'[d] = 0 /\ olm'[d] = {}
      /\ UNCHANGED <<bridge, lastApiKey, blurredRows, cut>>
  BY DEF DeleteBot
<1>3. LoginTypeOK'
  <2>1. [d \in Devices |-> 0] \in [Devices -> 0..lastApiKey]
    BY <1>1 DEF LoginTypeOK
  <2> QED BY <1>1, <2>1 DEF DeleteBot, LoginTypeOK
<1>4. ASSUME NEW d \in Devices PROVE DeviceInv(d)'
  BY <1>2 DEF DeviceInv
<1>5. ASSUME NEW c \in Bridges PROVE BridgeInv(c)'
  BY <1>1, <1>2 DEF BridgeInv
<1> QED BY <1>3, <1>4, <1>5 DEF LoginIInv

\* The process stops and starts: the table is what is left.
LEMMA LoginsRestart ==
  ASSUME LoginIInv, RestartLogins
  PROVE  LoginIInv'
<1>1. LoginTypeOK /\ (\A e \in Devices : DeviceInv(e)) /\ (\A c \in Bridges : BridgeInv(c))
  BY DEF LoginIInv
<1>2. /\ keyCache' = keyTable /\ blurredRows' = {}
      /\ cut' = cut \cup {bridge[b].device : b \in {a \in Bridges : bridge[a].pc \in Parts \cup {"count"}}}
      /\ told' = [d \in Devices |-> IF told[d] = keyTable[d] THEN told[d] ELSE 0]
      /\ bridge' = [b \in Bridges |-> IdleBridge]
      /\ UNCHANGED <<botHere, keyTable, olm, lastApiKey, newest>>
  BY DEF RestartLogins
<1>3. IdleBridge \in LoginRecord /\ IdleBridge.pc = "idle" /\ 0 \in 0..lastApiKey
  BY <1>1, IdleRecord DEF LoginTypeOK
<1>4. LoginTypeOK'
  <2>1. told' \in [Devices -> 0..lastApiKey] /\ bridge' \in [Bridges -> LoginRecord]
    BY <1>1, <1>2, <1>3 DEF LoginTypeOK
  <2>2. cut' \subseteq Devices
    BY <1>1, <1>2 DEF LoginTypeOK
  <2> QED BY <1>1, <1>2, <2>1, <2>2 DEF LoginTypeOK, LoginRecord
<1>5. \A b \in Bridges : \A d : ~MakingAccount(b, d)' /\ ~Finishing(b, d)'
  BY <1>2, <1>3 DEF MakingAccount, Finishing, Parts
<1>6. ASSUME NEW d \in Devices PROVE DeviceInv(d)'
  <2>1. (\E b \in Bridges : MakingAccount(b, d)) => d \in cut'
    BY <1>2 DEF MakingAccount
  <2>2. \A b \in Bridges : Finishing(b, d) => MakingAccount(b, d)
    BY DEF Finishing, MakingAccount, Parts
  <2>3. told'[d] \in {0, keyTable[d]} /\ (told'[d] # 0 => told[d] # 0) /\ keyCache'[d] = keyTable[d]
    BY <1>2
  <2>4. DeviceInv(d) /\ cut \subseteq cut'
    BY <1>1, <1>2
  <2> QED BY <1>2, <1>5, <2>1, <2>2, <2>3, <2>4 DEF DeviceInv
<1>7. ASSUME NEW c \in Bridges PROVE BridgeInv(c)'
  BY <1>2, <1>3, BridgeIdles
<1> QED BY <1>4, <1>6, <1>7 DEF LoginIInv

\* The invariant holds throughout.
LEMMA LoginInvariance == LoginSpec => []LoginIInv
<1>1. LoginIInv /\ [LoginNext]_loginVars => LoginIInv'
  <2> SUFFICES ASSUME LoginIInv, [LoginNext]_loginVars PROVE LoginIInv'
    OBVIOUS
  <2>1. CASE UNCHANGED loginVars
    BY <2>1 DEF loginVars, LoginIInv, LoginTypeOK, DeviceInv, BridgeInv, MakingAccount, Finishing
  <2>2. CASE LoginNext
    BY <2>2, StartKept, UpdateKept, CreateKept, RefuseKept, CountKept, PartKept, FailureKept,
       BotKeyMade, BotKeyDeleted, BotDeleted, LoginsRestart DEF LoginNext
  <2> QED BY <2>1, <2>2
<1> QED BY LoginInitially, <1>1, PTL DEF LoginSpec

\* A device works once a login was answered for it, however logins, deletions
\* of its key and restarts cross.
THEOREM DeviceReady == LoginSpec => []DeviceWorks
<1>1. LoginIInv => DeviceWorks
  <2> SUFFICES ASSUME LoginIInv, NEW d \in Devices, told[d] # 0
               PROVE  /\ told[d] = newest[d] /\ d \notin blurredRows =>
                            told[d] = keyCache[d] /\ told[d] = keyTable[d]
                      /\ d \in cut \/ BeingMade(d) # {} \/ olm[d] = Parts
    BY DEF DeviceWorks
  <2>1. \A b \in Bridges : MakingAccount(b, d) => b \in BeingMade(d)
    BY DEF MakingAccount, BeingMade
  <2> QED BY <2>1 DEF LoginIInv, DeviceInv
<1> QED BY LoginInvariance, <1>1, PTL

----------------------------------------------------------------------------
\* Messages of encrypted rooms.

\* The request of letter l is under way.
Reading(l) == letter[l].pc \in {"sent", "found", "read"}

\* A key that is there lasts as long as the bridge may think that it does, and
\* one that was answered is there, or its loss is known.
KeysLive ==
    \A s \in Megolms :
        /\ inbound[s] # None => s \in unread \/ unused[s] <= idleFor[s]
        /\ idleFor[s] = Retention => s \in lapsed
        /\ s \in keyed /\ inbound[s] = None => s \in unread \cup lapsed

\* What is known of a message.  Under way it was encrypted after its key was
\* answered, or is excused; read it has touched its key; and when it was sent
\* once its one request stored it or did not.
LetterInv(l) ==
    /\ letter[l].pc # "unwritten" => letter[l].session \in Megolms
    /\ Reading(l) /\ l \notin excused => letter[l].session \in keyed
    /\ letter[l].pc = "read" => inbound[letter[l].session] = None \/ unused[letter[l].session] = 0
    /\ l \notin resent => IF letter[l].pc = "answered" THEN copies[l] = 1
                          ELSE copies[l] = 0 \/ (copies[l] = 1 /\ letter[l].pc = "refused")
    /\ letter[l].pc = "lost" => l \in excused
    /\ letter[l].pc = "answered" => copies[l] >= 1

RoomsIInv == RoomsTypeOK /\ KeysLive /\ \A l \in Letters : LetterInv(l)

LetterRecord == [pc : {"unwritten", "sent", "found", "read", "answered", "lost", "refused"},
                 session : Megolms \cup {None}, index : Nat, key : {None} \cup Nat]

\* A letter that moves on keeps its session, and the other letters stay.
LEMMA LetterMoves ==
  ASSUME RoomsTypeOK, NEW l \in Letters,
         NEW p \in {"sent", "found", "read", "answered", "lost", "refused"},
         letter' = [letter EXCEPT ![l].pc = p]
  PROVE  /\ letter' \in [Letters -> LetterRecord]
         /\ letter'[l].pc = p /\ letter'[l].session = letter[l].session
         /\ \A m \in Letters \ {l} : letter'[m] = letter[m]
  BY DEF RoomsTypeOK, LetterRecord

\* No message is written and no key stored at the start.
LEMMA RoomsInitially == RoomsInit => RoomsIInv
<1> SUFFICES ASSUME RoomsInit PROVE RoomsIInv
  OBVIOUS
<1>1. Unwritten \in LetterRecord /\ Unwritten.pc = "unwritten"
  BY DEF Unwritten, LetterRecord
<1>2. RoomsTypeOK
  BY <1>1 DEF RoomsInit, RoomsTypeOK, LetterRecord, Retention
<1>3. KeysLive
  <2>1. \A s \in Megolms : inbound[s] = None /\ idleFor[s] = 0 /\ s \notin keyed
    BY DEF RoomsInit
  <2>2. Retention # 0
    BY DEF Retention
  <2> QED BY <2>1, <2>2 DEF KeysLive
<1>4. \A l \in Letters : LetterInv(l)
  BY <1>1 DEF RoomsInit, LetterInv, Reading
<1> QED BY <1>2, <1>3, <1>4 DEF RoomsIInv

\* What happens to a key.
LEMMA KeyKept ==
  ASSUME RoomsIInv, NEW s \in Megolms, ShareKey(s) \/ StoreKey(s) \/ LoseKey(s)
  PROVE  RoomsIInv'
<1>1. RoomsTypeOK /\ KeysLive /\ \A l \in Letters : LetterInv(l)
  BY DEF RoomsIInv
<1>2. RoomsTypeOK'
  BY <1>1 DEF RoomsTypeOK, ShareKey, StoreKey, LoseKey, Retention
<1>3. KeysLive'
  BY <1>1 DEF KeysLive, RoomsTypeOK, ShareKey, StoreKey, LoseKey, Retention
<1>4. ASSUME NEW l \in Letters PROVE LetterInv(l)'
  <2>1. /\ letter' = letter /\ copies' = copies /\ excused' = excused /\ resent' = resent
        /\ keyed \subseteq keyed'
    BY DEF ShareKey, StoreKey, LoseKey
  <2>2. \A r \in Megolms : inbound[r] = None \/ unused[r] = 0 => inbound'[r] = None \/ unused'[r] = 0
    BY <1>1 DEF ShareKey, StoreKey, LoseKey, RoomsTypeOK
  <2> QED BY <1>1, <2>1, <2>2 DEF LetterInv, Reading
<1> QED BY <1>2, <1>3, <1>4 DEF RoomsIInv

\* A message is written.
LEMMA WriteKept ==
  ASSUME RoomsIInv, NEW l \in Letters, NEW s \in Megolms, WriteLetter(l, s)
  PROVE  RoomsIInv'
<1>1. RoomsTypeOK /\ KeysLive /\ \A m \in Letters : LetterInv(m)
  BY DEF RoomsIInv
<1>2. RoomsTypeOK'
  BY <1>1 DEF RoomsTypeOK, WriteLetter
<1>3. KeysLive'
  BY <1>1 DEF KeysLive, WriteLetter
<1>4. ASSUME NEW m \in Letters PROVE LetterInv(m)'
  BY <1>1 DEF LetterInv, Reading, WriteLetter, RoomsTypeOK
<1> QED BY <1>2, <1>3, <1>4 DEF RoomsIInv

\* Its key is looked for.
LEMMA FindKept ==
  ASSUME RoomsIInv, NEW l \in Letters, FindKey(l)
  PROVE  RoomsIInv'
<1>1. RoomsTypeOK /\ KeysLive /\ \A m \in Letters : LetterInv(m)
  BY DEF RoomsIInv
<1>2. PICK s \in Megolms : s = letter[l].session
  BY <1>1 DEF FindKey, LetterInv
<1>3. PICK p \in {"lost", "found"} : p = IF inbound[s] = None THEN "lost" ELSE "found"
  OBVIOUS
<1>4. /\ letter' = [letter EXCEPT ![l] = [letter[l] EXCEPT !.pc = p, !.key = inbound[s]]]
      /\ excused' = IF s \in unread \cup lapsed THEN excused \cup {l} ELSE excused
      /\ UNCHANGED <<inbound, unused, keyOnWay, ratchet, copies, keyed, idleFor, unread, lapsed, resent>>
  BY <1>1, <1>2, <1>3 DEF FindKey, RoomsTypeOK
<1>5. /\ letter[l] \in LetterRecord
      /\ [letter[l] EXCEPT !.pc = p, !.key = inbound[s]] \in LetterRecord
      /\ [letter[l] EXCEPT !.pc = p, !.key = inbound[s]].pc = p
      /\ [letter[l] EXCEPT !.pc = p, !.key = inbound[s]].session = s
  BY ZenonT(30), <1>1, <1>2 DEF RoomsTypeOK, LetterRecord
<1>6. /\ letter' \in [Letters -> LetterRecord]
      /\ letter'[l].pc = p /\ letter'[l].session = s
      /\ \A m \in Letters \ {l} : letter'[m] = letter[m]
  BY <1>1, <1>4, <1>5 DEF RoomsTypeOK, LetterRecord
<1>7. RoomsTypeOK'
  BY <1>1, <1>4, <1>6 DEF RoomsTypeOK, LetterRecord
<1>8. KeysLive'
  BY <1>1, <1>4 DEF KeysLive
<1>9. LetterInv(l)'
  \* The key of a message that is not excused was answered.
  <2>1. LetterInv(l) /\ letter[l].pc = "sent"
    BY <1>1 DEF FindKey
  <2>2. inbound[s] = None => l \in excused'
    BY <1>1, <1>2, <1>4, <2>1 DEF LetterInv, Reading, KeysLive
  <2> QED BY <1>2, <1>3, <1>4, <1>6, <2>1, <2>2 DEF LetterInv, Reading
<1>10. ASSUME NEW m \in Letters \ {l} PROVE LetterInv(m)'
  BY <1>1, <1>4, <1>6 DEF LetterInv, Reading
<1> QED BY <1>7, <1>8, <1>9, <1>10 DEF RoomsIInv

\* It is read with the key that was found.
LEMMA ReadLetterKept ==
  ASSUME RoomsIInv, NEW l \in Letters, ReadLetter(l)
  PROVE  RoomsIInv'
<1>1. RoomsTypeOK /\ KeysLive /\ \A m \in Letters : LetterInv(m)
  BY DEF RoomsIInv
<1>2. PICK s \in Megolms : s = letter[l].session
  BY <1>1 DEF ReadLetter, LetterInv
<1>3. /\ letter[l].pc = "found"
      /\ UNCHANGED <<inbound, ratchet, keyOnWay, copies, keyed, idleFor, excused, unread, lapsed, resent>>
      /\ \/ letter' = [letter EXCEPT ![l].pc = "read"] /\ unused' = Touched(s)
         \/ letter' = [letter EXCEPT ![l].pc = "refused"] /\ unused' = unused
  BY <1>2 DEF ReadLetter
<1>4. /\ letter' \in [Letters -> LetterRecord]
      /\ letter'[l].session = s
      /\ \/ letter'[l].pc = "read" /\ unused' = Touched(s)
         \/ letter'[l].pc = "refused" /\ unused' = unused
      /\ \A m \in Letters \ {l} : letter'[m] = letter[m]
  <2>1. CASE letter' = [letter EXCEPT ![l].pc = "read"] /\ unused' = Touched(s)
    BY <1>1, <1>2, <2>1, LetterMoves
  <2>2. CASE letter' = [letter EXCEPT ![l].pc = "refused"] /\ unused' = unused
    BY <1>1, <1>2, <2>2, LetterMoves
  <2> QED BY <1>3, <2>1, <2>2
<1>5. /\ unused' \in [Megolms -> 0..Retention]
      /\ \A r \in Megolms : unused'[r] = unused[r] \/ unused'[r] = 0
      /\ letter'[l].pc = "read" => inbound[s] = None \/ unused'[s] = 0
  BY <1>1, <1>4 DEF Touched, RoomsTypeOK, Retention
<1>6. RoomsTypeOK'
  BY <1>1, <1>3, <1>4, <1>5 DEF RoomsTypeOK, LetterRecord
<1>7. KeysLive'
  BY <1>1, <1>3, <1>5 DEF KeysLive, RoomsTypeOK, Retention
<1>8. LetterInv(l)'
  BY <1>1, <1>2, <1>3, <1>4, <1>5 DEF LetterInv, Reading
<1>9. ASSUME NEW m \in Letters \ {l} PROVE LetterInv(m)'
  BY <1>1, <1>3, <1>4, <1>5 DEF LetterInv, Reading
<1> QED BY <1>6, <1>7, <1>8, <1>9 DEF RoomsIInv

\* It is stored and answered.
LEMMA StoreLetterKept ==
  ASSUME RoomsIInv, NEW l \in Letters, StoreLetter(l)
  PROVE  RoomsIInv'
<1>1. RoomsTypeOK /\ KeysLive /\ \A m \in Letters : LetterInv(m)
  BY DEF RoomsIInv
<1>2. PICK s \in Megolms : s = letter[l].session
  BY <1>1 DEF StoreLetter, LetterInv
<1>3. /\ letter[l].pc = "read"
      /\ copies' = [copies EXCEPT ![l] = @ + 1] /\ idleFor' = [idleFor EXCEPT ![s] = 0]
      /\ letter' = [letter EXCEPT ![l].pc = "answered"]
      /\ UNCHANGED <<inbound, unused, ratchet, keyOnWay, keyed, excused, unread, lapsed, resent>>
  BY <1>2 DEF StoreLetter
<1>4. /\ letter' \in [Letters -> LetterRecord]
      /\ letter'[l].pc = "answered" /\ letter'[l].session = s
      /\ \A m \in Letters \ {l} : letter'[m] = letter[m]
  BY <1>1, <1>2, <1>3, LetterMoves
<1>5. RoomsTypeOK'
  BY <1>1, <1>3, <1>4 DEF RoomsTypeOK, LetterRecord, Retention
<1>6. KeysLive'
  \* Its key was touched when it was read, and the clock stood still since.
  <2>1. inbound[s] = None \/ unused[s] = 0
    BY <1>1, <1>2, <1>3 DEF LetterInv
  <2> QED BY <1>1, <1>3, <2>1 DEF KeysLive, RoomsTypeOK, Retention
<1>7. ASSUME NEW m \in Letters PROVE LetterInv(m)'
  BY <1>1, <1>2, <1>3, <1>4 DEF LetterInv, Reading, RoomsTypeOK
<1> QED BY <1>5, <1>6, <1>7 DEF RoomsIInv

\* Its request fails.
LEMMA BreakKept ==
  ASSUME RoomsIInv, NEW l \in Letters, Break(l)
  PROVE  RoomsIInv'
<1>1. RoomsTypeOK /\ KeysLive /\ \A m \in Letters : LetterInv(m)
  BY DEF RoomsIInv
<1>2. PICK s \in Megolms : s = letter[l].session
  BY <1>1 DEF Break, LetterInv
<1>3. /\ Reading(l)
      /\ UNCHANGED <<inbound, unused, ratchet, keyOnWay, keyed, idleFor, excused, unread, lapsed>>
      /\ copies' = copies \/ copies' = [copies EXCEPT ![l] = @ + 1]
      /\ \/ letter' = [letter EXCEPT ![l].pc = "refused"] /\ resent' = resent
         \/ letter' = [letter EXCEPT ![l].pc = "sent"] /\ resent' = resent \cup {l}
  BY DEF Break, Reading
<1>4. /\ letter' \in [Letters -> LetterRecord]
      /\ letter'[l].session = s
      /\ \/ letter'[l].pc = "refused" /\ resent' = resent
         \/ letter'[l].pc = "sent" /\ resent' = resent \cup {l}
      /\ \A m \in Letters \ {l} : letter'[m] = letter[m]
  <2>1. CASE letter' = [letter EXCEPT ![l].pc = "refused"] /\ resent' = resent
    BY <1>1, <1>2, <2>1, LetterMoves
  <2>2. CASE letter' = [letter EXCEPT ![l].pc = "sent"] /\ resent' = resent \cup {l}
    BY <1>1, <1>2, <2>2, LetterMoves
  <2> QED BY <1>3, <2>1, <2>2
<1>5. copies' \in [Letters -> Nat] /\ \A m \in Letters \ {l} : copies'[m] = copies[m]
  BY <1>1, <1>3 DEF RoomsTypeOK
<1>6. RoomsTypeOK'
  BY <1>1, <1>3, <1>4, <1>5 DEF RoomsTypeOK, LetterRecord
<1>7. KeysLive'
  BY <1>1, <1>3 DEF KeysLive
<1>8. LetterInv(l)'
  <2>1. LetterInv(l) /\ copies'[l] \in {copies[l], copies[l] + 1} /\ copies[l] \in Nat
    BY <1>1, <1>3 DEF RoomsTypeOK
  <2>2. CASE letter'[l].pc = "sent" /\ resent' = resent \cup {l}
    BY <1>2, <1>3, <1>4, <2>1, <2>2 DEF LetterInv, Reading
  <2>3. CASE letter'[l].pc = "refused" /\ resent' = resent
    BY <1>2, <1>3, <1>4, <2>1, <2>3 DEF LetterInv, Reading
  <2> QED BY <1>4, <2>2, <2>3
<1>9. ASSUME NEW m \in Letters \ {l} PROVE LetterInv(m)'
  BY <1>1, <1>3, <1>4, <1>5 DEF LetterInv, Reading
<1> QED BY <1>6, <1>7, <1>8, <1>9 DEF RoomsIInv

\* Time passes, and the cleaner runs.
LEMMA TimeKept ==
  ASSUME RoomsIInv, Tick \/ CleanSessions
  PROVE  RoomsIInv'
<1>1. RoomsTypeOK /\ KeysLive /\ \A l \in Letters : LetterInv(l)
  BY DEF RoomsIInv
<1>2. CASE Tick
  <2>1. /\ unused' = [s \in Megolms |-> Older(unused[s])]
        /\ idleFor' = [s \in Megolms |-> Older(idleFor[s])]
        /\ lapsed' = lapsed \cup {s \in Megolms : idleFor'[s] = Retention}
        /\ \A l \in Letters : ~Reading(l)
        /\ UNCHANGED <<inbound, ratchet, keyOnWay, letter, copies, keyed, excused, unread, resent>>
    BY <1>2 DEF Tick, Reading
  <2>2. \A m, n \in 0..Retention : Older(m) \in 0..Retention /\ (m <= n => Older(m) <= Older(n))
    BY DEF Older, Retention
  <2>3. RoomsTypeOK'
    BY <1>1, <2>1, <2>2 DEF RoomsTypeOK
  <2>4. KeysLive'
    BY <1>1, <2>1, <2>2 DEF KeysLive, RoomsTypeOK
  <2>5. ASSUME NEW l \in Letters PROVE LetterInv(l)'
    BY <1>1, <2>1 DEF LetterInv, Reading
  <2> QED BY <2>3, <2>4, <2>5 DEF RoomsIInv
<1>3. CASE CleanSessions
  <2>1. /\ inbound' = [s \in Megolms |-> IF Expired(s) THEN None ELSE inbound[s]]
        /\ UNCHANGED <<unused, ratchet, keyOnWay, letter, copies, keyed, idleFor, excused, unread,
                       lapsed, resent>>
    BY <1>3 DEF CleanSessions
  <2>2. RoomsTypeOK'
    BY <1>1, <2>1 DEF RoomsTypeOK
  <2>3. KeysLive'
    \* What was not used for so long was idle for as long.
    BY <1>1, <2>1 DEF KeysLive, RoomsTypeOK, Expired, Retention
  <2>4. ASSUME NEW l \in Letters PROVE LetterInv(l)'
    BY <1>1, <2>1 DEF LetterInv, Reading
  <2> QED BY <2>2, <2>3, <2>4 DEF RoomsIInv
<1> QED BY <1>2, <1>3

\* The invariant holds throughout.
LEMMA RoomsInvariance == RoomsSpec => []RoomsIInv
<1>1. RoomsIInv /\ [RoomsNext]_roomVars => RoomsIInv'
  <2> SUFFICES ASSUME RoomsIInv, [RoomsNext]_roomVars PROVE RoomsIInv'
    OBVIOUS
  <2>1. CASE UNCHANGED roomVars
    BY <2>1 DEF roomVars, RoomsIInv, RoomsTypeOK, KeysLive, LetterInv, Reading
  <2>2. CASE RoomsNext
    BY <2>2, KeyKept, WriteKept, FindKept, ReadLetterKept, StoreLetterKept, BreakKept, TimeKept DEF RoomsNext
  <2> QED BY <2>1, <2>2
<1> QED BY RoomsInitially, <1>1, PTL DEF RoomsSpec

\* No message whose key was answered first is dropped with a 200, and one that
\* is answered with a mid is stored, once unless the bridge sent it again.
THEOREM KeyedRead == RoomsSpec => []KeyedIsRead
<1>1. RoomsIInv => KeyedIsRead
  BY DEF RoomsIInv, LetterInv, KeyedIsRead, RoomsTypeOK
<1> QED BY RoomsInvariance, <1>1, PTL

----------------------------------------------------------------------------
\* The users and the apps that list them.

\* What a directory of users, and what an app, shows of u: a profile or nothing.
ShownOf(dir, u) == IF u \in DOMAIN dir /\ ~dir[u].guest THEN {dir[u].profile} ELSE {}
ListedOf(list, u) == IF u \in DOMAIN list THEN {list[u]} ELSE {}

SameUser(dir, other, u) ==
    /\ u \in DOMAIN dir <=> u \in DOMAIN other
    /\ u \in DOMAIN dir => dir[u] = other[u]

\* What a row makes of it.
RowMakes(s, u, row) ==
    IF row.uid # u THEN s
    ELSE CASE row.action = "create" -> {row.set}
           [] row.action = "update" -> {Updated(p, row.set) : p \in s}
           [] row.action = "delete" -> {}

Unblurred == Uids \ blurred

\* What the rows of a log make of u, one after the other.
IsHistory(f, u, log) ==
    /\ f \in [0..Len(log) -> SUBSET Profile]
    /\ f[0] = {}
    /\ \A i \in 1..Len(log) : f[i] = RowMakes(f[i - 1], u, log[i])

\* The server is at the end of it, and every app where its version says.
OneHistory(u, log, apps, shown) ==
    \E f \in [0..Len(log) -> SUBSET Profile] :
        /\ IsHistory(f, u, log)
        /\ f[Len(log)] = shown
        /\ \A a \in Apps : ListedOf(apps[a].list, u) = f[apps[a].version]

\* An app that listens is sent the rows that it has not read, in their order, but
\* for some of users whose request was dropped.
InboxOf(x) ==
    /\ ~x.on => x.inbox = <<>>
    /\ \A i \in DOMAIN x.inbox : x.inbox[i] > x.version
    /\ \A i, j \in DOMAIN x.inbox : i < j => x.inbox[i] < x.inbox[j]
    /\ x.on => \A n \in (x.version + 1)..Len(userLog) :
          (\E i \in DOMAIN x.inbox : x.inbox[i] = n) \/ userLog[n].uid \in blurred

UsersInv ==
    /\ UsersTypeOK
    /\ \A u \in Unblurred : SameUser(userTable, userCache, u)
    /\ \A a \in Apps : InboxOf(app[a])
    /\ \A u \in Unblurred : OneHistory(u, userLog, app, ShownOf(userCache, u))

----------------------------------------------------------------------------
\* Profiles and directories.

\* An update carries some of a profile, and what it does not stays.
LEMMA UpdateMakesProfile ==
  ASSUME NEW set \in Updates, NEW p \in Profile
  PROVE  Updated(p, set) \in Profile
<1>1. DOMAIN p = {"name", "looks"} /\ p.name \in UserNames /\ p.looks \in 0..1
  BY DEF Profile
<1>2. CASE \E n \in UserNames : set = [name |-> n]
  <2>1. PICK n \in UserNames : set = [name |-> n]
    BY <1>2
  <2>2. Updated(p, set) = [x \in {"name", "looks"} |-> IF x \in {"name"} THEN set[x] ELSE p[x]]
    BY <1>1, <2>1 DEF Updated
  <2> QED BY <1>1, <2>1, <2>2 DEF Profile
<1>3. CASE \E l \in 0..1 : set = [looks |-> l]
  <2>1. PICK l \in 0..1 : set = [looks |-> l]
    BY <1>3
  <2>2. Updated(p, set) = [x \in {"name", "looks"} |-> IF x \in {"looks"} THEN set[x] ELSE p[x]]
    BY <1>1, <2>1 DEF Updated
  <2> QED BY <1>1, <2>1, <2>2 DEF Profile
<1>4. CASE set \in Profile
  <2>1. DOMAIN set = {"name", "looks"}
    BY <1>4 DEF Profile
  <2>2. Updated(p, set) = [x \in {"name", "looks"} |-> set[x]]
    BY <1>1, <2>1 DEF Updated
  <2> QED BY <1>4, <2>1, <2>2 DEF Profile
<1> QED BY <1>2, <1>3, <1>4 DEF Updates

\* What it takes to be a directory, and what that gives.
LEMMA DirectoryIs ==
  ASSUME NEW keys, NEW values
  PROVE  /\ \A D, f : D \subseteq keys /\ f \in [D -> values] => f \in Directory(keys, values)
         /\ \A f \in Directory(keys, values) :
               /\ DOMAIN f \subseteq keys /\ f \in [DOMAIN f -> values]
  BY DEF Directory

\* A change of one user.
LEMMA ChangedIs ==
  ASSUME NEW keys, NEW dir \in Directory(keys, User), NEW u, NEW set \in Updates
  PROVE  /\ Changed(dir, u, set) \in Directory(keys, User)
         /\ DOMAIN Changed(dir, u, set) = DOMAIN dir
         /\ \A v \in DOMAIN dir : v # u => Changed(dir, u, set)[v] = dir[v]
         /\ u \in DOMAIN dir =>
               Changed(dir, u, set)[u] = [guest |-> dir[u].guest, profile |-> Updated(dir[u].profile, set)]
<1> PICK D : D = DOMAIN dir
  OBVIOUS
<1>1. D \subseteq keys /\ dir \in [D -> User]
  BY DirectoryIs
<1> PICK new : new = Changed(dir, u, set)
  OBVIOUS
<1>2. DOMAIN new = D /\ \A v \in D : v # u => new[v] = dir[v]
  BY DEF Changed
<1>3. ASSUME u \in D
      PROVE  new[u] = [guest |-> dir[u].guest, profile |-> Updated(dir[u].profile, set)] /\ new[u] \in User
  <2>1. dir[u] \in User /\ Updated(dir[u].profile, set) \in Profile
    BY <1>1, <1>3, UpdateMakesProfile DEF User
  <2> PICK p : p = Updated(dir[u].profile, set)
    OBVIOUS
  <2>2. new[u] = [dir[u] EXCEPT !.profile = p]
    BY <1>3 DEF Changed
  <2> QED BY <2>1, <2>2 DEF User
<1>4. new \in [D -> User]
  <2>1. \A v \in D : new[v] \in User
    BY <1>1, <1>2, <1>3
  <2>2. new = [v \in D |-> new[v]]
    BY DEF Changed
  <2> QED BY <2>1, <2>2
<1> QED BY <1>1, <1>2, <1>3, <1>4, DirectoryIs

\* A directory with one more, or another value of one.
LEMMA WithIs ==
  ASSUME NEW keys, NEW more, keys \subseteq more, NEW values, NEW dir, dir \in Directory(keys, values),
         NEW u \in more, NEW x \in values
  PROVE  With(dir, u, x) \in Directory(more, values)
<1> PICK D : D = DOMAIN dir \cup {u}
  OBVIOUS
<1>1. DOMAIN dir \subseteq keys /\ dir \in [DOMAIN dir -> values]
  BY DirectoryIs
<1>2. D \subseteq more /\ With(dir, u, x) \in [D -> values]
  BY <1>1 DEF With
<1> QED BY <1>2, DirectoryIs

\* A directory with one less.
LEMMA WithoutIs ==
  ASSUME NEW keys, NEW values, NEW dir, dir \in Directory(keys, values), NEW u
  PROVE  Without(dir, u) \in Directory(keys, values)
<1> PICK D : D = DOMAIN dir \ {u}
  OBVIOUS
<1>1. DOMAIN dir \subseteq keys /\ dir \in [DOMAIN dir -> values]
  BY DirectoryIs
<1>2. D \subseteq keys /\ Without(dir, u) \in [D -> values]
  BY <1>1 DEF Without
<1> QED BY <1>2, DirectoryIs

----------------------------------------------------------------------------
\* Rows.

\* What an app makes of a row is what the row makes of each user.
LEMMA AppliedIs ==
  ASSUME NEW list \in Directory(Uids, Profile),
         NEW row \in LogRows
  PROVE  /\ Applied(list, row) \in Directory(Uids, Profile)
         /\ \A u \in Uids : ListedOf(Applied(list, row), u) = RowMakes(ListedOf(list, u), u, row)
<1> PICK w : w = row.uid
  OBVIOUS
<1> PICK new : new = Applied(list, row)
  OBVIOUS
<1>1. w \in Uids /\ DOMAIN list \subseteq Uids /\ list \in [DOMAIN list -> Profile]
  BY DirectoryIs DEF LogRows
<1>a. /\ row.action \in {"create", "update", "delete"}
      /\ row.action = "create" => row.set \in Profile
      /\ row.action = "update" => row.set \in Updates
  BY DEF LogRows
<1>2. CASE row.action = "create"
  <2>1. new = With(list, w, row.set)
    BY <1>2 DEF Applied
  <2>2. new \in Directory(Uids, Profile)
    BY <1>1, <1>a, <1>2, <2>1, WithIs
  <2>3. ASSUME NEW u \in Uids
        PROVE  ListedOf(new, u) = RowMakes(ListedOf(list, u), u, row)
    BY <1>2, <2>1 DEF ListedOf, RowMakes, With
  <2> QED BY <2>2, <2>3
<1>3. CASE row.action = "update"
  <2>1. new = [v \in DOMAIN list |-> IF v = w THEN Updated(list[v], row.set) ELSE list[v]]
    BY <1>3 DEF Applied
  <2>2. w \in DOMAIN list => Updated(list[w], row.set) \in Profile
    BY <1>1, <1>a, <1>3, UpdateMakesProfile
  <2>3. new \in [DOMAIN list -> Profile]
    BY <1>1, <2>1, <2>2
  <2>4. ASSUME NEW u \in Uids
        PROVE  ListedOf(new, u) = RowMakes(ListedOf(list, u), u, row)
    <3>1. CASE u = w
      <4>1. CASE w \in DOMAIN list
        <5>1. ListedOf(list, u) = {list[w]} /\ ListedOf(new, u) = {Updated(list[w], row.set)}
          BY <2>1, <3>1, <4>1 DEF ListedOf
        <5> QED BY <1>3, <3>1, <5>1 DEF RowMakes
      <4>2. CASE w \notin DOMAIN list
        BY <1>3, <2>1, <3>1, <4>2 DEF ListedOf, RowMakes
      <4> QED BY <4>1, <4>2
    <3>2. CASE u # w
      BY <2>1, <3>2 DEF ListedOf, RowMakes
    <3> QED BY <3>1, <3>2
  <2> QED BY <1>1, <2>3, <2>4, DirectoryIs
<1>4. CASE row.action = "delete"
  <2>1. new = Without(list, w)
    BY <1>4 DEF Applied
  <2>2. new \in Directory(Uids, Profile)
    BY <2>1, WithoutIs
  <2>3. ASSUME NEW u \in Uids
        PROVE  ListedOf(new, u) = RowMakes(ListedOf(list, u), u, row)
    BY <1>4, <2>1 DEF ListedOf, RowMakes, Without
  <2> QED BY <2>2, <2>3
<1> QED BY <1>a, <1>2, <1>3, <1>4

\* A path that nothing changes stays where it starts.
LEMMA ConstantPath ==
  ASSUME NEW n \in Nat, NEW k \in Nat, NEW f, \A i \in (n + 1)..k : f[i] = f[i - 1]
  PROVE  \A i \in n..k : f[i] = f[n]
<1> DEFINE Stray == {i \in n..k : f[i] # f[n]}
<1>1. ASSUME Stray # {}
      PROVE  FALSE
  <2>1. Stray \subseteq Nat
    OBVIOUS
  <2>2. PICK i \in Stray : \A j \in Stray : <<j, i>> \notin OpToRel(<, Nat)
    BY <1>1, <2>1, NatLessThanWellFounded, WFMin
  <2>3. \A j \in Stray : ~(j < i)
    BY <2>1, <2>2 DEF OpToRel
  <2>a. i \in n..k /\ i # n
    BY <2>2
  <2>4. i \in (n + 1)..k /\ i - 1 \in n..k /\ i - 1 < i
    BY <2>a
  <2>5. i - 1 \notin Stray
    BY <2>3, <2>4
  <2> QED BY <2>2, <2>4, <2>5
<1> QED BY <1>1

\* Rows about others make nothing of u.
LEMMA HistoryStill ==
  ASSUME NEW f, NEW u, NEW log, Len(log) \in Nat, IsHistory(f, u, log), NEW n \in Nat, NEW m \in n..Len(log),
         \A i \in (n + 1)..m : log[i].uid # u
  PROVE  f[m] = f[n]
<1>1. ASSUME NEW i \in (n + 1)..m
      PROVE  f[i] = f[i - 1]
  <2>1. i \in 1..Len(log) /\ log[i].uid # u
    OBVIOUS
  <2> QED BY <2>1 DEF IsHistory, RowMakes
<1>2. m \in Nat /\ m \in n..m
  OBVIOUS
<1> QED BY <1>1, <1>2, ConstantPath

\* No row between two is about u.
Quiet(u, log, n, m) == \A i \in (n + 1)..(m - 1) : log[i].uid # u

\* The next row that is about u, if those between are not.
LEMMA HistoryNext ==
  ASSUME NEW f, NEW u, NEW log, Len(log) \in Nat, IsHistory(f, u, log),
         NEW n \in 0..Len(log), NEW m \in 1..Len(log), m > n, Quiet(u, log, n, m)
  PROVE  f[m] = RowMakes(f[n], u, log[m])
<1> PICK k : k = m - 1
  OBVIOUS
<1>1. k \in n..Len(log) /\ n \in Nat
  OBVIOUS
<1>2. f[k] = f[n]
  BY <1>1, HistoryStill DEF Quiet
<1> QED BY <1>2 DEF IsHistory

\* One more row, which no app has read.
LEMMA HistoryOneMore ==
  ASSUME NEW u, NEW log \in Seq(LogRows), NEW row \in LogRows, NEW more, more = log \o <<row>>,
         NEW apps, NEW new, NEW t, OneHistory(u, log, apps, t), RowMakes(t, u, row) \subseteq Profile,
         \A a \in Apps : /\ apps[a].version \in 0..Len(log)
                         /\ new[a].version = apps[a].version /\ new[a].list = apps[a].list
  PROVE  OneHistory(u, more, new, RowMakes(t, u, row))
<1> PICK k : k = Len(log)
  OBVIOUS
<1> PICK last : last = RowMakes(t, u, row)
  OBVIOUS
<1>1. /\ k \in Nat /\ Len(more) = k + 1 /\ more[k + 1] = row
      /\ \A i \in 1..k : more[i] = log[i]
  BY ConcatProperties
<1>2. PICK f \in [0..k -> SUBSET Profile] :
         /\ f[0] = {} /\ f[k] = t
         /\ \A i \in 1..k : f[i] = RowMakes(f[i - 1], u, log[i])
         /\ \A a \in Apps : ListedOf(apps[a].list, u) = f[apps[a].version]
  BY DEF OneHistory, IsHistory
<1> DEFINE h == [i \in 0..(k + 1) |-> IF i <= k THEN f[i] ELSE last]
<1>3. h \in [0..(k + 1) -> SUBSET Profile] /\ h[0] = {} /\ h[k + 1] = last
  BY <1>1, <1>2
<1>4. ASSUME NEW i \in 1..(k + 1)
      PROVE  h[i] = RowMakes(h[i - 1], u, more[i])
  <2>1. CASE i <= k
    <3>1. h[i] = f[i] /\ h[i - 1] = f[i - 1] /\ more[i] = log[i] /\ i \in 1..k
      BY <1>1, <2>1
    <3> QED BY <1>2, <3>1
  <2>2. CASE i = k + 1
    <3>1. h[i] = last /\ h[i - 1] = f[k] /\ more[i] = row
      BY <1>1, <2>2
    <3> QED BY <1>2, <3>1
  <2> QED BY <1>1, <2>1, <2>2
<1>5. \A v \in 0..k : h[v] = f[v]
  BY <1>1
<1> HIDE DEF h
<1>6. ASSUME NEW a \in Apps
      PROVE  ListedOf(new[a].list, u) = h[new[a].version]
  BY <1>2, <1>5
<1>7. IsHistory(h, u, more)
  BY <1>1, <1>3, <1>4, Zenon DEF IsHistory
<1>8. h \in [0..Len(more) -> SUBSET Profile] /\ h[Len(more)] = last
  BY <1>1, <1>3, Zenon
<1>9. OneHistory(u, more, new, last)
  BY <1>6, <1>7, <1>8, Zenon DEF OneHistory
<1> QED BY <1>9

\* Whoever comes to listen, where they are in the history does not change.
LEMMA SameHistory ==
  ASSUME NEW u, NEW log, NEW apps, NEW new, NEW t, OneHistory(u, log, apps, t),
         \A a \in Apps : new[a].version = apps[a].version /\ new[a].list = apps[a].list
  PROVE  OneHistory(u, log, new, t)
  BY Zenon DEF OneHistory

----------------------------------------------------------------------------
\* Steps.

\* The parts of the type invariant.
AppRecord == [on : BOOLEAN, version : 0..Len(userLog), inbox : Seq(1..Len(userLog)), list : Directory(Uids, Profile)]

\* What is shown of a user is a profile.
LEMMA ShownIs ==
  ASSUME NEW keys, NEW dir \in Directory(keys, User), NEW u
  PROVE  ShownOf(dir, u) \subseteq Profile
<1>1. dir \in [DOMAIN dir -> User]
  BY DirectoryIs
<1> QED BY <1>1 DEF ShownOf, User

\* Of two that agree, the same is shown.
LEMMA SameShown ==
  ASSUME NEW dir, NEW other, NEW u, SameUser(dir, other, u)
  PROVE  ShownOf(dir, u) = ShownOf(other, u) /\ SameUser(other, dir, u)
  BY DEF SameUser, ShownOf

\* Agreement carries over.
LEMMA SameTwice ==
  ASSUME NEW dir, NEW other, NEW third, NEW u, SameUser(dir, other, u), SameUser(other, third, u)
  PROVE  SameUser(dir, third, u)
  BY DEF SameUser

\* The bounds that a step spends.
LEMMA SpentTypes ==
  ASSUME NEW n \in [requests : Nat, troubles : Nat]
  PROVE  /\ [n EXCEPT !.requests = @ + 1] \in [requests : Nat, troubles : Nat]
         /\ [n EXCEPT !.troubles = @ + 1] \in [requests : Nat, troubles : Nat]
         /\ [n EXCEPT !.requests = @ + 1, !.troubles = @ + 1] \in [requests : Nat, troubles : Nat]
<1>1. n.requests + 1 \in Nat /\ n.troubles + 1 \in Nat
  OBVIOUS
<1>2. ASSUME NEW k \in Nat, NEW l \in Nat
      PROVE  /\ [n EXCEPT !.requests = k] \in [requests : Nat, troubles : Nat]
             /\ [n EXCEPT !.troubles = l] \in [requests : Nat, troubles : Nat]
             /\ [n EXCEPT !.requests = k, !.troubles = l] \in [requests : Nat, troubles : Nat]
  OBVIOUS
<1> QED BY <1>1, <1>2, Zenon

\* A longer log asks no more of an app's version and inbox.
LEMMA AppGrows ==
  ASSUME NEW n \in Nat, NEW k \in Nat, n <= k,
         NEW x \in [on : BOOLEAN, version : 0..n, inbox : Seq(1..n), list : Directory(Uids, Profile)]
  PROVE  x \in [on : BOOLEAN, version : 0..k, inbox : Seq(1..k), list : Directory(Uids, Profile)]
<1>1. x.inbox \in Seq(1..k)
  BY SeqDef
<1> QED BY <1>1

\* A handler that changes u as its row says keeps the invariant, whether it
\* reaches its end or is dropped at the commit.
LEMMA CommitKeeps ==
  ASSUME UsersInv, NEW u \in Uids, NEW nt, NEW nc, NEW rows, Commit(u, nt, nc, rows),
         lastUid' \in 0..MaxUsers, lastUid <= lastUid',
         nt \in Directory(1..lastUid', User), nc \in Directory(1..lastUid', User),
         rows = <<>> \/ \E row \in LogRows : row.uid = u /\ rows = <<row>>,
         \A v \in Uids \ {u} : SameUser(nt, userTable, v) /\ SameUser(nc, userCache, v),
         u \notin blurred =>
             /\ SameUser(nt, nc, u)
             /\ rows = <<>> => ShownOf(nc, u) = ShownOf(userCache, u)
             /\ rows # <<>> => ShownOf(nc, u) = RowMakes(ShownOf(userCache, u), u, rows[1])
  PROVE  UsersInv'
<1> PICK n : n = Len(userLog)
  OBVIOUS
<1> PICK log : log = userLog
  OBVIOUS
<1> PICK more : more = userLog'
  OBVIOUS
<1>1. /\ lastUid \in 0..MaxUsers /\ log \in Seq(LogRows) /\ n \in Nat /\ blurred \subseteq Uids
      /\ userTable \in Directory(1..lastUid, User) /\ userCache \in Directory(1..lastUid, User)
      /\ app \in [Apps -> AppRecord] /\ userUsed \in [requests : Nat, troubles : Nat]
  BY DEF UsersInv, UsersTypeOK, AppRecord
<1>2. \/ /\ userCache' = nc /\ blurred' = blurred
         /\ IF rows = <<>> THEN app' = app ELSE Tell(n + 1)
      \/ /\ userCache' = userCache /\ blurred' = blurred \cup {u} /\ app' = app
  BY DEF Commit
<1>3. userTable' = nt /\ more = log \o rows
  BY DEF Commit
<1>4. /\ more \in Seq(LogRows) /\ n <= Len(more) /\ Len(more) \in Nat
      /\ \A i \in 1..n : more[i] = log[i]
      /\ rows = <<>> => more = log
      /\ rows # <<>> => Len(more) = n + 1 /\ more[n + 1].uid = u
  <2>1. CASE rows = <<>>
    BY <1>1, <1>3, <2>1, ConcatProperties
  <2>2. CASE rows # <<>>
    <3>1. PICK row \in LogRows : row.uid = u /\ rows = <<row>>
      BY <2>2
    <3> QED BY <1>1, <1>3, <2>2, <3>1, ConcatProperties
  <2> QED BY <2>1, <2>2
<1>5. userUsed' \in [requests : Nat, troubles : Nat]
  <2>1. \/ userUsed' = [userUsed EXCEPT !.requests = @ + 1]
        \/ userUsed' = [userUsed EXCEPT !.requests = @ + 1, !.troubles = @ + 1]
    BY DEF Commit
  <2> QED BY <1>1, <2>1, SpentTypes
<1>6. userCache' \in Directory(1..lastUid', User)
  <2>1. userCache \in Directory(1..lastUid', User)
    <3>1. 1..lastUid \subseteq 1..lastUid'
      BY <1>1
    <3>2. DOMAIN userCache \subseteq 1..lastUid' /\ userCache \in [DOMAIN userCache -> User]
      BY <1>1, <3>1, DirectoryIs
    <3> QED BY <3>2, DirectoryIs
  <2> QED BY <1>2, <2>1
\* What the apps are after the step.
<1>7. ASSUME NEW a \in Apps
      PROVE  /\ app'[a].on = app[a].on /\ app'[a].version = app[a].version /\ app'[a].list = app[a].list
             /\ app'[a] \in [on : BOOLEAN, version : 0..Len(more), inbox : Seq(1..Len(more)),
                             list : Directory(Uids, Profile)]
             /\ \/ app'[a].inbox = app[a].inbox /\ (app[a].on /\ rows # <<>> => u \in blurred')
                \/ app[a].on /\ rows # <<>> /\ app'[a].inbox = Append(app[a].inbox, n + 1)
  <2> DEFINE R(k) == [on : BOOLEAN, version : 0..k, inbox : Seq(1..k), list : Directory(Uids, Profile)]
  <2>1. app[a] \in R(n)
    BY <1>1 DEF AppRecord
  <2>2. app[a] \in R(Len(more))
    BY <1>1, <1>4, <2>1, AppGrows
  <2>3. CASE app' = app /\ (rows # <<>> => u \in blurred')
    BY <2>2, <2>3
  <2>4. CASE rows # <<>> /\ Tell(n + 1)
    <3>1. app'[a] = IF app[a].on THEN [app[a] EXCEPT !.inbox = Append(app[a].inbox, n + 1)] ELSE app[a]
      BY <2>4 DEF Tell
    <3>2. n + 1 \in 1..Len(more)
      BY <1>1, <1>4, <2>4
    <3>3. Append(app[a].inbox, n + 1) \in Seq(1..Len(more))
      BY <2>2, <3>2, AppendProperties
    <3> QED BY <2>2, <2>4, <3>1, <3>3
  <2> QED BY <1>2, <2>3, <2>4
<1>8. UsersTypeOK'
  <2>1. app' \in [Apps -> AppRecord']
    <3>1. DOMAIN app' = Apps /\ app' = [a \in Apps |-> app'[a]]
      BY <1>1, <1>2 DEF Tell
    <3> QED BY <1>7, <3>1 DEF AppRecord
  <2>2. blurred' \subseteq Uids
    BY <1>1, <1>2
  <2> QED BY <1>3, <1>4, <1>5, <1>6, <2>1, <2>2 DEF UsersTypeOK, AppRecord
<1>9. ASSUME NEW v \in Uids, v \notin blurred'
      PROVE  /\ v \notin blurred /\ SameUser(userTable', userCache', v)
             /\ rows = <<>> => ShownOf(userCache', v) = ShownOf(userCache, v)
             /\ rows # <<>> => ShownOf(userCache', v) = RowMakes(ShownOf(userCache, v), v, rows[1])
  <2>1. v \notin blurred
    BY <1>2, <1>9
  <2>2. SameUser(userTable, userCache, v)
    BY <2>1 DEF UsersInv, Unblurred
  <2>3. CASE v = u
    <3>1. userCache' = nc
      BY <1>2, <1>9, <2>3
    <3> QED BY <1>3, <2>1, <2>3, <3>1
  <2>4. CASE v # u
    <3>1. SameUser(nt, userTable, v) /\ SameUser(nc, userCache, v)
      BY <2>4
    <3>2. SameUser(nt, userCache, v) /\ SameUser(userCache, nc, v) /\ SameUser(nt, nc, v)
      BY <2>2, <3>1, SameShown, SameTwice
    <3>3. SameUser(nt, userCache', v) /\ ShownOf(userCache', v) = ShownOf(userCache, v)
      BY <1>2, <3>1, <3>2, SameShown
    <3>4. rows # <<>> => RowMakes(ShownOf(userCache, v), v, rows[1]) = ShownOf(userCache, v)
      BY <2>4 DEF RowMakes
    <3> QED BY <1>3, <2>1, <3>3, <3>4
  <2> QED BY <2>3, <2>4
<1>10. ASSUME NEW a \in Apps
       PROVE  InboxOf(app[a])'
  <2> PICK box : box = app[a].inbox
    OBVIOUS
  <2> PICK new : new = app'[a].inbox
    OBVIOUS
  <2> PICK version : version = app[a].version
    OBVIOUS
  <2>1. /\ box \in Seq(1..n) /\ version \in 0..n
        /\ ~app[a].on => box = <<>>
        /\ \A i \in DOMAIN box : box[i] > version
        /\ \A i, j \in DOMAIN box : i < j => box[i] < box[j]
        /\ app[a].on => \A m \in (version + 1)..n : (\E i \in DOMAIN box : box[i] = m) \/ log[m].uid \in blurred
    BY <1>1 DEF UsersInv, InboxOf, AppRecord
  <2>2. blurred \subseteq blurred'
    BY <1>2
  <2>3. CASE new = box /\ (app[a].on /\ rows # <<>> => u \in blurred')
    <3>1. ASSUME app[a].on, NEW m \in (version + 1)..Len(more)
          PROVE  (\E i \in DOMAIN new : new[i] = m) \/ more[m].uid \in blurred'
      <4>1. CASE m <= n
        <5>1. m \in (version + 1)..n /\ m \in 1..n
          BY <1>1, <2>1, <4>1
        <5> QED BY <1>4, <2>1, <2>2, <2>3, <3>1, <5>1
      <4>2. CASE m > n
        BY <1>1, <1>4, <2>1, <2>3, <3>1, <4>2
      <4> QED BY <1>1, <2>1, <4>1, <4>2
    <3> QED BY SMTT(30), <1>7, <2>1, <2>3, <3>1 DEF InboxOf
  <2>4. CASE app[a].on /\ rows # <<>> /\ new = Append(box, n + 1)
    <3> PICK k : k = Len(box)
      OBVIOUS
    <3>1. k \in Nat /\ DOMAIN new = 1..(k + 1) /\ DOMAIN box = 1..k /\ new[k + 1] = n + 1
      BY <1>1, <2>1, <2>4, AppendProperties
    <3>a. \A i \in 1..k : new[i] = box[i] /\ box[i] \in 1..n
      <4>1. \A i \in 1..k : box[i] \in 1..n
        BY SMTT(30), <2>1
      <4>2. n + 1 \in Nat /\ box \in Seq(Nat)
        BY <1>1, <2>1, SeqDef
      <4>3. \A i \in 1..k : new[i] = box[i]
        BY <2>4, <4>2, AppendProperties
      <4> QED BY <4>1, <4>3
    <3>2. ASSUME NEW i \in DOMAIN new
          PROVE  new[i] > version
      <4>1. CASE i = k + 1
        BY <1>1, <2>1, <3>1, <4>1
      <4>2. CASE i # k + 1
        <5>1. i \in 1..k
          BY <3>1, <4>2
        <5> QED BY <2>1, <3>1, <3>a, <5>1
      <4> QED BY <4>1, <4>2
    <3>3. ASSUME NEW i \in DOMAIN new, NEW j \in DOMAIN new, i < j
          PROVE  new[i] < new[j]
      <4>1. i \in 1..k
        BY <3>1, <3>3
      <4>2. CASE j = k + 1
        <5>1. box[i] \in 1..n /\ new[i] = box[i] /\ new[j] = n + 1
          BY <3>1, <3>a, <4>1, <4>2
        <5> QED BY <1>1, <5>1
      <4>3. CASE j # k + 1
        <5>1. j \in 1..k
          BY <3>1, <4>3
        <5> QED BY <2>1, <3>1, <3>3, <3>a, <4>1, <5>1
      <4> QED BY <4>2, <4>3
    <3>4. ASSUME NEW m \in (version + 1)..Len(more)
          PROVE  (\E i \in DOMAIN new : new[i] = m) \/ more[m].uid \in blurred'
      <4>1. CASE m <= n
        <5>1. m \in (version + 1)..n /\ m \in 1..n
          BY <1>1, <2>1, <4>1
        <5>2. CASE \E i \in DOMAIN box : box[i] = m
          <6>1. PICK i \in 1..k : box[i] = m
            BY <3>1, <5>2
          <6>2. new[i] = m /\ i \in DOMAIN new
            BY SMTT(30), <3>1, <3>a, <6>1
          <6> QED BY <6>2
        <5>3. CASE log[m].uid \in blurred
          BY <1>4, <2>2, <5>1, <5>3
        <5> QED BY <2>1, <2>4, <5>1, <5>2, <5>3
      <4>2. CASE m > n
        <5>1. m = n + 1
          BY <1>1, <1>4, <2>1, <2>4, <4>2
        <5>2. k + 1 \in DOMAIN new
          BY <3>1
        <5> QED BY <3>1, <5>1, <5>2
      <4> QED BY <1>1, <2>1, <4>1, <4>2
    <3>5. app'[a].on /\ app'[a].version = version
      BY <1>7, <2>4
    <3> QED BY <3>2, <3>3, <3>4, <3>5 DEF InboxOf
  <2> QED BY <1>7, <2>3, <2>4
<1>11. ASSUME NEW v \in Uids, v \notin blurred'
       PROVE  OneHistory(v, more, app', ShownOf(userCache', v))
  <2> PICK t : t = ShownOf(userCache, v)
    OBVIOUS
  <2> PICK apps : apps = app
    OBVIOUS
  <2> PICK new : new = app'
    OBVIOUS
  <2>1. OneHistory(v, log, apps, t)
    BY <1>9, <1>11 DEF UsersInv, Unblurred
  <2>2. \A a \in Apps : /\ apps[a].version \in 0..n
                        /\ new[a].version = apps[a].version /\ new[a].list = apps[a].list
    BY <1>1, <1>7 DEF AppRecord
  <2>3. CASE rows = <<>>
    <3>1. OneHistory(v, log, new, t)
      BY <2>1, <2>2, SameHistory
    <3> QED BY <1>4, <1>9, <1>11, <2>3, <3>1
  <2>4. CASE rows # <<>>
    <3>1. PICK row \in LogRows : row.uid = u /\ rows = <<row>>
      BY <2>4
    <3>2. ShownOf(userCache', v) = RowMakes(t, v, row)
      BY <1>9, <1>11, <2>4, <3>1
    <3>3. RowMakes(t, v, row) \subseteq Profile
      BY <1>6, <3>2, ShownIs
    <3>4. OneHistory(v, more, new, RowMakes(t, v, row))
      BY ZenonT(30), <1>1, <1>3, <2>1, <2>2, <3>1, <3>3, HistoryOneMore
    <3> QED BY <3>2, <3>4
  <2> QED BY <2>3, <2>4
<1> QED BY <1>8, <1>9, <1>10, <1>11 DEF UsersInv, Unblurred

\* What the other users of a directory that changed in u are.
LEMMA OthersSame ==
  ASSUME NEW dir, NEW u, NEW v, v # u, NEW x, NEW set
  PROVE  /\ SameUser(With(dir, u, x), dir, v)
         /\ SameUser(Without(dir, u), dir, v)
         /\ SameUser(Changed(dir, u, set), dir, v)
  BY DEF SameUser, With, Without, Changed

\* The rows that are logged are rows of the log.
LEMMA LogRowIs ==
  ASSUME NEW u \in Uids
  PROVE  /\ \A p \in Profile : LogRow(u, "create", p) \in LogRows
         /\ \A set \in Updates : LogRow(u, "update", set) \in LogRows
         /\ LogRow(u, "delete", <<>>) \in LogRows
         /\ \A action, set : LogRow(u, action, set).uid = u
  BY DEF LogRow, LogRows

\* The creation of a user keeps the invariant.
LEMMA CreateUserKeeps ==
  ASSUME UsersInv, NEW n \in UserNames, NEW guest \in BOOLEAN, CreateUser(guest, n)
  PROVE  UsersInv'
<1> PICK u : u = lastUid + 1
  OBVIOUS
<1> PICK user : user = [guest |-> guest, profile |-> [name |-> n, looks |-> 0]]
  OBVIOUS
<1> DEFINE nt == With(userTable, u, user)
           nc == With(userCache, u, user)
           rows == IF guest THEN <<>> ELSE <<LogRow(u, "create", user.profile)>>
<1>1. u \in Uids /\ lastUid' = u /\ Commit(u, nt, nc, rows)
  BY DEF CreateUser
<1>2. user \in User /\ user.profile \in Profile /\ user.guest = guest
  BY DEF User, Profile
<1>3. /\ lastUid \in Nat /\ lastUid' \in 0..MaxUsers /\ lastUid <= lastUid' /\ 1..lastUid \subseteq 1..lastUid'
      /\ u \in 1..lastUid' /\ u \notin 1..lastUid
      /\ userTable \in Directory(1..lastUid, User) /\ userCache \in Directory(1..lastUid, User)
  <2>1. lastUid \in 0..MaxUsers /\ u \in 1..MaxUsers /\ MaxUsers \in Nat
    BY <1>1, UsersAssumption DEF UsersInv, UsersTypeOK, Uids
  <2> QED BY <1>1, <2>1 DEF UsersInv, UsersTypeOK
<1>4. nt \in Directory(1..lastUid', User) /\ nc \in Directory(1..lastUid', User)
  BY <1>2, <1>3, WithIs
<1>5. \A v \in Uids \ {u} : SameUser(nt, userTable, v) /\ SameUser(nc, userCache, v)
  BY OthersSame
<1>6. SameUser(nt, nc, u) /\ ShownOf(nc, u) = IF guest THEN {} ELSE {user.profile}
  BY <1>2 DEF SameUser, ShownOf, With
<1>7. ShownOf(userCache, u) = {}
  <2>1. u \notin DOMAIN userCache
    BY <1>3, DirectoryIs
  <2> QED BY <2>1 DEF ShownOf
<1>8. /\ rows = <<>> \/ \E row \in LogRows : row.uid = u /\ rows = <<row>>
      /\ rows = <<>> => ShownOf(nc, u) = ShownOf(userCache, u)
      /\ rows # <<>> => ShownOf(nc, u) = RowMakes(ShownOf(userCache, u), u, rows[1])
  <2>1. CASE guest
    BY <1>6, <1>7, <2>1
  <2>2. CASE ~guest
    <3> PICK row : row = LogRow(u, "create", user.profile)
      OBVIOUS
    <3>1. row \in LogRows /\ row.uid = u
      BY <1>1, <1>2, LogRowIs
    <3>2. row.action = "create" /\ row.set = user.profile
      BY DEF LogRow
    <3>3. rows = <<row>>
      BY <2>2
    <3>4. RowMakes(ShownOf(userCache, u), u, row) = {user.profile}
      BY <3>1, <3>2 DEF RowMakes
    <3> HIDE DEF nt, nc, rows
    <3> QED BY <1>6, <2>2, <3>1, <3>3, <3>4
  <2> QED BY <2>1, <2>2
<1> HIDE DEF nt, nc, rows
<1> QED BY <1>1, <1>3, <1>4, <1>5, <1>6, <1>8, CommitKeeps

\* An update that is logged keeps the invariant, whoever makes it.
LEMMA ChangeKeeps ==
  ASSUME UsersInv, NEW u \in DOMAIN userCache, NEW set \in Updates, lastUid' = lastUid,
         Commit(u, Changed(userTable, u, set), Changed(userCache, u, set), <<LogRow(u, "update", set)>>)
  PROVE  UsersInv'
<1> PICK nt : nt = Changed(userTable, u, set)
  OBVIOUS
<1> PICK nc : nc = Changed(userCache, u, set)
  OBVIOUS
<1> PICK row : row = LogRow(u, "update", set)
  OBVIOUS
<1>1. /\ userTable \in Directory(1..lastUid, User) /\ userCache \in Directory(1..lastUid, User)
      /\ lastUid \in 0..MaxUsers /\ MaxUsers \in Nat
  BY UsersAssumption DEF UsersInv, UsersTypeOK
<1>2. u \in Uids
  <2>1. u \in 1..lastUid
    BY <1>1, DirectoryIs
  <2> QED BY <1>1, <2>1 DEF Uids
<1>3. nt \in Directory(1..lastUid', User) /\ nc \in Directory(1..lastUid', User)
  BY <1>1, ChangedIs
<1>4. \A v \in Uids \ {u} : SameUser(nt, userTable, v) /\ SameUser(nc, userCache, v)
  BY OthersSame
<1>5. row \in LogRows /\ row.uid = u /\ row.action = "update" /\ row.set = set
  BY <1>2, LogRowIs DEF LogRow
<1>6. ASSUME u \notin blurred
      PROVE  SameUser(nt, nc, u)
  <2>1. SameUser(userTable, userCache, u)
    BY <1>2, <1>6 DEF UsersInv, Unblurred
  <2> QED BY <2>1 DEF SameUser, Changed
<1>7. ShownOf(nc, u) = RowMakes(ShownOf(userCache, u), u, row)
  <2>1. /\ DOMAIN nc = DOMAIN userCache
        /\ nc[u] = [guest |-> userCache[u].guest, profile |-> Updated(userCache[u].profile, set)]
    BY <1>1, ChangedIs
  <2>2. nc[u].guest = userCache[u].guest /\ nc[u].profile = Updated(userCache[u].profile, set)
    BY <2>1
  <2>3. CASE userCache[u].guest
    BY <1>5, <2>1, <2>2, <2>3 DEF ShownOf, RowMakes
  <2>4. CASE ~userCache[u].guest
    <3>1. ShownOf(userCache, u) = {userCache[u].profile} /\ ShownOf(nc, u) = {Updated(userCache[u].profile, set)}
      BY <2>1, <2>2, <2>4 DEF ShownOf
    <3> QED BY <1>5, <3>1 DEF RowMakes
  <2> QED BY <2>3, <2>4
<1> PICK rows : rows = <<row>>
  OBVIOUS
<1>8. /\ Commit(u, nt, nc, rows) /\ rows # <<>> /\ rows[1] = row
      /\ \E r \in LogRows : r.uid = u /\ rows = <<r>>
      /\ lastUid' \in 0..MaxUsers /\ lastUid <= lastUid'
  BY <1>1, <1>5
<1> QED BY <1>2, <1>3, <1>4, <1>6, <1>7, <1>8, CommitKeeps

\* So does a deletion: the row of a guest is not logged.
LEMMA RemoveUserKeeps ==
  ASSUME UsersInv, NEW u \in Uids, RemoveUser(u)
  PROVE  UsersInv'
<1> PICK nt : nt = Without(userTable, u)
  OBVIOUS
<1> PICK nc : nc = Without(userCache, u)
  OBVIOUS
<1> PICK row : row = LogRow(u, "delete", <<>>)
  OBVIOUS
<1> PICK rows : rows = IF userCache[u].guest THEN <<>> ELSE <<row>>
  OBVIOUS
<1>1. /\ userTable \in Directory(1..lastUid, User) /\ userCache \in Directory(1..lastUid, User)
      /\ lastUid \in 0..MaxUsers /\ MaxUsers \in Nat
      /\ u \in DOMAIN userCache /\ lastUid' = lastUid /\ Commit(u, nt, nc, rows)
  BY UsersAssumption DEF UsersInv, UsersTypeOK, RemoveUser
<1>2. nt \in Directory(1..lastUid', User) /\ nc \in Directory(1..lastUid', User)
  BY <1>1, WithoutIs
<1>3. \A v \in Uids \ {u} : SameUser(nt, userTable, v) /\ SameUser(nc, userCache, v)
  BY OthersSame
<1>4. row \in LogRows /\ row.uid = u /\ row.action = "delete"
  BY LogRowIs DEF LogRow
<1>5. SameUser(nt, nc, u) /\ ShownOf(nc, u) = {}
  BY DEF SameUser, ShownOf, Without
<1>6. /\ rows = <<>> \/ \E r \in LogRows : r.uid = u /\ rows = <<r>>
      /\ rows = <<>> => ShownOf(nc, u) = ShownOf(userCache, u)
      /\ rows # <<>> => ShownOf(nc, u) = RowMakes(ShownOf(userCache, u), u, rows[1])
  <2>1. CASE userCache[u].guest
    <3>1. rows = <<>> /\ ShownOf(userCache, u) = {}
      BY <2>1 DEF ShownOf
    <3> QED BY <1>5, <3>1
  <2>2. CASE ~userCache[u].guest
    <3>1. rows = <<row>>
      BY <2>2
    <3>2. RowMakes(ShownOf(userCache, u), u, row) = {}
      BY <1>4 DEF RowMakes
    <3> QED BY <1>4, <1>5, <3>1, <3>2
  <2> QED BY <2>1, <2>2
<1>7. lastUid' \in 0..MaxUsers /\ lastUid <= lastUid'
  BY <1>1
<1> QED BY <1>1, <1>2, <1>3, <1>5, <1>6, <1>7, CommitKeeps

\* An update that is not logged blurs the user.
LEMMA UnloggedKeeps ==
  ASSUME UsersInv, NEW u \in Uids, NEW looks \in 0..1, UpdateUnlogged(u, looks)
  PROVE  UsersInv'
<1> PICK set : set = [looks |-> looks]
  OBVIOUS
<1>1. /\ userTable \in Directory(1..lastUid, User) /\ userCache \in Directory(1..lastUid, User)
      /\ userUsed \in [requests : Nat, troubles : Nat] /\ blurred \subseteq Uids
  BY DEF UsersInv, UsersTypeOK
<1>2. /\ userTable' = Changed(userTable, u, set) /\ userCache' = Changed(userCache, u, set)
      /\ userUsed' = [userUsed EXCEPT !.requests = @ + 1] /\ blurred' = blurred \cup {u}
      /\ userLog' = userLog /\ lastUid' = lastUid /\ app' = app
  BY DEF UpdateUnlogged
<1>3. set \in Updates
  BY DEF Updates
<1>4. UsersTypeOK'
  <2>1. userTable' \in Directory(1..lastUid', User) /\ userCache' \in Directory(1..lastUid', User)
    BY <1>1, <1>2, <1>3, ChangedIs
  <2>2. userUsed' \in [requests : Nat, troubles : Nat]
    BY <1>1, <1>2, SpentTypes
  <2>3. blurred' \subseteq Uids
    BY <1>1, <1>2
  <2> QED BY <1>2, <2>1, <2>2, <2>3 DEF UsersInv, UsersTypeOK
<1>5. ASSUME NEW v \in Uids, v \notin blurred'
      PROVE  /\ v \in Unblurred /\ SameUser(userTable', userCache', v)
             /\ ShownOf(userCache', v) = ShownOf(userCache, v)
  <2>1. v \in Unblurred /\ v # u
    BY <1>2, <1>5 DEF Unblurred
  <2>2. SameUser(userTable, userCache, v)
    BY <2>1 DEF UsersInv
  <2>3. SameUser(userTable', userTable, v) /\ SameUser(userCache', userCache, v)
    BY <1>2, <2>1, OthersSame
  <2> QED BY <2>1, <2>2, <2>3, SameShown, SameTwice
<1>6. \A a \in Apps : InboxOf(app[a])'
  BY <1>2 DEF UsersInv, InboxOf
<1>7. ASSUME NEW v \in Uids, v \notin blurred'
      PROVE  OneHistory(v, userLog', app', ShownOf(userCache', v))
  BY <1>2, <1>5, <1>7 DEF UsersInv
<1> QED BY <1>4, <1>5, <1>6, <1>7 DEF UsersInv, Unblurred

\* An app that was in the history at its version, and became x, still is.
GoesOn(u, log, shown, was, x) ==
    \A f : IsHistory(f, u, log) /\ f[Len(log)] = shown /\ ListedOf(was.list, u) = f[was.version] =>
        ListedOf(x.list, u) = f[x.version]

\* The other apps are as they were.
OthersStay(apps, new, a) == \A b \in Apps : b # a => new[b] = apps[b]

\* If it does, all apps are in one history.
LEMMA HistoryGoesOn ==
  ASSUME NEW u, NEW log, NEW apps, NEW new, NEW t, OneHistory(u, log, apps, t), NEW a \in Apps,
         OthersStay(apps, new, a), GoesOn(u, log, t, apps[a], new[a])
  PROVE  OneHistory(u, log, new, t)
<1>1. PICK f \in [0..Len(log) -> SUBSET Profile] :
         /\ IsHistory(f, u, log) /\ f[Len(log)] = t
         /\ \A b \in Apps : ListedOf(apps[b].list, u) = f[apps[b].version]
  BY Zenon DEF OneHistory
<1>2. ListedOf(new[a].list, u) = f[new[a].version]
  BY <1>1, Zenon DEF GoesOn
<1>3. \A b \in Apps : ListedOf(new[b].list, u) = f[new[b].version]
  BY <1>1, <1>2, Zenon DEF OthersStay
<1> QED BY <1>1, <1>3, Zenon DEF OneHistory

\* A step of one app keeps the invariant if the app then is as it says.
LEMMA AppStepKeeps ==
  ASSUME UsersInv, NEW a \in Apps, NEW x \in AppRecord, app' = [app EXCEPT ![a] = x],
         UNCHANGED <<userTable, userLog, userCache, lastUid, blurred, userUsed>>,
         InboxOf(x),
         \A u \in Unblurred : GoesOn(u, userLog, ShownOf(userCache, u), app[a], x)
  PROVE  UsersInv'
<1>1. app \in [Apps -> AppRecord]
  BY DEF UsersInv, UsersTypeOK, AppRecord
<1>2. app' \in [Apps -> AppRecord] /\ app'[a] = x /\ \A b \in Apps : b # a => app'[b] = app[b]
  BY <1>1
<1>3. UsersTypeOK'
  BY <1>2 DEF UsersInv, UsersTypeOK, AppRecord
<1>4. \A u \in Unblurred' : SameUser(userTable, userCache, u)'
  BY DEF UsersInv, Unblurred
<1>5. \A b \in Apps : InboxOf(app[b])'
  <2>1. ASSUME NEW b \in Apps PROVE InboxOf(app'[b])
    BY <1>2 DEF UsersInv
  <2> QED BY <2>1 DEF InboxOf
<1>6. ASSUME NEW u \in Unblurred'
      PROVE  OneHistory(u, userLog', app', ShownOf(userCache', u))
  <2> PICK apps : apps = app
    OBVIOUS
  <2> PICK new : new = app'
    OBVIOUS
  <2>1. u \in Unblurred
    BY <1>6 DEF Unblurred
  <2>2. OneHistory(u, userLog, apps, ShownOf(userCache, u))
    BY <2>1 DEF UsersInv
  <2>3. GoesOn(u, userLog, ShownOf(userCache, u), apps[a], new[a])
    BY <1>2, <2>1
  <2>4. OthersStay(apps, new, a)
    BY <1>2 DEF OthersStay
  <2>5. OneHistory(u, userLog, new, ShownOf(userCache, u))
    BY <2>2, <2>3, <2>4, HistoryGoesOn
  <2> QED BY <2>5
<1> QED BY <1>3, <1>4, <1>5, <1>6 DEF UsersInv

\* What an app that connects again is sent, the numbers after its version.
Missed(n, version) == [i \in 1..(n - version) |-> version + i]

\* All of them, in their order.
AllAfter(box, version, n) ==
    /\ \A i \in DOMAIN box : box[i] > version
    /\ \A i, j \in DOMAIN box : i < j => box[i] < box[j]
    /\ \A m \in (version + 1)..n : \E i \in DOMAIN box : box[i] = m

\* What is sent again is all that was missed.
LEMMA MissedIs ==
  ASSUME NEW n \in Nat, NEW version \in 0..n
  PROVE  Missed(n, version) \in Seq(1..n) /\ AllAfter(Missed(n, version), version, n)
<1> DEFINE missed == [i \in 1..(n - version) |-> version + i]
<1>1. n - version \in Nat
  OBVIOUS
<1>2. \A i \in 1..(n - version) : version + i \in 1..n
  OBVIOUS
<1>3. missed \in [1..(n - version) -> 1..n]
  BY <1>2
<1>4. missed \in Seq(1..n)
  BY <1>1, <1>3, SeqDef
<1>5. ASSUME NEW m \in (version + 1)..n
      PROVE  \E i \in DOMAIN missed : missed[i] = m
  <2>1. m - version \in 1..(n - version) /\ version + (m - version) = m
    OBVIOUS
  <2>2. missed[m - version] = m
    BY <2>1
  <2> QED BY <2>1, <2>2
<1>6. AllAfter(missed, version, n)
  BY <1>5 DEF AllAfter
<1> QED BY <1>4, <1>6 DEF Missed

\* An app that has been sent all rows after its version.
LEMMA SentAll ==
  ASSUME NEW x, x.on = TRUE, AllAfter(x.inbox, x.version, Len(userLog))
  PROVE  InboxOf(x)
  BY DEF InboxOf, AllAfter

\* A snapshot is what the cache has; the rows after the version lead there.
LEMMA ConnectKeeps ==
  ASSUME UsersInv, NEW a \in Apps, Connect(a)
  PROVE  UsersInv'
<1> PICK n : n = Len(userLog)
  OBVIOUS
<1> PICK version : version = app[a].version
  OBVIOUS
<1>1. /\ app[a] \in AppRecord /\ n \in Nat /\ version \in 0..n
      /\ userCache \in Directory(1..lastUid, User) /\ lastUid \in 0..MaxUsers /\ MaxUsers \in Nat
  BY UsersAssumption DEF UsersInv, UsersTypeOK, AppRecord
<1>2. UNCHANGED <<userTable, userLog, userCache, lastUid, blurred, userUsed>>
  BY DEF Connect
<1>3. CASE version = 0
  <2> PICK list : list = [u \in Listed |-> userCache[u].profile]
    OBVIOUS
  <2> PICK x : x = [on |-> TRUE, version |-> n, inbox |-> <<>>, list |-> list]
    OBVIOUS
  <2>1. app' = [app EXCEPT ![a] = x]
    BY <1>3 DEF Connect
  <2>2. list \in Directory(Uids, Profile)
    <3>1. DOMAIN userCache \subseteq 1..lastUid /\ userCache \in [DOMAIN userCache -> User]
      BY <1>1, DirectoryIs
    <3>2. Listed \subseteq Uids /\ Listed \subseteq DOMAIN userCache
      BY <1>1, <3>1 DEF Listed, Uids
    <3>3. list \in [Listed -> Profile]
      BY <3>1, <3>2 DEF User
    <3> QED BY <3>2, <3>3, DirectoryIs
  <2>3. <<>> \in Seq(1..n) /\ DOMAIN <<>> = {}
    OBVIOUS
  <2>4. /\ x \in AppRecord /\ x.on = TRUE /\ x.version = n /\ x.inbox = <<>> /\ x.list = list
    BY <1>1, <2>2, <2>3 DEF AppRecord
  <2>5. InboxOf(x)
    BY <1>1, <2>3, <2>4 DEF InboxOf
  <2>6. ASSUME NEW u \in Unblurred
        PROVE  GoesOn(u, userLog, ShownOf(userCache, u), app[a], x)
    <3>1. ListedOf(list, u) = ShownOf(userCache, u)
      BY DEF ListedOf, ShownOf, Listed
    <3> QED BY <2>4, <3>1 DEF GoesOn
  <2> QED BY <1>2, <2>1, <2>4, <2>5, <2>6, AppStepKeeps
<1>4. CASE version # 0
  <2> PICK missed : missed = Missed(n, version)
    OBVIOUS
  <2> PICK x : x = [on |-> TRUE, version |-> version, list |-> app[a].list, inbox |-> missed]
    OBVIOUS
  <2>1. app' = [app EXCEPT ![a] = x]
    BY <1>4 DEF Connect, Missed
  <2>2. missed \in Seq(1..n) /\ AllAfter(missed, version, n)
    BY <1>1, MissedIs
  <2>3. x \in AppRecord /\ x.on = TRUE /\ x.version = version /\ x.inbox = missed /\ x.list = app[a].list
    BY <1>1, <2>2 DEF AppRecord
  <2>4. InboxOf(x)
    BY <2>2, <2>3, SentAll
  <2>5. \A u \in Unblurred : GoesOn(u, userLog, ShownOf(userCache, u), app[a], x)
    BY <2>3 DEF GoesOn
  <2> QED BY <1>2, <2>1, <2>3, <2>4, <2>5, AppStepKeeps
<1> QED BY <1>3, <1>4

\* An app that has been sent all rows after its version but those of a dropped
\* request.
SentAfter(box, version) ==
    /\ \A i \in DOMAIN box : box[i] > version
    /\ \A i, j \in DOMAIN box : i < j => box[i] < box[j]
    /\ \A m \in (version + 1)..Len(userLog) :
          userLog[m].uid \notin blurred => \E i \in DOMAIN box : box[i] = m

\* Its inbox is as the invariant says.
LEMMA SentIs ==
  ASSUME NEW x, x.on = TRUE, SentAfter(x.inbox, x.version)
  PROVE  InboxOf(x)
  BY DEF InboxOf, SentAfter

\* What comes after the next row comes after the last.
LEMMA LaterStill ==
  ASSUME NEW n \in Nat, NEW version \in 0..n, NEW id \in 1..n, id > version, NEW m \in (id + 1)..n
  PROVE  m \in (version + 1)..n
  OBVIOUS

\* What an app shows after a row is where the rest of the rows start.
LEMMA ReadRowKeeps ==
  ASSUME UsersInv, NEW a \in Apps, ReadRow(a)
  PROVE  UsersInv'
<1> PICK n : n = Len(userLog)
  OBVIOUS
<1> PICK log : log = userLog
  OBVIOUS
<1> PICK version : version = app[a].version
  OBVIOUS
<1> PICK box : box = app[a].inbox
  OBVIOUS
<1> PICK list : list = app[a].list
  OBVIOUS
<1> PICK id : id = Head(box)
  OBVIOUS
<1> PICK rest : rest = Tail(box)
  OBVIOUS
<1> PICK row : row = log[id]
  OBVIOUS
<1> PICK new : new = Applied(list, row)
  OBVIOUS
<1> PICK x : x = [on |-> TRUE, version |-> id, inbox |-> rest, list |-> new]
  OBVIOUS
<1> PICK k : k = Len(box)
  OBVIOUS
<1>1. /\ app[a] \in AppRecord /\ n \in Nat /\ version \in 0..n /\ log \in Seq(LogRows)
      /\ box \in Seq(1..n) /\ list \in Directory(Uids, Profile)
  BY DEF UsersInv, UsersTypeOK, AppRecord
<1>2. /\ box # <<>> /\ app' = [app EXCEPT ![a] = x]
      /\ UNCHANGED <<userTable, userLog, userCache, lastUid, blurred, userUsed>>
  BY DEF ReadRow
<1>3. /\ app[a].on
      /\ \A i \in DOMAIN box : box[i] > version
      /\ \A i, j \in DOMAIN box : i < j => box[i] < box[j]
      /\ \A m \in (version + 1)..n : (\E i \in DOMAIN box : box[i] = m) \/ log[m].uid \in blurred
  BY <1>1, <1>2 DEF UsersInv, InboxOf, AppRecord
<1>4. /\ k \in Nat /\ k >= 1 /\ DOMAIN box = 1..k /\ id = box[1] /\ id \in 1..n
      /\ rest \in Seq(1..n) /\ DOMAIN rest = 1..(k - 1)
  <2>1. k \in Nat /\ k >= 1 /\ DOMAIN box = 1..k /\ id = box[1]
    BY <1>1, <1>2
  <2>2. id \in 1..n /\ rest \in Seq(1..n) /\ Len(rest) = k - 1
    BY <1>1, <1>2, HeadTailProperties
  <2> QED BY <2>1, <2>2
<1>a. \A i \in 1..k : box[i] \in 1..n
  <2>1. \A i \in 1..Len(box) : box[i] \in 1..n
    BY <1>1, ElementOfSeq
  <2> QED BY <2>1
<1>5. \A i \in 1..(k - 1) : rest[i] = box[i + 1]
  BY <1>1, <1>2, HeadTailProperties
<1>6. id > version /\ id \in (version + 1)..n
  <2>1. 1 \in DOMAIN box
    BY <1>4
  <2>2. id > version
    BY <1>3, <1>4, <2>1
  <2> QED BY SMTT(30), <1>1, <1>4, <2>2
<1>7. row \in LogRows /\ new \in Directory(Uids, Profile)
  BY <1>1, <1>4, AppliedIs
<1>8. x \in AppRecord /\ x.on = TRUE /\ x.version = id /\ x.inbox = rest /\ x.list = new
  BY <1>4, <1>7 DEF AppRecord
<1>9. InboxOf(x)
  <2>1. ASSUME NEW i \in DOMAIN rest
        PROVE  rest[i] > id
    <3>1. i \in 1..(k - 1) /\ 1 \in DOMAIN box /\ i + 1 \in DOMAIN box /\ 1 < i + 1
      BY <1>4
    <3>2. box[1] < box[i + 1] /\ rest[i] = box[i + 1] /\ box[i + 1] \in 1..n
      BY <1>3, <1>4, <1>5, <1>a, <3>1
    <3> QED BY <1>4, <3>2
  <2>2. ASSUME NEW i \in DOMAIN rest, NEW j \in DOMAIN rest, i < j
        PROVE  rest[i] < rest[j]
    <3>1. i \in 1..(k - 1) /\ j \in 1..(k - 1) /\ i + 1 \in DOMAIN box /\ j + 1 \in DOMAIN box /\ i + 1 < j + 1
      BY SMTT(30), <1>4, <2>2
    <3> QED BY <1>3, <1>5, <3>1
  <2>3. ASSUME NEW m \in (id + 1)..n, log[m].uid \notin blurred
        PROVE  \E i \in DOMAIN rest : rest[i] = m
    <3>a. m \in (version + 1)..n
      BY <1>1, <1>4, <1>6, LaterStill
    <3>1. PICK i \in DOMAIN box : box[i] = m
      BY <1>3, <2>3, <3>a
    <3>2. i # 1
      BY <1>4, <3>1
    <3>3. i - 1 \in 1..(k - 1) /\ (i - 1) + 1 = i
      BY SMTT(30), <1>4, <3>1, <3>2
    <3> QED BY <1>4, <1>5, <3>1, <3>3
  <2>4. SentAfter(rest, id)
    BY <2>1, <2>2, <2>3 DEF SentAfter
  <2> QED BY <1>8, <2>4, SentIs
<1>10. ASSUME NEW u \in Unblurred
       PROVE  GoesOn(u, log, ShownOf(userCache, u), app[a], x)
  <2>2. ASSUME NEW i \in (version + 1)..(id - 1)
        PROVE  log[i].uid # u
    <3>1. i \in (version + 1)..n /\ i < id
      BY SMTT(30), <1>1, <1>6
    <3>2. \A j \in DOMAIN box : box[j] >= id
      <4> SUFFICES ASSUME NEW j \in DOMAIN box PROVE box[j] >= id
        OBVIOUS
      <4>1. CASE j = 1
        BY <1>4, <4>1
      <4>2. CASE j # 1
        <5>1. 1 \in DOMAIN box /\ 1 < j /\ box[j] \in 1..n
          BY <1>4, <1>a, <4>2
        <5>2. id < box[j]
          BY <1>3, <1>4, <5>1
        <5> QED BY SMTT(30), <1>4, <5>1, <5>2
      <4> QED BY <4>1, <4>2
    <3>3. ~\E j \in DOMAIN box : box[j] = i
      BY <1>4, <3>1, <3>2
    <3> QED BY <1>3, <3>1, <3>3 DEF Unblurred
  <2>3. ASSUME NEW f, IsHistory(f, u, log), ListedOf(list, u) = f[version]
        PROVE  ListedOf(new, u) = f[id]
    <3>1. Len(log) \in Nat /\ version \in 0..Len(log) /\ id \in 1..Len(log) /\ id > version
      BY <1>1, <1>4, <1>6
    <3>2. f[id] = RowMakes(f[version], u, row)
      <4>1. Quiet(u, log, version, id)
        BY <2>2, Zenon DEF Quiet
      <4>2. f[id] = RowMakes(f[version], u, log[id])
        BY <2>3, <3>1, <4>1, HistoryNext
      <4> QED BY <4>2
    <3>4. ListedOf(new, u) = RowMakes(ListedOf(list, u), u, row)
      BY <1>1, <1>7, AppliedIs DEF Unblurred
    <3> QED BY <2>3, <3>2, <3>4
  <2> QED BY <1>8, <2>3 DEF GoesOn
<1> QED BY <1>2, <1>8, <1>9, <1>10, AppStepKeeps

\* An app that goes away keeps its version and its list.
LEMMA DisconnectKeeps ==
  ASSUME UsersInv, NEW a \in Apps, Disconnect(a)
  PROVE  UsersInv'
<1> PICK x : x = [app[a] EXCEPT !.on = FALSE, !.inbox = <<>>]
  OBVIOUS
<1>1. app[a] \in AppRecord
  BY DEF UsersInv, UsersTypeOK, AppRecord
<1>2. /\ app' = [app EXCEPT ![a] = x]
      /\ UNCHANGED <<userTable, userLog, userCache, lastUid, blurred, userUsed>>
  BY <1>1 DEF Disconnect, UsersInv, UsersTypeOK
<1>3. <<>> \in Seq(1..Len(userLog)) /\ DOMAIN <<>> = {}
  OBVIOUS
<1>4. x \in AppRecord /\ x.on = FALSE /\ x.inbox = <<>> /\ x.version = app[a].version /\ x.list = app[a].list
  BY <1>1, <1>3 DEF AppRecord
<1>5. InboxOf(x)
  BY <1>3, <1>4 DEF InboxOf
<1>6. \A u \in Unblurred : GoesOn(u, userLog, ShownOf(userCache, u), app[a], x)
  BY <1>4 DEF GoesOn
<1> QED BY <1>2, <1>4, <1>5, <1>6, AppStepKeeps

\* A restart reads the users again, which the cache of those not blurred had.
LEMMA RestartUsersKeeps ==
  ASSUME UsersInv, RestartUsers
  PROVE  UsersInv'
<1>1. /\ app \in [Apps -> AppRecord] /\ userTable \in Directory(1..lastUid, User)
      /\ userUsed \in [requests : Nat, troubles : Nat]
  BY DEF UsersInv, UsersTypeOK, AppRecord
<1>2. /\ userUsed' = [userUsed EXCEPT !.troubles = @ + 1] /\ userCache' = userTable
      /\ app' = [a \in Apps |-> [app[a] EXCEPT !.on = FALSE, !.inbox = <<>>]]
      /\ userTable' = userTable /\ userLog' = userLog /\ lastUid' = lastUid /\ blurred' = blurred
  BY DEF RestartUsers
<1>3. ASSUME NEW a \in Apps
      PROVE  /\ app'[a] \in AppRecord /\ app'[a].on = FALSE /\ app'[a].inbox = <<>>
             /\ app'[a].version = app[a].version /\ app'[a].list = app[a].list
  <2> PICK x : x = [app[a] EXCEPT !.on = FALSE, !.inbox = <<>>]
    OBVIOUS
  <2>1. <<>> \in Seq(1..Len(userLog)) /\ app[a] \in AppRecord
    BY <1>1
  <2>2. x \in AppRecord /\ x.on = FALSE /\ x.inbox = <<>> /\ x.version = app[a].version /\ x.list = app[a].list
    BY <2>1 DEF AppRecord
  <2>3. app'[a] = x
    BY <1>2
  <2> QED BY <2>2, <2>3
<1>4. UsersTypeOK'
  <2>1. userUsed' \in [requests : Nat, troubles : Nat]
    BY <1>1, <1>2, SpentTypes
  <2>2. DOMAIN app' = Apps /\ app' = [a \in Apps |-> app'[a]]
    BY <1>2
  <2>3. app' \in [Apps -> AppRecord]
    BY <1>3, <2>2
  <2>4. app' \in [Apps -> AppRecord']
    BY <1>2, <2>3 DEF AppRecord
  <2>5. /\ lastUid' \in 0..MaxUsers /\ userTable' \in Directory(1..lastUid', User)
        /\ userCache' \in Directory(1..lastUid', User) /\ userLog' \in Seq(LogRows) /\ blurred' \subseteq Uids
    BY <1>2 DEF UsersInv, UsersTypeOK
  <2> QED BY <2>1, <2>4, <2>5 DEF UsersTypeOK, AppRecord
<1>5. ASSUME NEW u \in Uids, u \notin blurred'
      PROVE  /\ u \in Unblurred /\ SameUser(userTable', userCache', u)
             /\ ShownOf(userCache', u) = ShownOf(userCache, u)
  <2>1. u \in Unblurred
    BY <1>2, <1>5 DEF Unblurred
  <2>2. SameUser(userTable, userCache, u)
    BY <2>1 DEF UsersInv
  <2>3. SameUser(userTable, userTable, u)
    BY DEF SameUser
  <2> QED BY <1>2, <2>1, <2>2, <2>3, SameShown
<1>6. ASSUME NEW a \in Apps
      PROVE  InboxOf(app[a])'
  <2>1. DOMAIN <<>> = {}
    OBVIOUS
  <2> QED BY <1>3, <2>1 DEF InboxOf
<1>7. ASSUME NEW u \in Uids, u \notin blurred'
      PROVE  OneHistory(u, userLog', app', ShownOf(userCache', u))
  <2> PICK apps : apps = app
    OBVIOUS
  <2> PICK new : new = app'
    OBVIOUS
  <2>1. OneHistory(u, userLog, apps, ShownOf(userCache, u))
    BY <1>5, <1>7 DEF UsersInv
  <2>2. \A a \in Apps : new[a].version = apps[a].version /\ new[a].list = apps[a].list
    BY <1>3
  <2>3. OneHistory(u, userLog, new, ShownOf(userCache, u))
    BY <2>1, <2>2, SameHistory
  <2> QED BY <1>2, <1>5, <1>7, <2>3
<1> QED BY <1>4, <1>5, <1>6, <1>7 DEF UsersInv, Unblurred

\* A step that changes nothing.
LEMMA NothingKeepsUsers ==
  ASSUME UsersInv, UNCHANGED usersVars
  PROVE  UsersInv'
<1>1. /\ userTable' = userTable /\ userLog' = userLog /\ userCache' = userCache /\ lastUid' = lastUid
      /\ app' = app /\ blurred' = blurred /\ userUsed' = userUsed
  BY DEF usersVars
<1>2. UsersTypeOK' /\ \A u \in Unblurred' : SameUser(userTable, userCache, u)'
  BY <1>1 DEF UsersInv, UsersTypeOK, Unblurred
<1>3. \A a \in Apps : InboxOf(app[a])'
  BY <1>1 DEF UsersInv, InboxOf
<1>4. ASSUME NEW u \in Unblurred'
      PROVE  OneHistory(u, userLog', app', ShownOf(userCache', u))
  BY <1>1 DEF UsersInv, Unblurred
<1> QED BY <1>2, <1>3, <1>4 DEF UsersInv

\* The first state: nothing to list and nothing to read.
LEMMA UsersStart ==
  ASSUME UsersInit
  PROVE  UsersInv
<1>1. /\ userTable = <<>> /\ userCache = <<>> /\ userLog = <<>> /\ lastUid = 0 /\ blurred = {}
      /\ app = [a \in Apps |-> [on |-> FALSE, version |-> 0, inbox |-> <<>>, list |-> <<>>]]
      /\ userUsed = [requests |-> 0, troubles |-> 0]
  BY DEF UsersInit
<1>2. Len(userLog) = 0 /\ DOMAIN <<>> = {} /\ MaxUsers \in Nat
  BY <1>1, UsersAssumption
<1>3. \A keys, values : <<>> \in Directory(keys, values)
  <2> SUFFICES ASSUME NEW keys, NEW values PROVE <<>> \in Directory(keys, values)
    OBVIOUS
  <2>1. <<>> \in [{} -> values]
    OBVIOUS
  <2> QED BY <2>1, DirectoryIs
<1>4. ASSUME NEW a \in Apps
      PROVE  /\ app[a] \in AppRecord /\ app[a].on = FALSE /\ app[a].version = 0 /\ app[a].inbox = <<>>
             /\ app[a].list = <<>>
  <2> PICK x : x = [on |-> FALSE, version |-> 0, inbox |-> <<>>, list |-> <<>>]
    OBVIOUS
  <2>1. <<>> \in Seq(1..Len(userLog)) /\ 0 \in 0..Len(userLog)
    BY <1>2
  <2>2. x \in AppRecord
    BY <1>3, <2>1 DEF AppRecord
  <2>3. app[a] = x
    BY <1>1
  <2> QED BY <2>2, <2>3
<1>5. UsersTypeOK
  <2>1. app \in [Apps -> AppRecord]
    BY <1>1, <1>4
  <2>2. userLog \in Seq(LogRows)
    BY <1>1
  <2>3. userUsed \in [requests : Nat, troubles : Nat]
    BY <1>1
  <2> QED BY <1>1, <1>2, <1>3, <2>1, <2>2, <2>3 DEF UsersTypeOK, AppRecord
<1>6. \A u \in Unblurred : SameUser(userTable, userCache, u)
  BY <1>1 DEF SameUser
<1>7. \A a \in Apps : InboxOf(app[a])
  BY <1>2, <1>4 DEF InboxOf
<1>8. ASSUME NEW u \in Unblurred
      PROVE  OneHistory(u, userLog, app, ShownOf(userCache, u))
  <2> DEFINE f == [i \in 0..0 |-> {}]
  <2>1. f \in [0..0 -> SUBSET Profile] /\ f[0] = {} /\ 1..0 = {}
    OBVIOUS
  <2> HIDE DEF f
  <2>2. IsHistory(f, u, userLog)
    BY <1>2, <2>1 DEF IsHistory
  <2>3. ShownOf(userCache, u) = {}
    BY <1>1, <1>2 DEF ShownOf
  <2>4. \A a \in Apps : ListedOf(app[a].list, u) = {} /\ app[a].version = 0
    BY <1>2, <1>4 DEF ListedOf
  <2> QED BY <1>2, <2>1, <2>2, <2>3, <2>4 DEF OneHistory
<1> QED BY <1>5, <1>6, <1>7, <1>8 DEF UsersInv

\* Every step keeps the invariant.
LEMMA UsersStep ==
  ASSUME UsersInv, [UsersNext]_usersVars
  PROVE  UsersInv'
<1>1. \A u \in Uids, set \in Updates : UpdateUser(u, set) => UsersInv'
  BY ChangeKeeps DEF UpdateUser
<1>2. \A u \in Uids, set \in Updates : AdminUpdate(u, set) => UsersInv'
  BY ChangeKeeps DEF AdminUpdate
<1>3. \A guest \in BOOLEAN, n \in UserNames : CreateUser(guest, n) => UsersInv'
  BY CreateUserKeeps
<1>4. \A u \in Uids : RemoveUser(u) => UsersInv'
  BY RemoveUserKeeps
<1>5. \A u \in Uids, looks \in 0..1 : UpdateUnlogged(u, looks) => UsersInv'
  BY UnloggedKeeps
<1>6. \A a \in Apps : Connect(a) \/ ReadRow(a) \/ Disconnect(a) => UsersInv'
  BY ConnectKeeps, ReadRowKeeps, DisconnectKeeps
<1>7. RestartUsers => UsersInv'
  BY RestartUsersKeeps
<1>8. UNCHANGED usersVars => UsersInv'
  BY NothingKeepsUsers
<1> QED BY <1>1, <1>2, <1>3, <1>4, <1>5, <1>6, <1>7, <1>8, Zenon DEF UsersNext

\* An app that has read all: no row after its version is about a user who is
\* not blurred, so what it shows is where the rows lead, the cache.
LEMMA ListAgreesNow ==
  ASSUME UsersInv
  PROVE  ListAgrees
<1> SUFFICES ASSUME NEW a \in Apps, app[a].on, app[a].inbox = <<>>, NEW u \in Unblurred
             PROVE  /\ u \in DOMAIN app[a].list <=> u \in Listed
                    /\ u \in Listed => app[a].list[u] = userCache[u].profile
  BY DEF ListAgrees, Unblurred
<1> PICK n : n = Len(userLog)
  OBVIOUS
<1> PICK version : version = app[a].version
  OBVIOUS
<1> PICK list : list = app[a].list
  OBVIOUS
<1>1. n \in Nat /\ version \in 0..n
  BY DEF UsersInv, UsersTypeOK
<1>2. PICK f \in [0..n -> SUBSET Profile] :
         /\ IsHistory(f, u, userLog) /\ f[n] = ShownOf(userCache, u)
         /\ ListedOf(list, u) = f[version]
  BY DEF UsersInv, OneHistory
<1>3. DOMAIN <<>> = {} /\ InboxOf(app[a])
  BY DEF UsersInv
<1>4. \A m \in (version + 1)..n : userLog[m].uid \in blurred
  BY <1>3 DEF InboxOf
<1>5. \A m \in (version + 1)..n : userLog[m].uid # u
  BY <1>4 DEF Unblurred
<1>6. ListedOf(list, u) = ShownOf(userCache, u)
  <2>1. Len(userLog) \in Nat /\ version \in Nat /\ n \in version..Len(userLog)
    BY <1>1
  <2>2. f[n] = f[version]
    BY SMTT(30), <1>2, <1>5, <2>1, HistoryStill
  <2> QED BY <1>2, <2>2
<1> QED BY <1>6 DEF ListedOf, ShownOf, Listed

\* The type invariant, the agreement of the table and the cache, what the apps
\* are sent and where they are in the history, in every reachable state.
THEOREM UsersInvariance == UsersSpec => []UsersInv
<1>1. UsersInit => UsersInv
  BY UsersStart
<1>2. UsersInv /\ [UsersNext]_usersVars => UsersInv'
  BY UsersStep
<1> QED BY <1>1, <1>2, PTL DEF UsersSpec

\* An app that has read all shows the users as the server has them.
THEOREM UsersListAgrees == UsersSpec => []ListAgrees
<1>1. UsersInv => ListAgrees
  BY ListAgreesNow
<1> QED BY <1>1, UsersInvariance, PTL

\* What the apps show, and the server, is one history of each user.
AppsFollowHistory == \A u \in Uids \ blurred : OneHistory(u, userLog, app, ShownOf(userCache, u))

\* At any moment, rows still under way or the app away: what an app shows of a
\* user is what the log makes of them up to the app's version, and what the
\* server has is what the whole log makes of them.  An app is late, never wrong:
\* it shows no profile that the list did not have, and two apps of the same
\* version show the same.
THEOREM UsersFollowHistory == UsersSpec => []AppsFollowHistory
<1>1. UsersInv => AppsFollowHistory
  BY DEF UsersInv, Unblurred, AppsFollowHistory
<1> QED BY <1>1, UsersInvariance, PTL

\* A restart takes no app anywhere.
LEMMA RestartKeepsVersions ==
  ASSUME UsersInv, RestartUsers
  PROVE  \A a \in Apps : app'[a].version = app[a].version
<1>1. app \in [Apps -> AppRecord]
  BY DEF UsersInv, UsersTypeOK, AppRecord
<1>2. app' = [a \in Apps |-> [app[a] EXCEPT !.on = FALSE, !.inbox = <<>>]]
  BY DEF RestartUsers
<1>3. ASSUME NEW a \in Apps
      PROVE  app'[a].version = app[a].version
  <2> PICK x : x = [app[a] EXCEPT !.on = FALSE, !.inbox = <<>>]
    OBVIOUS
  <2>1. app[a] \in AppRecord
    BY <1>1
  <2>2. x.version = app[a].version
    BY <2>1 DEF AppRecord
  <2>3. app'[a] = x
    BY <1>2
  <2> QED BY <2>2, <2>3
<1> QED BY <1>3

\* A row that an app reads is one after its version; the others leave it where
\* it is, or take it to the end of the log.
LEMMA AppMoves ==
  ASSUME UsersInv, UsersNext, NEW a \in Apps
  PROVE  app'[a].version >= app[a].version
<1> PICK n : n = Len(userLog)
  OBVIOUS
<1> PICK version : version = app[a].version
  OBVIOUS
<1>1. app \in [Apps -> AppRecord] /\ app[a] \in AppRecord /\ n \in Nat /\ version \in 0..n
  BY DEF UsersInv, UsersTypeOK, AppRecord
<1>2. ASSUME app'[a].version = version
      PROVE  app'[a].version >= version
  BY <1>1, <1>2
<1>3. ASSUME NEW u, NEW nt, NEW nc, NEW rows, Commit(u, nt, nc, rows)
      PROVE  app'[a].version = version
  <2>1. app' = app \/ Tell(n + 1)
    BY <1>3 DEF Commit
  <2>2. CASE Tell(n + 1)
    <3>1. app'[a] = IF app[a].on THEN [app[a] EXCEPT !.inbox = Append(app[a].inbox, n + 1)] ELSE app[a]
      BY <2>2 DEF Tell
    <3>2. \A box : [app[a] EXCEPT !.inbox = box].version = version
      BY <1>1 DEF AppRecord
    <3> QED BY <3>1, <3>2
  <2> QED BY <2>1, <2>2
<1>4. ASSUME NEW b \in Apps, Connect(b)
      PROVE  app'[a].version = version \/ app'[a].version = n
  <2>1. CASE b # a
    BY <1>1, <1>4, <2>1 DEF Connect
  <2>2. CASE b = a
    <3> PICK list : list = [u \in Listed |-> userCache[u].profile]
      OBVIOUS
    <3> PICK x : x = [on |-> TRUE, version |-> n, inbox |-> <<>>, list |-> list]
      OBVIOUS
    <3> PICK y : y = [on |-> TRUE, version |-> version, list |-> app[a].list, inbox |-> Missed(n, version)]
      OBVIOUS
    <3>1. app' = [app EXCEPT ![a] = x] \/ app' = [app EXCEPT ![a] = y]
      BY <1>4, <2>2 DEF Connect, Missed
    <3>2. x.version = n /\ y.version = version
      OBVIOUS
    <3> QED BY <1>1, <3>1, <3>2
  <2> QED BY <2>1, <2>2
<1>5. ASSUME NEW b \in Apps, ReadRow(b)
      PROVE  app'[a].version = version \/ (app'[a].version > version /\ app'[a].version \in Nat)
  <2>1. CASE b # a
    BY <1>1, <1>5, <2>1 DEF ReadRow
  <2>2. CASE b = a
    <3> PICK box : box = app[a].inbox
      OBVIOUS
    <3> PICK id : id = Head(box)
      OBVIOUS
    <3>1. box # <<>> /\ box \in Seq(1..n) /\ \A i \in DOMAIN box : box[i] > version
      BY <1>1, <1>5, <2>2 DEF ReadRow, UsersInv, InboxOf, AppRecord
    <3>a. Len(box) \in Nat /\ Len(box) # 0 /\ DOMAIN box = 1..Len(box)
      BY <3>1, EmptySeq
    <3>2. 1 \in DOMAIN box /\ id = box[1] /\ id \in 1..n
      BY <3>1, <3>a, HeadTailProperties
    <3>3. id > version
      BY Zenon, <3>1, <3>2
    <3> PICK list : list = Applied(app[a].list, userLog[id])
      OBVIOUS
    <3> PICK x : x = [on |-> TRUE, version |-> id, inbox |-> Tail(box), list |-> list]
      OBVIOUS
    <3>4. app' = [app EXCEPT ![a] = x] /\ x.version = id
      BY <1>5, <2>2 DEF ReadRow
    <3>5. app'[a] = x
      BY <1>1, <3>4
    <3> QED BY <1>1, <3>2, <3>3, <3>4, <3>5
  <2> QED BY <2>1, <2>2
<1>6. ASSUME NEW b \in Apps, Disconnect(b)
      PROVE  app'[a].version = version
  <2> PICK x : x = [app[b] EXCEPT !.on = FALSE, !.inbox = <<>>]
    OBVIOUS
  <2>1. app' = [app EXCEPT ![b] = x] /\ app[b] \in AppRecord
    BY <1>1, <1>6 DEF Disconnect
  <2>2. x.version = app[b].version
    BY <2>1 DEF AppRecord
  <2> QED BY <1>1, <2>1, <2>2
<1>7. ASSUME RestartUsers
      PROVE  app'[a].version = version
  BY <1>7, RestartKeepsVersions
<1>8. ASSUME NEW u \in Uids, NEW looks \in 0..1, UpdateUnlogged(u, looks)
      PROVE  app'[a].version = version
  BY <1>8 DEF UpdateUnlogged
<1>9. \/ app'[a].version = version
      \/ app'[a].version = n
      \/ app'[a].version > version /\ app'[a].version \in Nat
  BY <1>3, <1>4, <1>5, <1>6, <1>7, <1>8, Zenon
     DEF UsersNext, CreateUser, UpdateUser, AdminUpdate, RemoveUser
<1> QED BY <1>1, <1>9

\* No app goes back in the history.
AppsMoveForward == [][\A a \in Apps : app'[a].version >= app[a].version]_usersVars

\* No step takes an app back in the history that it follows, away or not, dropped
\* requests and restarts of the server included.
THEOREM UsersMoveForward == UsersSpec => AppsMoveForward
<1>1. UsersInv /\ [UsersNext]_usersVars => [\A a \in Apps : app'[a].version >= app[a].version]_usersVars
  BY AppMoves
<1> QED BY <1>1, UsersInvariance, PTL DEF UsersSpec, AppsMoveForward

----------------------------------------------------------------------------
\* The parts side by side, as MCGroups runs them with the groups.

\* A step of one part is a step of that part and a stutter of each other.
LEMMA PartsAreTheirSpecs ==
  MCSpec => Spec /\ UsersSpec /\ TokensSpec /\ ConfigSpec /\ KeysSpec /\ LoginSpec /\ RoomsSpec
<1>1. MCInit => Init /\ UsersInit /\ TokensInit /\ ConfigInit /\ KeysInit /\ LoginInit /\ RoomsInit
  BY DEF MCInit
<1> DEFINE all == <<vars, usersVars, tokenVars, configVars, keysVars, loginVars, roomVars, part>>
           Steps == /\ [Next]_vars /\ [UsersNext]_usersVars /\ [TokensNext]_tokenVars
                    /\ [ConfigNext]_configVars /\ [KeysNext]_keysVars /\ [LoginNext]_loginVars
                    /\ [RoomsNext]_roomVars
<1>2. [MCNext]_all => Steps
  <2>1. ASSUME UNCHANGED all PROVE Steps
    BY <2>1
  <2>2. ASSUME MCNext PROVE Steps
    BY <2>2, Zenon DEF MCNext
  <2> QED BY <2>1, <2>2
<1> QED BY <1>1, <1>2, PTL DEF MCSpec, Spec, UsersSpec, TokensSpec, ConfigSpec, KeysSpec, LoginSpec, RoomsSpec

\* So whatever part runs, its variables are well typed.
THEOREM PartsTyped == MCSpec => []AllTypesOK
<1>1. /\ UsersInv => UsersTypeOK
      /\ TokensInv => TokensTypeOK
      /\ ConfigIInv => ConfigTypeOK
      /\ KeysIInv => KeysTypeOK
      /\ LoginIInv => LoginTypeOK
      /\ RoomsIInv => RoomsTypeOK
  BY DEF UsersInv, TokensInv, ConfigIInv, KeysIInv, LoginIInv, RoomsIInv
<1>2. /\ TypeOK /\ UsersTypeOK /\ TokensTypeOK /\ ConfigTypeOK /\ KeysTypeOK /\ LoginTypeOK /\ RoomsTypeOK
      => AllTypesOK
  BY DEF AllTypesOK
<1> QED
  BY PartsAreTheirSpecs, GroupsTypeOK, UsersInvariance, TokensInvariance, ConfigInvariance, KeysInvariance,
     LoginInvariance, RoomsInvariance, <1>1, <1>2, PTL
=============================================================================
