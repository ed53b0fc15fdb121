------------------------------- MODULE Tokens -------------------------------
(***************************************************************************)
(* The refresh token of one device of a user.  A login writes it under the *)
(* write guard of State.cache, as does a logout; a renewal takes no guard: *)
(* it selects the row, compares it with the token the app sent, and then   *)
(* updates whatever row is there.  The same login may be used by several   *)
(* tabs, which renew side by side.                                         *)
(***************************************************************************)
EXTENDS Integers

CONSTANTS Tabs,       \* where the app of the device runs
          \* bounds of the model
          MaxTokens, MaxTokenTroubles

ASSUME TokensAssumption == MaxTokens \in Nat

VARIABLES status,     \* of the user
          stored,     \* the row of refresh_token; 0 where there is none
          held,       \* the token each tab has; 0 for none
          renewing,   \* the token with which the renewal of a tab passed its check
          lastToken,  \* tokens made so far
          \* history, read by the properties only
          loginOf,    \* the first token of the login that a token goes back to
          ended,      \* the last token there was at the last logout
          crossed,    \* a login came while a renewal from before a logout was under way
          lost,       \* the answer with the stored token was lost
          tokenTroubles

tokenVars == <<status, stored, held, renewing, lastToken, loginOf, ended, crossed, lost, tokenTroubles>>

Token == 1..MaxTokens

TokensTypeOK ==
    /\ status \in {"normal", "frozen", "deleted"}
    /\ {stored, ended} \subseteq 0..lastToken /\ lastToken \in 0..MaxTokens
    /\ held \in [Tabs -> 0..lastToken] /\ renewing \in [Tabs -> 0..lastToken]
    /\ loginOf \in [Token -> 0..lastToken]
    /\ crossed \in BOOLEAN /\ lost \in BOOLEAN

\* A new token goes to the tab, unless its answer is lost on the way.
Make(tab, login) ==
    LET t == lastToken + 1 IN
    /\ t \in Token
    /\ lastToken' = t
    /\ loginOf' = [loginOf EXCEPT ![t] = IF login = 0 THEN t ELSE login]
    /\ \/ /\ held' = [held EXCEPT ![tab] = t]
          /\ lost' = FALSE
          /\ UNCHANGED tokenTroubles
       \/ /\ tokenTroubles < MaxTokenTroubles
          /\ tokenTroubles' = tokenTroubles + 1
          /\ lost' = TRUE
          /\ UNCHANGED held

\* Mutant of Upsert: a row that is there stays.
InsertIfMissing(t) == stored' = IF stored = 0 THEN t ELSE stored

\* insert ... on conflict do update.
Upsert(t) == stored' = t

\* do_login.
Login(tab) ==
    /\ status = "normal"
    /\ Make(tab, 0)
    /\ Upsert(lastToken + 1)
    /\ crossed' = (crossed \/ \E c \in Tabs : renewing[c] # 0 /\ loginOf[renewing[c]] <= ended)
    /\ UNCHANGED <<status, renewing, ended>>

\* The first half of renew.
CheckToken(tab) ==
    /\ held[tab] # 0 /\ held[tab] = stored
    /\ renewing[tab] = 0
    /\ renewing' = [renewing EXCEPT ![tab] = stored]
    /\ UNCHANGED <<status, stored, held, lastToken, loginOf, ended, crossed, lost, tokenTroubles>>

\* Mutant of UpdateRow: the row is put back when it is gone.
UpsertRow(t) == stored' = t

\* The update affects no row where there is none.
UpdateRow(t) == stored' = IF stored = 0 THEN 0 ELSE t

\* The second half: the app gets its new token whether a row was updated or not.
Renew(tab) ==
    /\ renewing[tab] # 0
    /\ Make(tab, loginOf[renewing[tab]])
    /\ UpdateRow(lastToken + 1)
    /\ renewing' = [renewing EXCEPT ![tab] = 0]
    /\ UNCHANGED <<status, ended, crossed>>

\* logout, of any tab whose access token has not expired.
Logout(tab) ==
    /\ held[tab] # 0 /\ status # "deleted"
    /\ stored' = 0
    /\ ended' = lastToken
    /\ lost' = FALSE
    /\ UNCHANGED <<status, held, renewing, lastToken, loginOf, crossed, tokenTroubles>>

\* delete_user: the row goes with the user.
DeleteAccount ==
    /\ status # "deleted"
    /\ status' = "deleted"
    /\ stored' = 0
    /\ ended' = lastToken
    /\ lost' = FALSE
    /\ UNCHANGED <<held, renewing, lastToken, loginOf, crossed, tokenTroubles>>

\* update by an administrator: the rows of a frozen user stay.
SetStatus ==
    /\ status # "deleted"
    /\ status' = IF status = "normal" THEN "frozen" ELSE "normal"
    /\ UNCHANGED <<stored, held, renewing, lastToken, loginOf, ended, crossed, lost, tokenTroubles>>

\* A second tab takes over what the first has stored.
Share(tab, other) ==
    /\ held[tab] # held[other]
    /\ held' = [held EXCEPT ![other] = held[tab]]
    /\ held[other] # stored \/ \E c \in Tabs \ {other} : held[c] = stored
    /\ UNCHANGED <<status, stored, renewing, lastToken, loginOf, ended, crossed, lost, tokenTroubles>>

\* The requests under way are gone, the row stays.
RestartTokens ==
    /\ tokenTroubles < MaxTokenTroubles
    /\ tokenTroubles' = tokenTroubles + 1
    /\ renewing' = [tab \in Tabs |-> 0]
    /\ UNCHANGED <<status, stored, held, lastToken, loginOf, ended, crossed, lost>>

TokensInit ==
    /\ status = "normal" /\ stored = 0
    /\ held = [tab \in Tabs |-> 0] /\ renewing = [tab \in Tabs |-> 0]
    /\ lastToken = 0 /\ loginOf = [t \in Token |-> 0]
    /\ ended = 0 /\ crossed = FALSE /\ lost = FALSE
    /\ tokenTroubles = 0

TokensNext ==
    \/ \E tab \in Tabs : Login(tab) \/ CheckToken(tab) \/ Renew(tab) \/ Logout(tab)
    \/ \E tab, other \in Tabs : Share(tab, other)
    \/ DeleteAccount \/ SetStatus \/ RestartTokens

TokensSpec == TokensInit /\ [][TokensNext]_tokenVars

----------------------------------------------------------------------------
\* Properties.

\* A logout and a deletion end every login made before, the renewals under way
\* included.  (The one exception: a renewal that passed its check before the
\* logout and updates the row that a new login has written since.)
LogoutIsFinal == stored # 0 => loginOf[stored] > ended \/ crossed

\* The device can go on with what it has: however logins and renewals of its
\* tabs cross, the stored token is one that a tab holds, unless the answer that
\* carried it was lost.
TokenIsHeld == stored # 0 /\ ~lost => \E tab \in Tabs : held[tab] = stored
=============================================================================
