----------------------------- MODULE UserLogin -----------------------------
(***************************************************************************)
(* The login data of the SHV hello exchange                                *)
(* (src/libshvchainpack/src/chainpack/accessgrant.cpp): a client puts a    *)
(* UserLogin into the "login" parameter of its login request as the map    *)
(* UserLogin::toRpcValueMap(); the broker reads it back with               *)
(* UserLoginContext::userLogin(), i.e. UserLogin::fromRpcValue(), and      *)
(* parses the login type with loginTypeFromString() and its case-          *)
(* insensitive str_eq(), and answers with UserLoginResult::toRpcValue().  Clients of other implementations send the map    *)
(* {"user", "password", "type"} with the type spelled in any case.         *)
(*                                                                         *)
(* Strings whose characters matter are tuples of one-character strings;    *)
(* user names and passwords are opaque values.                             *)
(***************************************************************************)
EXTENDS Integers, Sequences, TLC

CONSTANTS
    Users,          \* user names
    Passwords,      \* passwords (or their hashes)
    TypeStrings,    \* "type" values other clients send, as character tuples
    ClientIds,      \* values of UserLoginResult::clientId
    LoginErrors     \* values of UserLoginResult::loginError

(* UserLogin::LoginType.                                                   *)
LoginTypes == {"None", "Plain", "Sha1", "RsaOaep", "AzureAccessToken"}

(* toupper() on the characters that occur; others are left alone.         *)
UpperOf == ("a" :> "A") @@ ("e" :> "E") @@ ("h" :> "H") @@ ("i" :> "I") @@
           ("l" :> "L") @@ ("n" :> "N") @@ ("o" :> "O") @@ ("p" :> "P") @@
           ("r" :> "R") @@ ("s" :> "S") @@ ("u" :> "U") @@ ("z" :> "Z")

ToUpper(c) == IF c \in DOMAIN UpperOf THEN UpperOf[c] ELSE c

(* UserLogin::loginTypeToString().                                         *)
LoginTypeToString(t) ==
    CASE t = "None"             -> <<"N", "O", "N", "E">>
      [] t = "Plain"            -> <<"P", "L", "A", "I", "N">>
      [] t = "Sha1"             -> <<"S", "H", "A", "1">>
      [] t = "RsaOaep"          -> <<"R", "S", "A", "O", "A", "E", "P">>
      [] t = "AzureAccessToken" -> <<"A", "Z", "U", "R", "E">>
      [] OTHER                  -> <<"I", "N", "V", "A", "L", "I", "D">>

(* Mutant: the loop ends with s1 and does not check that s2 ends too.    *)
StrEqPrefix(s1, s2) ==
    /\ Len(s1) <= Len(s2)
    /\ \A i \in 1 .. Len(s1) : s2[i] = ToUpper(s1[i])

(* str_eq(): walk s1; fail when s2 ends first or when                     *)
(* toupper(c2 != toupper(s1[i])) is non-zero, i.e. when c2 differs from   *)
(* toupper(s1[i]); at the end s2 must end as well.                         *)
RECURSIVE StrEqFrom(_, _, _)
StrEqFrom(s1, s2, i) ==
    IF i > Len(s1) THEN i > Len(s2)
    ELSE IF i > Len(s2) THEN FALSE
    ELSE IF s2[i] # ToUpper(s1[i]) THEN FALSE
    ELSE StrEqFrom(s1, s2, i + 1)

StrEq(s1, s2) == StrEqFrom(s1, s2, 1)

(* UserLogin::loginTypeFromString(): the names are tried in this order.   *)
LoginTypeFromString(s) ==
    LET order == <<"None", "Plain", "Sha1", "RsaOaep", "AzureAccessToken">>
        hits  == {i \in 1 .. 5 : StrEq(s, LoginTypeToString(order[i]))}
    IN  IF hits = {} THEN "Invalid"
        ELSE order[CHOOSE i \in hits : \A j \in hits : i <= j]

(* RpcValue::Map::value(key).toString() of a map given as a function.     *)
(* An absent key gives an invalid value, whose toString() is "".           *)
MapValue(m, key) == IF key \in DOMAIN m THEN m[key] ELSE <<>>

(* UserLogin::toRpcValueMap().                                             *)
ToRpcValueMap(l) ==
    ("user" :> l.user) @@ ("password" :> l.password)
        @@ ("loginType" :> LoginTypeToString(l.loginType))

(* UserLogin::fromRpcValue() of a map: no "type" means SHA1.               *)
FromRpcValue(m) ==
    LET lts == MapValue(m, "type") IN
    [user      |-> MapValue(m, "user"),
     password  |-> MapValue(m, "password"),
     loginType |-> IF lts = <<>> THEN "Sha1" ELSE LoginTypeFromString(lts)]

(* UserLoginResult::toRpcValue(): the map holds "clientId" only for an     *)
(* accepted password and a positive id; loginError is not written.        *)
LoginResultToRpcValue(r) ==
    IF r.passwordOk /\ r.clientId > 0 THEN "clientId" :> r.clientId ELSE <<>>

-----------------------------------------------------------------------------
(* The login map of the last login request (wire), the login the client   *)
(* that sent it meant (sent, ghost), what the broker read (received) and   *)
(* the result map it answered with ({} before it answered).                *)
VARIABLES wire, sent, received, answer

vars == <<wire, sent, received, answer>>

Logins == [user: Users, password: Passwords, loginType: LoginTypes]

Init ==
    /\ wire = <<>>
    /\ sent = {}
    /\ received = {}
    /\ answer = {}

(* A libshv client sends its UserLogin as toRpcValueMap().                 *)
ClientLogin(l) ==
    /\ wire' = ToRpcValueMap(l)
    /\ sent' = {l}
    /\ received' = {}
    /\ answer' = {}

(* A client of another implementation sends user, password and type.      *)
ForeignClientLogin(u, p, ts) ==
    /\ wire' = ("user" :> u) @@ ("password" :> p) @@ ("type" :> ts)
    /\ sent' = {}
    /\ received' = {}
    /\ answer' = {}

(* The broker reads the login: UserLoginContext::userLogin().              *)
BrokerReadsLogin ==
    /\ wire # <<>>
    /\ received' = {FromRpcValue(wire)}
    /\ UNCHANGED <<wire, sent, answer>>

(* The broker answers the login it read with a UserLoginResult, its       *)
(* password check passed or not, as the map toRpcValue() gives.            *)
BrokerAnswersLogin(ok, id, err) ==
    /\ received # {}
    /\ answer' = {LoginResultToRpcValue([passwordOk |-> ok, clientId |-> id,
                                         loginError |-> err])}
    /\ UNCHANGED <<wire, sent, received>>

Next ==
    \/ \E l \in Logins : ClientLogin(l)
    \/ \E u \in Users, p \in Passwords, ts \in TypeStrings :
           ForeignClientLogin(u, p, ts)
    \/ BrokerReadsLogin
    \/ \E ok \in BOOLEAN, id \in ClientIds, err \in LoginErrors :
           BrokerAnswersLogin(ok, id, err)

Spec == Init /\ [][Next]_vars

-----------------------------------------------------------------------------
(* The login type a "type" string names: the name it equals when both     *)
(* are upper-cased, SHA1 when it is missing, Invalid otherwise.            *)
UpperString(s) == [i \in 1 .. Len(s) |-> ToUpper(s[i])]

NamedType(lts) ==
    IF lts = <<>> THEN "Sha1"
    ELSE IF \E t \in LoginTypes : UpperString(lts) = LoginTypeToString(t)
    THEN CHOOSE t \in LoginTypes : UpperString(lts) = LoginTypeToString(t)
    ELSE "Invalid"

(* The broker reads the login type a client wrote, in whatever case, and  *)
(* rejects a misspelt one as Invalid (loginTypeFromString, str_eq).        *)
LoginTypeParsed ==
    \A r \in received : r.loginType = NamedType(MapValue(wire, "type"))

(* What the broker reads of a libshv client's login is the UserLogin the  *)
(* client put into the request (toRpcValueMap then fromRpcValue).          *)
LoginRoundTrip ==
    \A l \in sent : \A r \in received : r = l
=============================================================================
