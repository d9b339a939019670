----------------------------- MODULE OAuthProofs -----------------------------
(***************************************************************************)
(* Proofs about OAuth, for any number of browsers, tabs and sign-ins: what *)
(* is in a cookie jar or came with a request was put there by a sign-in of *)
(* this browser, in pairs for Twitter, and is gone once it was used.       *)
(***************************************************************************)
EXTENDS OAuth, SequenceTheorems, TLAPS

(* Sign-in n was started by browser b and uses cookie c.                   *)
Belongs(n, b, c) == /\ n \in 1 .. Len(flows) /\ flows[n].by = b
                    /\ c \in StartCookies(flows[n].prov)

JarOK ==
  \A b \in Browser :
    /\ jar[b]["oauth_state_tw"] = jar[b]["oauth_tw_pkce"]
    /\ \A c \in CookieName : jar[b][c] # None => Belongs(jar[b][c].val, b, c)

SentOK ==
  \A t \in Tab :
    /\ tab[t].sent["oauth_state_tw"] = tab[t].sent["oauth_tw_pkce"]
    /\ \A c \in CookieName : tab[t].sent[c] # None => Belongs(tab[t].sent[c], Home[t], c)

(* A tab that is not at home has a sign-in; past the guard the state       *)
(* cookie that was sent is its state.                                      *)
ViewOK ==
  \A t \in Tab :
    /\ tab[t].at # "home" => /\ tab[t].prov \in Provider /\ tab[t].state \in 1 .. Len(flows)
                             /\ flows[tab[t].state].prov = tab[t].prov
    /\ tab[t].at = "starting" => flows[tab[t].state].by = Home[t]
    /\ tab[t].at \in {"exchange", "profile", "reply"} =>
         tab[t].sent[StateCookie[tab[t].prov]] = tab[t].state

(* A start whose answer has not arrived is known to its tab alone.         *)
FreshOK ==
  \A t \in Tab : tab[t].at = "starting" =>
    /\ \A b \in Browser : tab[t].state \notin entered[b]
    /\ \A b \in Browser : \A c \in CookieName : jar[b][c] # None => jar[b][c].val # tab[t].state
    /\ \A u \in Tab : \A c \in CookieName : tab[u].sent[c] # tab[t].state
    /\ \A u \in Tab : u # t /\ tab[u].at = "starting" => tab[u].state # tab[t].state

EnteredOK ==
  \A b \in Browser : \A n \in entered[b] : n \in 1 .. Len(flows) /\ flows[n].by = b

(* The sign-in left for last has the state cookie of its provider.         *)
DueOK ==
  /\ \A b \in Browser : \A p \in Provider :
       due[b][p] # None => jar[b][StateCookie[p]] = due[b][p]
  /\ \A t \in Tab : tab[t].at = "callback" /\ tab[t].due =>
       tab[t].sent[StateCookie[tab[t].prov]] = tab[t].state

OInv == /\ TypeOK /\ JarOK /\ SentOK /\ ViewOK
        /\ FreshOK /\ EnteredOK /\ DueOK /\ StateCleared
-----------------------------------------------------------------------------
LEMMA Names ==
  /\ StateCookie["google"] = "oauth_state" /\ StateCookie["twitter"] = "oauth_state_tw"
  /\ StartCookies("google") = {"oauth_state"}
  /\ StartCookies("twitter") = {"oauth_state_tw", "oauth_tw_pkce"}
  /\ \A p \in Provider : StateCookie[p] \in CookieName /\ StateCookie[p] \in StartCookies(p)
  BY DEF StateCookie, StartCookies, PkceCookie, CookieName, Provider

LEMMA Initially == Init => OInv
<1> SUFFICES ASSUME Init
             PROVE  OInv
  OBVIOUS
<1> USE OAuthAssumption DEF Init
<1>1. NoCookies \in [CookieName -> Nat \cup {None}] /\ \A c \in CookieName : NoCookies[c] = None
  BY DEF NoCookies
<1>2. HomePage \in View
  BY <1>1 DEF HomePage, View
<1>3. NoCookies \in [CookieName -> Cookie \cup {None}]
  BY DEF NoCookies
<1>4. TypeOK
  BY <1>2, <1>3 DEF TypeOK
<1>5. JarOK /\ SentOK /\ ViewOK
  BY <1>1 DEF JarOK, SentOK, ViewOK, HomePage, CookieName
<1>6. FreshOK /\ EnteredOK /\ DueOK /\ StateCleared
  BY <1>1, Names DEF FreshOK, EnteredOK, DueOK, StateCleared, HomePage
<1> QED
  BY <1>4, <1>5, <1>6 DEF OInv

(* A tab that moves on with its request, or gives up, and the sign-in in   *)
(* it keeps what was sent for it.                                          *)
LEMMA TabsKeep ==
  ASSUME OInv, tab' \in [Tab -> View],
         granted' \subseteq Nat, secret' \in Nat, now' \in Nat,
         UNCHANGED <<flows, jar, entered, due, hostOnly>>,
         \A t \in Tab :
           \/ tab'[t] = tab[t] \/ tab'[t] = HomePage
           \/ /\ tab[t].at # "home" /\ tab'[t].at \notin {"home", "starting", "callback"}
              /\ tab'[t].prov = tab[t].prov /\ tab'[t].state = tab[t].state
              /\ tab'[t].sent = tab[t].sent
              /\ tab'[t].at \in {"exchange", "profile", "reply"} =>
                   tab[t].sent[StateCookie[tab[t].prov]] = tab[t].state
  PROVE  OInv'
<1> USE DEF OInv
<1>1. TypeOK'
  BY DEF TypeOK
<1>2. HomePage.at = "home" /\ \A c \in CookieName : HomePage.sent[c] = None
  BY DEF HomePage, NoCookies
<1>3. \A t \in Tab : \A c \in CookieName :
        tab'[t].sent[c] = tab[t].sent[c] \/ tab'[t].sent[c] = None
  BY <1>2
<1>4. \A n, b, c : Belongs(n, b, c)' = Belongs(n, b, c)
  BY DEF Belongs
<1>5. JarOK'
  BY <1>4 DEF JarOK
<1>6. SentOK'
  BY <1>2, <1>4 DEF SentOK, CookieName
<1>7. ViewOK'
  BY <1>2 DEF ViewOK
<1>8. \A t \in Tab : tab'[t].at = "starting" => tab'[t] = tab[t]
  BY <1>2
<1>9. \A t \in Tab : tab'[t].at = "callback" => tab'[t] = tab[t]
  BY <1>2
<1>10. FreshOK'
  <2>1. \A t \in Tab : tab[t].at = "starting" => tab[t].state \in Nat
    BY DEF ViewOK
  <2> QED
    BY <1>3, <1>8, <2>1, OAuthAssumption DEF FreshOK
<1>11. EnteredOK' /\ StateCleared'
  BY DEF EnteredOK, StateCleared
<1>12. DueOK'
  BY <1>9 DEF DueOK
<1> QED
  BY <1>1, <1>5, <1>6, <1>7, <1>10, <1>11, <1>12

Stages == {"home", "starting", "consent", "callback", "exchange", "profile", "reply", "error"}

LEMMA Views ==
  ASSUME NEW v \in View, NEW a \in Stages
  PROVE  /\ [v EXCEPT !.at = a] \in View /\ [v EXCEPT !.at = a].at = a
         /\ [v EXCEPT !.at = a].prov = v.prov /\ [v EXCEPT !.at = a].state = v.state
         /\ [v EXCEPT !.at = a].sent = v.sent /\ [v EXCEPT !.at = a].due = v.due
  BY DEF View, Stages

LEMMA AtHome ==
  /\ HomePage \in View /\ HomePage.at = "home"
  /\ \A c \in CookieName : HomePage.sent[c] = None
<1>1. NoCookies \in [CookieName -> Nat \cup {None}] /\ \A c \in CookieName : NoCookies[c] = None
  BY DEF NoCookies
<1> QED
  BY <1>1 DEF HomePage, View

(* The handlers, and what ends a request without one.                      *)
LEMMA HandlersKeep ==
  ASSUME OInv, NEW t \in Tab, Handle(t) \/ Break(t) \/ GiveUp(t)
  PROVE  OInv'
<1> USE DEF OInv
<1>1. tab[t] \in View /\ tab[t].state \in Nat \cup {None} /\ granted \subseteq Nat
  BY DEF TypeOK, View
<1>2. UNCHANGED <<flows, jar, entered, due, secret, hostOnly, now>>
  BY DEF Handle, Check, Exchange, Complete, Break, GiveUp, config
<1>3. CASE GiveUp(t)
  <2>1. tab' = [tab EXCEPT ![t] = HomePage] /\ granted' = granted
    BY <1>3 DEF GiveUp
  <2> QED
    BY <1>2, <2>1, AtHome, TabsKeep DEF TypeOK
<1>4. CASE Handle(t) \/ Break(t)
  <2>1. PICK a \in {"exchange", "profile", "reply", "error"} :
          /\ tab' = [tab EXCEPT ![t] = [tab[t] EXCEPT !.at = a]]
          /\ a = "error" \/ tab[t].sent[StateCookie[tab[t].prov]] = tab[t].state
    BY <1>4 DEF Handle, Check, Exchange, Complete, Break, Passes, ViewOK
  <2>2. tab[t].at \in {"callback", "exchange", "profile", "reply"}
    BY <1>4 DEF Handle, Check, Exchange, Complete, Break
  <2>3. granted' \subseteq Nat
    <3>1. tab[t].state \in Nat
      BY <2>2 DEF ViewOK
    <3> QED
      BY <1>1, <1>4, <3>1 DEF Handle, Check, Exchange, Complete, Break
  <2>4. tab'[t] = [tab[t] EXCEPT !.at = a] /\ \A u \in Tab \ {t} : tab'[u] = tab[u]
    BY <2>1 DEF TypeOK
  <2>5. a \in Stages
    BY DEF Stages
  <2>6. /\ tab'[t] \in View /\ tab'[t].at = a /\ tab'[t].prov = tab[t].prov
        /\ tab'[t].state = tab[t].state /\ tab'[t].sent = tab[t].sent
    BY <1>1, <2>4, <2>5, Views
  <2>7. tab' \in [Tab -> View]
    BY <2>1, <2>4, <2>6 DEF TypeOK
  <2>8. secret' \in Nat /\ now' \in Nat
    BY <1>2 DEF TypeOK
  <2> QED
    BY <1>2, <2>1, <2>2, <2>3, <2>4, <2>6, <2>7, <2>8, TabsKeep
<1> QED
  BY <1>3, <1>4

LEMMA ClockKeeps == OInv /\ (Tick \/ Rotate \/ UNCHANGED vars) => OInv'
<1> SUFFICES ASSUME OInv, Tick \/ Rotate \/ UNCHANGED vars
             PROVE  OInv'
  OBVIOUS
<1> USE DEF OInv
<1>1. UNCHANGED <<flows, jar, granted, entered, due, hostOnly>>
  BY DEF Tick, Rotate, config, vars
<1>2. secret' \in Nat /\ now' \in Nat /\ granted' \subseteq Nat
  BY DEF Tick, Rotate, config, vars, TypeOK
<1>3. \A t \in Tab :
        \/ tab'[t] = tab[t]
        \/ tab[t].at \in {"exchange", "profile"} /\ tab'[t] = [tab[t] EXCEPT !.at = "error"]
  BY DEF Tick, Rotate, vars
<1>4. tab' \in [Tab -> View]
  <2>1. \A t \in Tab : [tab[t] EXCEPT !.at = "error"] \in View
    BY Views DEF TypeOK, Stages
  <2> QED
    BY <2>1 DEF Tick, Rotate, vars, TypeOK
<1>5. \A t \in Tab :
        /\ [tab[t] EXCEPT !.at = "error"].at = "error"
        /\ [tab[t] EXCEPT !.at = "error"].prov = tab[t].prov
        /\ [tab[t] EXCEPT !.at = "error"].state = tab[t].state
        /\ [tab[t] EXCEPT !.at = "error"].sent = tab[t].sent
  BY Views DEF TypeOK, Stages
<1> QED
  BY <1>1, <1>2, <1>3, <1>4, <1>5, TabsKeep

(* A new sign-in is nowhere yet.                                           *)
LEMMA StartKeeps ==
  ASSUME OInv, NEW t \in Tab, NEW p \in Provider, Start(t, p)
  PROVE  OInv'
<1> USE OAuthAssumption DEF OInv
<1> DEFINE n == Len(flows) + 1
           f == [prov |-> p, by |-> Home[t], key |-> secret]
           v == [HomePage EXCEPT !.at = "starting", !.prov = p, !.state = n]
<1>1. /\ flows' = Append(flows, f) /\ tab' = [tab EXCEPT ![t] = v]
      /\ UNCHANGED <<jar, granted, entered, due, secret, hostOnly, now>>
  BY DEF Start, config
<1>2. flows \in Seq(Flow) /\ f \in Flow
  BY DEF TypeOK, Flow
<1>3. /\ flows' \in Seq(Flow) /\ Len(flows') = n /\ flows'[n] = f /\ n \in Nat
      /\ \A k \in 1 .. Len(flows) : flows'[k] = flows[k] /\ k \in 1 .. Len(flows') /\ k # n
  BY <1>1, <1>2
<1>4. /\ v \in View /\ v.at = "starting" /\ v.prov = p /\ v.state = n /\ v.due = FALSE
      /\ \A c \in CookieName : v.sent[c] = None
  BY <1>3, AtHome DEF View, HomePage
<1> HIDE DEF n, f, v
<1>5. tab'[t] = v /\ \A u \in Tab \ {t} : tab'[u] = tab[u]
  BY <1>1 DEF TypeOK
<1>6. TypeOK'
  <2>1. tab' \in [Tab -> View]
    BY <1>1, <1>4, <1>5 DEF TypeOK
  <2> QED
    BY <1>1, <1>3, <2>1 DEF TypeOK
<1>7. \A k, b, c : Belongs(k, b, c) => Belongs(k, b, c)' /\ k # n
  BY <1>3 DEF Belongs
<1>8. JarOK'
  BY <1>1, <1>7 DEF JarOK
<1>9. SentOK'
  BY <1>4, <1>5, <1>7 DEF SentOK, CookieName
<1>10. ViewOK'
  <2>1. f.prov = p /\ f.by = Home[t] /\ n \in 1 .. Len(flows')
    BY <1>3 DEF f, n
  <2> QED
    BY <1>3, <1>4, <1>5, <2>1 DEF ViewOK
<1>11. EnteredOK'
  BY <1>1, <1>3 DEF EnteredOK
<1>12. FreshOK'
  <2> SUFFICES ASSUME NEW u \in Tab, tab'[u].at = "starting"
               PROVE  /\ \A b \in Browser : tab'[u].state \notin entered[b]
                      /\ \A b \in Browser : \A c \in CookieName :
                           jar[b][c] # None => jar[b][c].val # tab'[u].state
                      /\ \A x \in Tab : \A c \in CookieName : tab'[x].sent[c] # tab'[u].state
                      /\ \A x \in Tab : x # u /\ tab'[x].at = "starting" =>
                           tab'[x].state # tab'[u].state
    BY <1>1 DEF FreshOK
  <2>1. CASE u = t
    <3>1. tab'[u].state = n
      BY <1>4, <1>5, <2>1
    <3>2. \A x \in Tab \ {t} : tab[x].at # "home" => tab[x].state # n
      BY <1>3 DEF ViewOK
    <3>3. \A x \in Tab : \A c \in CookieName : tab'[x].sent[c] # n
      BY <1>3, <1>4, <1>5, <1>7 DEF SentOK
    <3> QED
      BY <1>3, <1>5, <1>7, <2>1, <3>1, <3>2, <3>3 DEF EnteredOK, JarOK
  <2>2. CASE u # t
    <3>1. tab'[u] = tab[u] /\ tab[u].state \in 1 .. Len(flows)
      BY <1>5, <2>2 DEF ViewOK
    <3> QED
      BY <1>3, <1>4, <1>5, <2>2, <3>1 DEF FreshOK
  <2> QED
    BY <2>1, <2>2
<1>13. DueOK' /\ StateCleared'
  BY <1>1, <1>4, <1>5 DEF DueOK, StateCleared
<1> QED
  BY <1>6, <1>8, <1>9, <1>10, <1>11, <1>12, <1>13

(* What a browser sends is what it has, unless that has expired.           *)
LEMMA SentIsHeld ==
  ASSUME OInv, NEW b \in Browser
  PROVE  /\ Sent(b) \in [CookieName -> Nat \cup {None}]
         /\ Sent(b)["oauth_state_tw"] = Sent(b)["oauth_tw_pkce"]
         /\ \A c \in CookieName : Sent(b)[c] # None =>
              jar[b][c] # None /\ Sent(b)[c] = jar[b][c].val /\ Belongs(Sent(b)[c], b, c)
         /\ \A p \in Provider : \A n : Due(b, p, n) => Sent(b)[StateCookie[p]] = n
<1> USE OAuthAssumption DEF OInv
<1>1. \A c \in CookieName : jar[b][c] \in Cookie \cup {None}
  BY DEF TypeOK
<1>2. \A c \in CookieName :
        Sent(b)[c] = IF jar[b][c] # None /\ jar[b][c].until > now THEN jar[b][c].val ELSE None
  BY DEF Sent
<1>3. Sent(b) \in [CookieName -> Nat \cup {None}]
  BY <1>1 DEF Sent, Cookie
<1>4. Sent(b)["oauth_state_tw"] = Sent(b)["oauth_tw_pkce"]
  BY <1>2 DEF CookieName, JarOK
<1>5. \A c \in CookieName : Sent(b)[c] # None =>
        jar[b][c] # None /\ Sent(b)[c] = jar[b][c].val /\ Belongs(Sent(b)[c], b, c)
  BY <1>2 DEF JarOK
<1>6. ASSUME NEW p \in Provider, NEW n, Due(b, p, n)
      PROVE  Sent(b)[StateCookie[p]] = n
  BY <1>2, <1>6, Names DEF Due, DueOK
<1> QED
  BY <1>3, <1>4, <1>5, <1>6

LEMMA RequestKeeps ==
  ASSUME OInv, NEW t \in Tab, NEW url \in View, NEW ok \in BOOLEAN,
         url.prov \in Provider, url.state \in 1 .. Len(flows), flows[url.state].prov = url.prov,
         tab' = [tab EXCEPT ![t] = Request(t, url, ok)],
         UNCHANGED <<flows, jar, granted, entered, due, config, now>>
  PROVE  OInv'
<1> USE OAuthAssumption DEF OInv, config
<1> DEFINE b == Home[t]
           v == Request(t, url, ok)
<1>1. b \in Browser
  OBVIOUS
<1>2. /\ v \in View /\ v.at = "callback" /\ v.prov = url.prov /\ v.state = url.state
      /\ v.sent = Sent(b) /\ v.due = Due(b, url.prov, url.state)
  <2>1. Due(b, url.prov, url.state) \in BOOLEAN
    BY DEF Due
  <2> QED
    BY <1>1, <2>1, SentIsHeld DEF Request, View
<1> HIDE DEF b, v
<1>3. tab'[t] = v /\ \A u \in Tab \ {t} : tab'[u] = tab[u]
  BY DEF TypeOK, v
<1>4. tab' \in [Tab -> View]
  BY <1>2 DEF TypeOK, v
<1>5. TypeOK'
  BY <1>4 DEF TypeOK
<1>6. \A k, x, c : Belongs(k, x, c)' = Belongs(k, x, c)
  BY DEF Belongs
<1>7. JarOK'
  BY <1>6 DEF JarOK
<1>8. SentOK'
  <2>1. Home[t] = b
    BY DEF b
  <2> QED
    BY <1>1, <1>2, <1>3, <1>6, <2>1, SentIsHeld DEF SentOK
<1>9. ViewOK'
  BY <1>2, <1>3 DEF ViewOK
<1>10. FreshOK'
  <2>1. \A u \in Tab : tab'[u].at = "starting" => tab'[u] = tab[u] /\ u # t
    BY <1>2, <1>3
  <2>2. \A u \in Tab : tab[u].at = "starting" => tab[u].state \in Nat
    BY DEF ViewOK
  <2>3. \A u \in Tab : tab[u].at = "starting" =>
          \A c \in CookieName : v.sent[c] # tab[u].state
    BY <1>1, <1>2, <2>2, SentIsHeld DEF FreshOK
  <2> QED
    BY <1>2, <1>3, <2>1, <2>3 DEF FreshOK
<1>11. EnteredOK' /\ StateCleared'
  BY DEF EnteredOK, StateCleared
<1>12. DueOK'
  BY <1>1, <1>2, <1>3, SentIsHeld DEF DueOK
<1> QED
  BY <1>5, <1>7, <1>8, <1>9, <1>10, <1>11, <1>12

(* State and verifier of the started sign-in replace what the jar had.     *)
LEMMA LeaveKeeps ==
  ASSUME OInv, NEW t \in Tab, Leave(t)
  PROVE  OInv'
<1> USE OAuthAssumption DEF OInv
<1> DEFINE b == Home[t]
           p == tab[t].prov
           n == tab[t].state
           k == [val |-> n, until |-> now + CookieTTL]
<1>1. /\ tab[t].at = "starting" /\ p \in Provider /\ n \in 1 .. Len(flows)
      /\ flows[n].prov = p /\ flows[n].by = b /\ b \in Browser
  BY DEF Leave, ViewOK
<1>2. /\ jar' = [jar EXCEPT ![b] =
                  [c \in CookieName |-> IF c \in StartCookies(p) THEN k ELSE jar[b][c]]]
      /\ due' = [due EXCEPT ![b][p] = k]
      /\ tab' = [tab EXCEPT ![t] = [tab[t] EXCEPT !.at = "consent"]]
      /\ UNCHANGED <<flows, granted, entered, secret, hostOnly, now>>
  BY DEF Leave, config
<1>3. k \in Cookie /\ k.val = n
  BY <1>1 DEF TypeOK, Cookie
<1>4. \A x \in Browser, c \in CookieName :
        jar'[x][c] = IF x = b /\ c \in StartCookies(p) THEN k ELSE jar[x][c]
  BY <1>2 DEF TypeOK
<1>5. \A x \in Browser, y \in Provider :
        due'[x][y] = IF x = b /\ y = p THEN k ELSE due[x][y]
  BY <1>2 DEF TypeOK
<1>6. /\ tab'[t] \in View /\ tab'[t].at = "consent" /\ tab'[t].prov = p /\ tab'[t].state = n
      /\ tab'[t].sent = tab[t].sent
      /\ \A u \in Tab \ {t} : tab'[u] = tab[u]
  <2>1. tab'[t] = [tab[t] EXCEPT !.at = "consent"] /\ \A u \in Tab \ {t} : tab'[u] = tab[u]
    BY <1>2 DEF TypeOK
  <2>2. tab[t] \in View /\ "consent" \in Stages
    BY DEF TypeOK, Stages
  <2> QED
    BY <2>1, <2>2, Views
<1> HIDE DEF b, p, n, k
<1>7. TypeOK'
  <2>1. jar' \in [Browser -> [CookieName -> Cookie \cup {None}]]
    BY <1>1, <1>2, <1>3 DEF TypeOK
  <2>2. due' \in [Browser -> [Provider -> Cookie \cup {None}]]
    BY <1>1, <1>2, <1>3 DEF TypeOK
  <2>3. tab' \in [Tab -> View]
    BY <1>2, <1>6 DEF TypeOK
  <2> QED
    BY <1>2, <2>1, <2>2, <2>3 DEF TypeOK
<1>8. \A m, x, c : Belongs(m, x, c)' = Belongs(m, x, c)
  BY <1>2 DEF Belongs
<1>9. JarOK'
  <2>1. \A x \in Browser : jar'[x]["oauth_state_tw"] = jar'[x]["oauth_tw_pkce"]
    BY <1>1, <1>4, Names DEF JarOK, CookieName, Provider
  <2>2. \A c \in CookieName : c \in StartCookies(p) => Belongs(n, b, c)
    BY <1>1 DEF Belongs
  <2> QED
    BY <1>3, <1>4, <1>8, <2>1, <2>2 DEF JarOK
<1>10. SentOK'
  BY <1>6, <1>8 DEF SentOK
<1>11. ViewOK'
  BY <1>1, <1>2, <1>6 DEF ViewOK
<1>12. FreshOK'
  <2>1. \A u \in Tab : tab'[u].at = "starting" =>
          u # t /\ tab'[u] = tab[u] /\ tab[u].state # n
    BY <1>1, <1>6 DEF FreshOK, n
  <2> QED
    BY <1>2, <1>3, <1>4, <1>6, <2>1 DEF FreshOK
<1>13. EnteredOK'
  BY <1>2 DEF EnteredOK
<1>14. DueOK'
  <2>1. \A y \in Provider : y # p => StateCookie[y] \notin StartCookies(p)
    BY <1>1, Names DEF Provider
  <2>2. \A x \in Browser, y \in Provider : due'[x][y] # None =>
          jar'[x][StateCookie[y]] = due'[x][y]
    BY <1>1, <1>4, <1>5, <2>1, Names DEF DueOK
  <2> QED
    BY <1>6, <2>2 DEF DueOK
<1>15. StateCleared'
  <2>1. \A x \in Browser : n \notin entered[x]
    BY <1>1 DEF FreshOK, n
  <2> QED
    BY <1>2, <1>3, <1>4, <2>1 DEF StateCleared
<1> QED
  BY <1>7, <1>9, <1>10, <1>11, <1>12, <1>13, <1>14, <1>15

(* A browser is signed in by a sign-in of its own, whose cookies go.       *)
LEMMA ArriveKeeps ==
  ASSUME OInv, NEW t \in Tab, Arrive(t)
  PROVE  OInv'
<1> USE OAuthAssumption DEF OInv
<1> DEFINE b == Home[t]
           p == tab[t].prov
           n == tab[t].state
<1>1. /\ tab[t].at = "reply" /\ p \in Provider /\ n \in 1 .. Len(flows) /\ flows[n].prov = p
      /\ tab[t].sent[StateCookie[p]] = n /\ b \in Browser
  BY DEF Arrive, ViewOK
<1>2. /\ entered' = [entered EXCEPT ![b] = @ \cup {n}]
      /\ jar' = [jar EXCEPT ![b] = [c \in CookieName |->
                  IF c \in StartCookies(p) /\ hostOnly THEN None ELSE jar[b][c]]]
      /\ tab' = [tab EXCEPT ![t] = HomePage]
      /\ due' = [due EXCEPT ![b][p] = None]
      /\ UNCHANGED <<flows, granted, secret, hostOnly, now>>
  BY DEF Arrive, config
<1>3. flows[n].by = b
  BY <1>1, Names DEF SentOK, Belongs
<1>4. \A x \in Browser, c \in CookieName :
        jar'[x][c] = IF x = b /\ c \in StartCookies(p) /\ hostOnly THEN None ELSE jar[x][c]
  BY <1>2 DEF TypeOK
<1>5. \A x \in Browser, y \in Provider :
        due'[x][y] = IF x = b /\ y = p THEN None ELSE due[x][y]
  BY <1>2 DEF TypeOK
<1>6. \A x \in Browser : entered'[x] = IF x = b THEN entered[x] \cup {n} ELSE entered[x]
  BY <1>2 DEF TypeOK
<1>7. tab'[t] = HomePage /\ \A u \in Tab \ {t} : tab'[u] = tab[u]
  BY <1>2 DEF TypeOK
<1>8. \A u \in Tab : tab[u].at = "starting" => tab[u].state # n
  BY <1>1, Names DEF FreshOK
<1> HIDE DEF b, p, n
<1>9. TypeOK'
  <2>1. jar' \in [Browser -> [CookieName -> Cookie \cup {None}]]
    BY <1>1, <1>2 DEF TypeOK
  <2>2. due' \in [Browser -> [Provider -> Cookie \cup {None}]]
    BY <1>1, <1>2 DEF TypeOK
  <2>3. entered' \in [Browser -> SUBSET Nat]
    BY <1>1, <1>2 DEF TypeOK
  <2>4. tab' \in [Tab -> View]
    BY <1>2, AtHome DEF TypeOK
  <2> QED
    BY <1>2, <2>1, <2>2, <2>3, <2>4 DEF TypeOK
<1>10. \A m, x, c : Belongs(m, x, c)' = Belongs(m, x, c)
  BY <1>2 DEF Belongs
<1>11. JarOK'
  <2>1. \A x \in Browser : jar'[x]["oauth_state_tw"] = jar'[x]["oauth_tw_pkce"]
    BY <1>1, <1>4, Names DEF JarOK, CookieName, Provider
  <2> QED
    BY <1>4, <1>10, <2>1 DEF JarOK
<1>12. SentOK'
  BY <1>7, <1>10, AtHome DEF SentOK, CookieName
<1>13. ViewOK'
  BY <1>2, <1>7, AtHome DEF ViewOK
<1>14. FreshOK'
  <2>1. \A u \in Tab : tab'[u].at = "starting" => u # t /\ tab'[u] = tab[u]
    BY <1>7, AtHome
  <2>2. \A u \in Tab : tab[u].at = "starting" => tab[u].state # None
    BY DEF ViewOK
  <2> SUFFICES ASSUME NEW u \in Tab \ {t}, tab[u].at = "starting"
               PROVE  /\ \A x \in Browser : tab[u].state \notin entered'[x]
                      /\ \A x \in Browser : \A c \in CookieName :
                           jar'[x][c] # None => jar'[x][c].val # tab[u].state
                      /\ \A x \in Tab : \A c \in CookieName : tab'[x].sent[c] # tab[u].state
                      /\ \A x \in Tab : x # u /\ tab'[x].at = "starting" =>
                           tab'[x].state # tab[u].state
    BY <2>1 DEF FreshOK
  <2>3. \A x \in Browser : tab[u].state \notin entered'[x]
    BY <1>6, <1>8 DEF FreshOK
  <2>4. \A x \in Browser : \A c \in CookieName :
          jar'[x][c] # None => jar'[x][c].val # tab[u].state
    BY <1>4 DEF FreshOK
  <2>5. \A x \in Tab : \A c \in CookieName : tab'[x].sent[c] # tab[u].state
    <3>1. \A c \in CookieName : tab'[t].sent[c] # tab[u].state
      BY <1>7, <2>2, AtHome
    <3> QED
      BY <1>7, <3>1 DEF FreshOK
  <2>6. \A x \in Tab : x # u /\ tab'[x].at = "starting" => tab'[x].state # tab[u].state
    BY <2>1 DEF FreshOK
  <2> QED
    BY <2>3, <2>4, <2>5, <2>6
<1>15. EnteredOK'
  BY <1>1, <1>2, <1>3, <1>6 DEF EnteredOK
<1>16. DueOK'
  <2>1. \A y \in Provider : y # p => StateCookie[y] \notin StartCookies(p)
    BY <1>1, Names DEF Provider
  <2>2. \A x \in Browser, y \in Provider : due'[x][y] # None =>
          jar'[x][StateCookie[y]] = due'[x][y]
    BY <1>1, <1>4, <1>5, <2>1, Names DEF DueOK
  <2> QED
    BY <1>7, <2>2, AtHome DEF DueOK
<1>17. StateCleared'
  <2> SUFFICES ASSUME hostOnly, NEW x \in Browser, NEW c \in CookieName, jar'[x][c] # None
               PROVE  jar'[x][c].val \notin entered'[x]
    BY <1>2 DEF StateCleared
  <2>1. jar'[x][c] = jar[x][c] /\ ~(x = b /\ c \in StartCookies(p))
    BY <1>4
  <2>2. jar[x][c].val = n /\ x = b => c \in StartCookies(p)
    BY <1>1, <2>1 DEF JarOK, Belongs
  <2> QED
    BY <1>6, <2>1, <2>2 DEF StateCleared
<1> QED
  BY <1>9, <1>11, <1>12, <1>13, <1>14, <1>15, <1>16, <1>17

LEMMA StepKeeps == OInv /\ [Next]_vars => OInv'
<1> SUFFICES ASSUME OInv, [Next]_vars
             PROVE  OInv'
  OBVIOUS
<1>1. ASSUME NEW t \in Tab, NEW ok \in BOOLEAN, Return(t, ok)
      PROVE  OInv'
  <2>1. tab[t] \in View
    BY DEF OInv, TypeOK
  <2>2. /\ tab[t].prov \in Provider /\ tab[t].state \in 1 .. Len(flows)
        /\ flows[tab[t].state].prov = tab[t].prov
    BY <1>1 DEF Return, OInv, ViewOK
  <2>3. /\ tab' = [tab EXCEPT ![t] = Request(t, tab[t], ok)]
        /\ UNCHANGED <<flows, jar, granted, entered, due, config, now>>
    BY <1>1 DEF Return
  <2> QED
    BY <2>1, <2>2, <2>3, RequestKeeps
<1>2. ASSUME NEW t \in Tab, NEW u \in Tab, Reopen(t, u)
      PROVE  OInv'
  <2>1. tab[u] \in View /\ tab[u].code \in BOOLEAN
    BY DEF OInv, TypeOK, View
  <2>2. /\ tab[u].prov \in Provider /\ tab[u].state \in 1 .. Len(flows)
        /\ flows[tab[u].state].prov = tab[u].prov
    BY <1>2 DEF Reopen, OInv, ViewOK
  <2>3. /\ tab' = [tab EXCEPT ![t] = Request(t, tab[u], tab[u].code)]
        /\ UNCHANGED <<flows, jar, granted, entered, due, config, now>>
    BY <1>2 DEF Reopen
  <2> QED
    BY <2>1, <2>2, <2>3, RequestKeeps
<1>3. ASSUME NEW t \in Tab, Surf(t) \/ Handle(t)
      PROVE  OInv'
  BY <1>1, <1>2, <1>3, StartKeeps, LeaveKeeps, ArriveKeeps, HandlersKeep DEF Surf
<1> QED
  BY <1>3, ClockKeeps DEF Next

THEOREM Invariance == Spec => []OInv
  BY Initially, StepKeeps, PTL DEF Spec
-----------------------------------------------------------------------------
(* Every variable of the start routes, jars and callbacks keeps its type.  *)
THEOREM WellTyped == Spec => []TypeOK
<1>1. OInv => TypeOK
  BY DEF OInv
<1> QED
  BY <1>1, Invariance, PTL

(* A browser is signed in only by a sign-in it has started                 *)
(* (oauth_google_callback, oauth_twitter_callback): the cookie with the    *)
(* state is its own.                                                       *)
THEOREM OwnSignIns == Spec => []OwnSignInOnly
<1>1. OInv => OwnSignInOnly
  BY DEF OInv, EnteredOK, OwnSignInOnly
<1> QED
  BY <1>1, Invariance, PTL

(* A code goes to Twitter with its own verifier (oauth_twitter_callback):  *)
(* the two cookies came together.                                          *)
THEOREM VerifiersFit == Spec => []VerifierFits
<1>1. OInv => VerifierFits
  BY Names DEF OInv, ViewOK, SentOK, VerifierFits, PkceCookie
<1> QED
  BY <1>1, Invariance, PTL

(* The sign-in started last gets past the guard of its callback            *)
(* (oauth_google_callback, oauth_twitter_callback).                        *)
THEOREM LastStartWorks == Spec => []LastStartedPasses
<1>1. OInv => LastStartedPasses
  <2> SUFFICES ASSUME OInv, NEW t \in Tab, tab[t].at = "callback", tab[t].code, tab[t].due,
                      Verifies(tab[t].state)
               PROVE  Passes(tab[t])
    BY DEF LastStartedPasses
  <2>1. /\ tab[t].prov \in Provider /\ tab[t].state # None
        /\ tab[t].sent[StateCookie[tab[t].prov]] = tab[t].state
    BY OAuthAssumption DEF OInv, ViewOK, DueOK
  <2>2. tab[t].prov = "twitter" => tab[t].sent[PkceCookie] # None
    BY <2>1, Names DEF OInv, SentOK, PkceCookie
  <2> QED
    BY <2>1, <2>2 DEF Passes
<1> QED
  BY <1>1, Invariance, PTL

(* Without COOKIE_DOMAIN, whoever is signed in no longer holds the state   *)
(* or the verifier that was used ("clear state cookie").                   *)
THEOREM UsedStateGoes == Spec => []StateCleared
<1>1. OInv => StateCleared
  BY DEF OInv
<1> QED
  BY <1>1, Invariance, PTL
=============================================================================
