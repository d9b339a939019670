--------------------------- MODULE BrowsingProofs ---------------------------
(***************************************************************************)
(* Proofs about Browsing, for any number of sessions and tokens: a cookie  *)
(* that opens nothing never opens anything again, which is what the        *)
(* contract of the session store promises, and so neither guard nor        *)
(* handler lets its request through; and who is logged out stays out.      *)
(***************************************************************************)
EXTENDS Browsing, TLAPS

(* Cookies in circulation carry tokens that have been stored ...           *)
Known(c) == c # None => c.cred \in used /\ phase[c.sid] # "absent"

KnownOK == Known(cookie) /\ Known(tab.cookie) /\ \A c \in onway : Known(c)

(* ... and the session of a revoked one is closed for good.                *)
Gone(c) == c = None \/ phase[c.sid] = "closed"

FlowOK ==
  /\ tab.at = "opened" => tab.sid \in Session
  /\ tab.clear => tab.at = "reply" /\ tab.goto /\ tab.name = "/login" /\ tab.cookie = None

(* How far a request gets whose cookie opened nothing.                     *)
DeadOK ==
  tab.dead =>
    /\ tab.at = "sent" => ~Opens(tab.cookie)
    /\ tab.at = "handler" => \/ tab.name \in Public \cup {"/logout", "error"}
                             \/ tab.name = "/products/delete" /\ ~Opens(tab.cookie)
    /\ tab.at # "write"
    /\ tab.at \in {"page", "reply"} /\ ~tab.goto => tab.name \notin Pages

(* A logout under way: the cookie it names is the one of the browser.      *)
LoggingOut ==
  /\ tab.at \in {"sent", "handler"} /\ tab.name = "/logout" /\ tab.post
  /\ cookie \in {None, tab.cookie}

(* After it: no request gets past the guard to a protected page.           *)
LoggedOut ==
  /\ Gone(cookie)
  /\ tab.at = "sent" => Gone(tab.cookie)
  /\ tab.at = "handler" => tab.name \notin Protected
  /\ tab.at # "write"
  /\ tab.at = "page" \/ (tab.at = "reply" /\ ~tab.goto) => tab.name \notin Pages

OutOK == tab.out => LoggingOut \/ LoggedOut

BInv == TypeOK /\ KnownOK /\ FlowOK /\ DeadOK /\ OutOK
-----------------------------------------------------------------------------
(* Requests and answers.                                                   *)

LEMMA ShownFields ==
  ASSUME NEW name \in Path \cup {"error"}
  PROVE  /\ Shown(name) \in View /\ Shown(name).name = name /\ Shown(name).at = "page"
         /\ Shown(name).cookie = None /\ ~Shown(name).dead /\ ~Shown(name).out
         /\ ~Shown(name).clear /\ ~Shown(name).goto /\ ~Shown(name).post
  BY DEF Shown, View

LEMMA RequestFields ==
  ASSUME NEW name \in Path \cup {"error"}, NEW c \in Cookie \cup {None}
  PROVE  /\ Request(name, c) \in View /\ Request(name, c).name = name
         /\ Request(name, c).at = "sent" /\ Request(name, c).cookie = c
         /\ Request(name, c).dead <=> ~Opens(c)
         /\ ~Request(name, c).out /\ ~Request(name, c).clear
         /\ ~Request(name, c).goto /\ ~Request(name, c).post
<1>1. Usable(c) <=> Opens(c)
  BY DEF Usable, Opens
<1>2. Usable(c) \in BOOLEAN
  BY DEF Usable
<1> QED
  BY <1>1, <1>2 DEF Request, Shown, View

LEMMA RedirectFields ==
  ASSUME NEW q \in View, NEW name \in Path \cup {"error"}
  PROVE  /\ Redirect(q, name) \in View /\ Redirect(q, name).name = name
         /\ Redirect(q, name).at = "reply" /\ Redirect(q, name).goto
         /\ ~Redirect(q, name).post /\ Redirect(q, name).cookie = None
         /\ Redirect(q, name).dead = q.dead /\ Redirect(q, name).out = q.out
         /\ Redirect(q, name).clear = q.clear
  BY DEF Redirect, View

LEMMA PageFields ==
  ASSUME NEW q \in View, NEW name \in Path \cup {"error"}, NEW token \in {"valid", "stale", None}
  PROVE  /\ Page(q, name, token) \in View /\ Page(q, name, token).name = name
         /\ Page(q, name, token).at = "reply" /\ Page(q, name, token).goto = q.goto
         /\ ~Page(q, name, token).post /\ Page(q, name, token).cookie = None
         /\ Page(q, name, token).dead = q.dead /\ Page(q, name, token).out = q.out
         /\ Page(q, name, token).clear = q.clear
  BY DEF Page, View

LEMMA RefusalFields ==
  ASSUME NEW q \in View
  PROVE  /\ Refusal(q) \in View /\ Refusal(q).name = "error"
         /\ Refusal(q).at = "reply" /\ Refusal(q).goto = q.goto /\ Refusal(q).cookie = None
         /\ Refusal(q).dead = q.dead /\ Refusal(q).out = q.out /\ Refusal(q).clear = q.clear
<1>1. Page(q, "error", None) \in View
  BY PageFields
<1> QED
  BY <1>1 DEF Refusal, Page, View

LEMMA Initially == Init => BInv
<1> SUFFICES ASSUME Init
             PROVE  BInv
  OBVIOUS
<1>1. /\ ErrorPage \in View /\ ErrorPage.name = "error" /\ ErrorPage.at = "page"
      /\ ErrorPage.cookie = None /\ ~ErrorPage.dead /\ ~ErrorPage.out /\ ~ErrorPage.clear
  BY ShownFields DEF ErrorPage
<1>2. TypeOK
  BY <1>1 DEF Init, Store!Init, TypeOK
<1>3. KnownOK /\ FlowOK /\ DeadOK /\ OutOK
  BY <1>1 DEF Init, KnownOK, Known, FlowOK, DeadOK, OutOK
<1> QED
  BY <1>2, <1>3 DEF BInv
-----------------------------------------------------------------------------
(* The store changes as its contract says: what is known stays known, what *)
(* is gone stays gone, and a known cookie that opens nothing never does.   *)
Grows ==
  /\ \A c \in Cookie \cup {None} :
       /\ Known(c) => Known(c)'
       /\ Gone(c) => Gone(c)'
       /\ Known(c) /\ ~Opens(c) => ~Opens(c)'
  /\ phase' \in [Session -> {"absent", "open", "closed"}]
  /\ cred' \in [Session -> Credential \cup {None}]
  /\ used' \subseteq Credential /\ expired' \subseteq Session

LEMMA Still ==
  ASSUME TypeOK, UNCHANGED store
  PROVE  Grows
  BY DEF TypeOK, Grows, Known, Gone, Opens, Store!Admits, store, Cookie

LEMMA OpenGrows ==
  ASSUME TypeOK, NEW s \in Session, Store!Open(s), expired' = expired
  PROVE  Grows
  BY DEF TypeOK, Grows, Known, Gone, Opens, Store!Admits, Store!Open, Cookie

LEMMA InstallGrows ==
  ASSUME TypeOK, NEW s \in Session, NEW c, Install(s, c), expired' \in {expired, expired \ {s}}
  PROVE  /\ Grows /\ cred'[s] = c /\ c \in Credential \ used /\ c \in used'
         /\ phase'[s] # "absent"
<1>1. /\ cred' = [cred EXCEPT ![s] = c] /\ used' = used \cup {cred'[s]} /\ phase' = phase
      /\ phase[s] # "absent" /\ cred'[s] \in Credential \ used
  BY DEF Install, Store!Install
<1>2. cred'[s] = c
  BY <1>1 DEF TypeOK
<1>3. \A d \in Cookie \cup {None} : Known(d) /\ ~Opens(d) => ~Opens(d)'
  BY <1>1, <1>2 DEF TypeOK, Known, Opens, Store!Admits, Cookie
<1>4. \A d \in Cookie \cup {None} : (Known(d) => Known(d)') /\ (Gone(d) => Gone(d)')
  BY <1>1 DEF Known, Gone
<1> QED
  BY <1>1, <1>2, <1>3, <1>4 DEF Grows, TypeOK

LEMMA CloseGrows ==
  ASSUME TypeOK, NEW S \in SUBSET Session, Store!Close(S), expired' = expired
  PROVE  Grows /\ \A s \in S : phase'[s] = "closed"
  BY DEF TypeOK, Grows, Known, Gone, Opens, Store!Admits, Store!Close, Cookie

LEMMA ExpireGrows ==
  ASSUME TypeOK, NEW s \in Session, Expire(s)
  PROVE  Grows
  BY DEF TypeOK, Grows, Known, Gone, Opens, Store!Admits, Expire, Cookie
-----------------------------------------------------------------------------
(* Elsewhere.                                                              *)

LEMMA AwayKeeps ==
  ASSUME BInv, Grows, onway' \subseteq Cookie, \A c \in onway' : Known(c)',
         UNCHANGED <<cookie, tab>>
  PROVE  BInv'
<1> USE DEF BInv
<1>1. cookie \in Cookie \cup {None} /\ tab.cookie \in Cookie \cup {None}
  BY DEF TypeOK, View
<1>2. TypeOK'
  BY DEF TypeOK, Grows
<1>3. KnownOK'
  BY <1>1 DEF KnownOK, Grows
<1>4. FlowOK'
  BY DEF FlowOK
<1>5. DeadOK'
  BY <1>1 DEF DeadOK, Grows, KnownOK
<1>6. OutOK'
  BY <1>1 DEF OutOK, LoggingOut, LoggedOut, Grows
<1> QED
  BY <1>2, <1>3, <1>4, <1>5, <1>6

(* The tab: what has to be seen of a step that leaves cookies and their    *)
(* sessions alone.                                                         *)
LEMMA TabKeeps ==
  ASSUME BInv, Grows, UNCHANGED <<onway, cookie>>, tab' \in View,
         Known(tab.cookie)', FlowOK', DeadOK', OutOK'
  PROVE  BInv'
<1> USE DEF BInv
<1>1. TypeOK'
  BY DEF TypeOK, Grows
<1>2. KnownOK'
  BY DEF KnownOK, Grows, TypeOK
<1> QED
  BY <1>1, <1>2

LEMMA AnswerKeeps ==
  ASSUME BInv, NEW q \in View, Answer(q), q.cookie = None, q.at \in {"reply", "page"}, ~q.clear,
         q.dead /\ ~q.goto => q.name \notin Pages,
         q.out => Gone(cookie) /\ (q.at = "page" \/ ~q.goto => q.name \notin Pages)
  PROVE  BInv'
<1>1. tab' = q /\ UNCHANGED <<store, onway, cookie>>
  BY DEF Answer
<1>2. Grows
  BY <1>1, Still DEF BInv
<1>3. Known(tab.cookie)'
  BY <1>1 DEF Known
<1>4. FlowOK' /\ DeadOK'
  BY <1>1 DEF FlowOK, DeadOK
<1>5. OutOK'
  BY <1>1 DEF OutOK, LoggedOut, Gone, store
<1> QED
  BY <1>1, <1>2, <1>3, <1>4, <1>5, TabKeeps

LEMMA NoAnswerKeeps ==
  ASSUME BInv, Answer(NoAnswer)
  PROVE  BInv'
<1>1. /\ ErrorPage \in View /\ ErrorPage.name = "error" /\ ErrorPage.at = "page"
      /\ ErrorPage.cookie = None /\ ~ErrorPage.dead /\ ~ErrorPage.clear
  BY ShownFields DEF ErrorPage
<1>2. /\ NoAnswer \in View /\ NoAnswer.name = "error" /\ NoAnswer.at = "page"
      /\ NoAnswer.cookie = None /\ ~NoAnswer.dead /\ ~NoAnswer.clear
      /\ NoAnswer.out => tab.out /\ tab.name # "/logout"
  BY <1>1 DEF NoAnswer, View, BInv, TypeOK
<1>3. NoAnswer.out => Gone(cookie)
  BY <1>2 DEF BInv, OutOK, LoggingOut, LoggedOut
<1>4. "error" \notin Pages
  BY DEF Pages
<1> QED
  BY <1>2, <1>3, <1>4, AnswerKeeps

(* s is closed, expires or gets another token: cookies that name it open   *)
(* nothing any more.                                                       *)
LEMMA MeanwhileKeeps ==
  ASSUME BInv, Grows, onway' \subseteq Cookie, \A c \in onway' : Known(c)',
         NEW s \in Session, tab' = Meanwhile(tab, s), UNCHANGED cookie,
         \A c \in Cookie : Known(c) /\ c.sid = s => ~Opens(c)'
  PROVE  BInv'
<1> USE DEF BInv
<1>1. cookie \in Cookie \cup {None} /\ tab.cookie \in Cookie \cup {None} /\ tab \in View
  BY DEF TypeOK, View
<1> DEFINE now == /\ tab.cookie # None /\ tab.cookie.sid = s
                  /\ tab.at = "sent" \/ (tab.at = "handler" /\ tab.name = "/products/delete")
<1>2. tab' = [tab EXCEPT !.dead = tab.dead \/ now]
  BY DEF Meanwhile
<1>3. /\ tab' \in View /\ tab'.at = tab.at /\ tab'.name = tab.name /\ tab'.post = tab.post
      /\ tab'.goto = tab.goto /\ tab'.clear = tab.clear /\ tab'.cookie = tab.cookie
      /\ tab'.sid = tab.sid /\ tab'.out = tab.out /\ tab'.dead = (tab.dead \/ now)
  BY <1>1, <1>2 DEF View
<1>4. now => ~Opens(tab.cookie)'
  BY <1>1, <1>3 DEF KnownOK, Opens
<1>5. TypeOK'
  BY <1>1, <1>3 DEF TypeOK, Grows
<1>6. KnownOK'
  BY <1>1, <1>3 DEF KnownOK, Grows, Known
<1>7. FlowOK'
  BY <1>3 DEF FlowOK
<1>8. ASSUME tab.dead
      PROVE  DeadOK'
  <2>1. ~Opens(tab.cookie) => ~Opens(tab.cookie)'
    BY <1>1, <1>3 DEF Grows, KnownOK, Opens
  <2>2. tab.at = "handler" => \/ tab.name \in Public \cup {"/logout", "error"}
                              \/ tab.name = "/products/delete" /\ ~Opens(tab.cookie)
    BY <1>8 DEF DeadOK
  <2>3. /\ tab.at = "sent" => ~Opens(tab.cookie)
        /\ tab.at # "write"
        /\ tab.at \in {"page", "reply"} /\ ~tab.goto => tab.name \notin Pages
    BY <1>8 DEF DeadOK
  <2> QED
    BY <1>3, <2>1, <2>2, <2>3 DEF DeadOK
<1>9. DeadOK'
  <2>1. CASE now /\ ~tab.dead
    BY <1>3, <1>4, <2>1 DEF DeadOK
  <2> QED
    BY <1>3, <1>8, <2>1 DEF DeadOK
<1>10. OutOK'
  <2>1. (Gone(cookie) => Gone(cookie)') /\ (Gone(tab.cookie) => Gone(tab.cookie)')
    BY <1>1, <1>3 DEF Grows, Gone
  <2> QED
    BY <1>3, <2>1 DEF OutOK, LoggingOut, LoggedOut
<1> QED
  BY <1>5, <1>6, <1>7, <1>9, <1>10

LEMMA ElsewhereKeeps == BInv /\ Elsewhere => BInv'
<1> SUFFICES ASSUME BInv, Elsewhere
             PROVE  BInv'
  OBVIOUS
<1> USE DEF BInv
<1>1. CASE OpenElsewhere
  <2>1. Grows
    BY <1>1, OpenGrows DEF OpenElsewhere
  <2>2. UNCHANGED <<onway, cookie, tab>>
    BY <1>1 DEF OpenElsewhere
  <2> QED
    BY <2>1, <2>2, AwayKeeps DEF TypeOK, KnownOK, Grows
<1>2. ASSUME NEW s \in Session, CloseElsewhere(s) \/ Expire(s)
      PROVE  BInv'
  <2>1. Grows /\ (phase'[s] = "closed" \/ s \in expired')
    BY <1>2, CloseGrows, ExpireGrows DEF CloseElsewhere, Expire
  <2>2. tab' = Meanwhile(tab, s) /\ UNCHANGED <<onway, cookie>>
    BY <1>2 DEF CloseElsewhere, Expire
  <2>3. \A c \in Cookie : Known(c) /\ c.sid = s => ~Opens(c)'
    BY <2>1 DEF Opens, Store!Admits
  <2>4. onway' \subseteq Cookie /\ \A c \in onway' : Known(c)'
    BY <2>1, <2>2 DEF TypeOK, KnownOK, Grows
  <2> QED
    BY <2>1, <2>2, <2>3, <2>4, MeanwhileKeeps
<1>3. ASSUME NEW s \in Session, NEW ours \in BOOLEAN, InstallElsewhere(s, ours)
      PROVE  BInv'
  <2>0. PICK n : n = NextCredential
    OBVIOUS
  <2> DEFINE c == [sid |-> s, cred |-> n]
  <2>1. /\ Install(s, n) /\ expired' = expired \ {s} /\ UNCHANGED cookie
        /\ tab' = Meanwhile(tab, s) /\ onway' \subseteq onway \cup {c}
    BY <1>3, <2>0 DEF InstallElsewhere
  <2>2. /\ Grows /\ n \in Credential \ used /\ n \in used' /\ phase'[s] # "absent"
        /\ cred'[s] = n
    BY <2>1, InstallGrows
  <2>3. c \in Cookie /\ c.sid = s /\ c.cred = n
    BY <2>2 DEF Cookie
  <2>4. Known(c)'
    BY <2>2, <2>3 DEF Known
  <2>5. \A d \in onway : Known(d)'
    BY <2>2 DEF KnownOK, Grows, TypeOK
  <2>6. \A d \in Cookie : Known(d) /\ d.sid = s => ~Opens(d)'
    <3>1. \A d \in Cookie : d # None /\ Known(d) => d.cred # n
      BY <2>2 DEF Known
    <3> QED
      BY <2>2, <3>1 DEF Opens, Store!Admits
  <2> QED
    BY <2>1, <2>2, <2>3, <2>4, <2>5, <2>6, MeanwhileKeeps DEF TypeOK
<1>4. CASE Land
  <2>1. PICK c \in onway : cookie' = c /\ onway' = onway \ {c}
    BY <1>4 DEF Land
  <2>2. tab' = [tab EXCEPT !.out = FALSE] /\ UNCHANGED store
    BY <1>4 DEF Land
  <2>3. tab \in View /\ c \in Cookie
    BY DEF TypeOK
  <2>4. /\ tab' \in View /\ tab'.at = tab.at /\ tab'.name = tab.name /\ tab'.goto = tab.goto
        /\ tab'.clear = tab.clear /\ tab'.cookie = tab.cookie /\ tab'.sid = tab.sid
        /\ tab'.dead = tab.dead /\ ~tab'.out
    BY <2>2, <2>3 DEF View
  <2>5. TypeOK'
    BY <2>1, <2>2, <2>3, <2>4 DEF TypeOK, store
  <2>6. KnownOK'
    BY <2>1, <2>2, <2>4 DEF KnownOK, Known, store
  <2>7. FlowOK' /\ DeadOK' /\ OutOK'
    BY <2>2, <2>4 DEF FlowOK, DeadOK, OutOK, Opens, Store!Admits, store
  <2> QED
    BY <2>5, <2>6, <2>7
<1>5. CASE Forget
  <2>1. cookie' = None /\ UNCHANGED <<store, onway, tab>>
    BY <1>5 DEF Forget
  <2>2. TypeOK' /\ KnownOK' /\ FlowOK' /\ DeadOK'
    BY <2>1 DEF TypeOK, KnownOK, Known, FlowOK, DeadOK, Opens, Store!Admits, store
  <2>3. OutOK'
    BY <2>1 DEF OutOK, LoggingOut, LoggedOut, Gone, store
  <2> QED
    BY <2>2, <2>3
<1>6. CASE Rotate
  <2>1. UNCHANGED <<store, onway, cookie>>
    BY <1>6 DEF Rotate, Answer
  <2>2. CASE tab' = NoAnswer
    BY <2>1, <2>2, NoAnswerKeeps DEF Answer
  <2>3. CASE tab' = [tab EXCEPT !.token = IF @ = "valid" THEN "stale" ELSE @]
    <3>1. /\ tab' \in View /\ tab'.at = tab.at /\ tab'.name = tab.name /\ tab'.goto = tab.goto
          /\ tab'.post = tab.post /\ tab'.clear = tab.clear /\ tab'.cookie = tab.cookie
          /\ tab'.sid = tab.sid /\ tab'.dead = tab.dead /\ tab'.out = tab.out
      BY <2>3 DEF View, TypeOK
    <3>2. TypeOK' /\ KnownOK'
      BY <2>1, <3>1 DEF TypeOK, KnownOK, Known, store
    <3>3. FlowOK' /\ DeadOK'
      BY <2>1, <3>1 DEF FlowOK, DeadOK, Opens, Store!Admits, store
    <3>4. OutOK'
      BY <2>1, <3>1 DEF OutOK, LoggingOut, LoggedOut, Gone, store
    <3> QED
      BY <3>2, <3>3, <3>4
  <2> QED
    BY <1>6, <2>2, <2>3 DEF Rotate, Answer
<1> QED
  BY <1>1, <1>2, <1>3, <1>4, <1>5, <1>6 DEF Elsewhere
-----------------------------------------------------------------------------
(* The browser.                                                            *)
LEMMA SurfKeeps == BInv /\ Surf => BInv'
<1> SUFFICES ASSUME BInv, Surf
             PROVE  BInv'
  OBVIOUS
<1> USE DEF BInv
<1>1. cookie \in Cookie \cup {None} /\ tab \in View /\ UNCHANGED <<store, onway, cookie>>
  BY DEF TypeOK, Surf, Navigate, Submit
<1>2. Grows
  BY <1>1, Still
<1>3. PICK name \in Path : Navigate(name) \/ Submit(name)
  BY DEF Surf, Path, Public, Pages, Protected
<1> DEFINE r == Request(name, cookie)
<1>4. /\ r \in View /\ r.at = "sent" /\ r.name = name /\ r.cookie = cookie
      /\ r.dead <=> ~Opens(cookie)
      /\ ~r.clear
  BY <1>1, RequestFields
<1>5. \/ tab' = [r EXCEPT !.out = tab.out]
      \/ tab' = [r EXCEPT !.post = TRUE, !.token = tab.token, !.out = tab.out \/ name = "/logout"]
  BY <1>3 DEF Navigate, Submit
<1> HIDE DEF r
<1>6. /\ tab' \in View /\ tab'.at = "sent" /\ tab'.name = name /\ tab'.cookie = cookie
      /\ tab'.dead <=> ~Opens(cookie)
      /\ ~tab'.clear
      /\ tab'.out => (name = "/logout" /\ tab'.post) \/ tab.out
  BY <1>1, <1>4, <1>5 DEF View
<1>7. Known(tab.cookie)'
  BY <1>1, <1>2, <1>6 DEF KnownOK, Grows
<1>8. FlowOK'
  BY <1>6 DEF FlowOK
<1>9. DeadOK'
  BY <1>1, <1>6 DEF DeadOK, Opens, Store!Admits, store
<1>10. OutOK'
  <2>1. tab.out => Gone(cookie)
    BY <1>3 DEF OutOK, LoggingOut, LoggedOut, Navigate, Submit
  <2> QED
    BY <1>1, <1>6, <2>1 DEF OutOK, LoggingOut, LoggedOut, Gone, store
<1> QED
  BY <1>1, <1>2, <1>6, <1>7, <1>8, <1>9, <1>10, TabKeeps

(* The three answers of a handler, and none at all.                        *)
LEMMA RedirectKeeps ==
  ASSUME BInv, NEW q \in View, NEW name \in Path, Answer(Redirect(q, name)),
         ~q.clear, q.out => Gone(cookie)
  PROVE  BInv'
<1> DEFINE r == Redirect(q, name)
<1>1. r \in View /\ r.at = "reply" /\ r.goto /\ r.cookie = None /\ r.out = q.out /\ ~r.clear
  BY RedirectFields
<1> HIDE DEF r
<1>2. Answer(r)
  BY DEF r
<1> QED
  BY <1>1, <1>2, AnswerKeeps

LEMMA PageKeeps ==
  ASSUME BInv, NEW name \in Path, NEW token \in {"valid", "stale", None},
         Answer(Page(tab, name, token)), ~tab.clear, ~tab.dead \/ name \notin Pages,
         tab.out => Gone(cookie) /\ name \notin Pages
  PROVE  BInv'
<1> DEFINE r == Page(tab, name, token)
<1>0. tab \in View
  BY DEF BInv, TypeOK
<1>1. /\ r \in View /\ r.at = "reply" /\ r.cookie = None /\ ~r.clear /\ r.name = name /\ ~r.post
      /\ r.out = tab.out /\ r.dead = tab.dead /\ r.goto = tab.goto
  BY <1>0, PageFields
<1> HIDE DEF r
<1>2. Answer(r)
  BY DEF r
<1> QED
  BY <1>1, <1>2, AnswerKeeps

LEMMA RefusalKeeps ==
  ASSUME BInv, Answer(Refusal(tab)), ~tab.clear, tab.out => Gone(cookie)
  PROVE  BInv'
<1> DEFINE r == Refusal(tab)
<1>0. tab \in View
  BY DEF BInv, TypeOK
<1>1. /\ r \in View /\ r.at = "reply" /\ r.cookie = None /\ ~r.clear /\ r.name = "error"
      /\ r.out = tab.out
  BY <1>0, RefusalFields
<1>2. "error" \notin Pages
  BY DEF Pages
<1> HIDE DEF r
<1>3. Answer(r)
  BY DEF r
<1> QED
  BY <1>1, <1>2, <1>3, AnswerKeeps

LEMMA BreakKeeps == BInv /\ Break => BInv'
  BY NoAnswerKeeps DEF Break

(* A request whose cookie opens nothing does not get past the guard to a   *)
(* protected page, and after a logout it gets to the login page.           *)
LEMMA GuardKeeps == BInv /\ Guard => BInv'
<1> SUFFICES ASSUME BInv, Guard
             PROVE  BInv'
  OBVIOUS
<1> USE DEF BInv
<1> DEFINE q == [tab EXCEPT !.user = Opens(tab.cookie)]
<1>1. tab \in View /\ tab.at = "sent" /\ ~tab.clear
  BY DEF Guard, TypeOK, FlowOK
<1>2. Opens(tab.cookie) \in BOOLEAN
  BY DEF Opens
<1>3. /\ q \in View /\ q.at = "sent" /\ ~q.clear /\ q.out = tab.out /\ q.dead = tab.dead
      /\ q.name = tab.name /\ q.post = tab.post /\ q.goto = tab.goto /\ q.cookie = tab.cookie
      /\ q.user <=> Opens(tab.cookie)
  BY <1>1, <1>2 DEF View
<1>4. Answer(IF q.name = "/" THEN Redirect(q, IF q.user THEN "/dashboard" ELSE "/login")
             ELSE IF q.name \in Public /\ q.user THEN Redirect(q, "/dashboard")
             ELSE IF q.name \in Protected /\ ~q.user THEN Redirect(q, "/login")
             ELSE [q EXCEPT !.at = "handler"])
  BY DEF Guard
<1> HIDE DEF q
<1>5. {"/dashboard", "/login"} \subseteq Path
  BY DEF Path, Public, Protected, Pages
<1>6. q.out => \/ q.name = "/logout"
               \/ Gone(cookie) /\ Gone(q.cookie)
  BY <1>1, <1>3 DEF OutOK, LoggingOut, LoggedOut
<1>7. CASE /\ \E name \in {"/dashboard", "/login"} : Answer(Redirect(q, name))
           /\ q.name # "/logout"
  BY <1>3, <1>5, <1>6, <1>7, RedirectKeeps
<1>8. CASE /\ q.name # "/" /\ ~(q.name \in Public /\ q.user) /\ ~(q.name \in Protected /\ ~q.user)
           /\ Answer([q EXCEPT !.at = "handler"])
  <2>1. /\ tab' \in View /\ tab'.at = "handler" /\ ~tab'.clear /\ tab'.out = tab.out
        /\ tab'.dead = tab.dead /\ tab'.name = tab.name /\ tab'.post = tab.post
        /\ tab'.goto = tab.goto /\ tab'.cookie = tab.cookie
    BY <1>3, <1>8 DEF Answer, View
  <2>2. UNCHANGED <<store, onway, cookie>>
    BY <1>8 DEF Answer
  <2>3. Grows
    BY <2>2, Still
  <2>4. Known(tab.cookie)'
    BY <2>1, <2>2 DEF KnownOK, Known, store
  <2>5. FlowOK'
    BY <2>1 DEF FlowOK
  <2>6. tab.dead => tab.name \in Public \cup {"/logout", "error"}
    <3>1. tab.dead => ~q.user
      BY <1>1, <1>3 DEF DeadOK
    <3>2. tab.name \in Path \cup {"error"}
      BY <1>1 DEF View
    <3> QED
      BY <1>3, <1>8, <3>1, <3>2 DEF Path
  <2>7. DeadOK'
    BY <2>1, <2>6 DEF DeadOK
  <2>8. OutOK'
    <3>1. Gone(q.cookie) => ~q.user
      BY <1>3 DEF Gone, Opens, Store!Admits
    <3>2. tab.out /\ ~LoggingOut => tab.name \notin Protected /\ Gone(cookie)
      BY <1>1, <1>3, <1>8, <3>1 DEF OutOK, LoggedOut
    <3> QED
      BY <1>1, <2>1, <2>2, <3>2 DEF OutOK, LoggingOut, LoggedOut, Gone, store
  <2> QED
    BY <2>1, <2>2, <2>3, <2>4, <2>5, <2>7, <2>8, TabKeeps
<1>9. "/logout" \notin {"/"} \cup Public \cup Protected
  BY DEF Public, Protected, Pages
<1> QED
  BY <1>4, <1>7, <1>8, <1>9

(* An answer arrives.  r is what the tab then shows or asks for.           *)
LEMMA ArrivedFields ==
  ASSUME NEW q \in View, q.at = "reply", NEW c \in Cookie \cup {None}, NEW out \in BOOLEAN
  PROVE  /\ Arrived(q, c, out) \in View /\ Arrived(q, c, out).name = q.name
         /\ Arrived(q, c, out).out = out
         /\ q.goto => /\ Arrived(q, c, out).at = "sent" /\ Arrived(q, c, out).cookie = c
                      /\ Arrived(q, c, out).dead <=> ~Opens(c)
                      /\ ~Arrived(q, c, out).clear
                      /\ ~Arrived(q, c, out).goto /\ ~Arrived(q, c, out).post
         /\ ~q.goto => /\ Arrived(q, c, out).at = "page" /\ Arrived(q, c, out).cookie = q.cookie
                       /\ Arrived(q, c, out).dead = q.dead /\ Arrived(q, c, out).clear = q.clear
                       /\ Arrived(q, c, out).goto = q.goto /\ Arrived(q, c, out).post = q.post
<1>1. CASE q.goto
  <2> DEFINE r == Request(q.name, c)
  <2>1. q.name \in Path \cup {"error"}
    BY DEF View
  <2>2. /\ r \in View /\ r.name = q.name /\ r.at = "sent" /\ r.cookie = c
        /\ r.dead <=> ~Opens(c)
        /\ ~r.out /\ ~r.clear /\ ~r.goto /\ ~r.post
    BY <2>1, RequestFields
  <2>3. Arrived(q, c, out) = [r EXCEPT !.out = out]
    BY <1>1 DEF Arrived
  <2> HIDE DEF r
  <2> QED
    BY <1>1, <2>2, <2>3 DEF View
<1>2. CASE ~q.goto
  <2>1. Arrived(q, c, out) = [q EXCEPT !.at = "page", !.out = out]
    BY <1>2 DEF Arrived
  <2> QED
    BY <1>2, <2>1 DEF View
<1> QED
  BY <1>1, <1>2

LEMMA DeliveriesKeep ==
  ASSUME BInv, Deliver \/ DeliverLogin \/ \E hostOnly \in BOOLEAN : DeliverLogout(hostOnly)
  PROVE  BInv'
<1> USE DEF BInv
<1>1. tab \in View /\ tab.at = "reply" /\ cookie \in Cookie \cup {None}
      /\ tab.cookie \in Cookie \cup {None} /\ tab.out \in BOOLEAN /\ tab.clear \in BOOLEAN
      /\ tab.goto \in BOOLEAN
  BY DEF TypeOK, View, Deliver, DeliverLogin, DeliverLogout
<1>2. UNCHANGED <<store, onway>>
  BY DEF Deliver, DeliverLogin, DeliverLogout
<1>3. PICK c \in Cookie \cup {None}, out \in BOOLEAN :
        /\ cookie' = c /\ tab' = Arrived(tab, c, out) /\ Known(c)
        /\ out => \/ tab.out /\ c = cookie /\ tab.cookie = None /\ ~tab.clear
                  \/ tab.clear /\ Gone(c)
        /\ ~tab.goto => ~tab.clear
  <2>1. CASE Deliver
    BY <1>1, <2>1 DEF Deliver, KnownOK
  <2>2. CASE DeliverLogin
    <3>1. tab' = Arrived(tab, tab.cookie, FALSE) /\ cookie' = tab.cookie /\ ~tab.clear
      BY <2>2 DEF DeliverLogin, FlowOK
    <3> QED
      BY <1>1, <3>1 DEF KnownOK
  <2>3. ASSUME NEW hostOnly \in BOOLEAN, DeliverLogout(hostOnly)
        PROVE  \E c \in Cookie \cup {None}, out \in BOOLEAN :
                 /\ cookie' = c /\ tab' = Arrived(tab, c, out) /\ Known(c)
                 /\ out => \/ tab.out /\ c = cookie /\ tab.cookie = None /\ ~tab.clear
                           \/ tab.clear /\ Gone(c)
                 /\ ~tab.goto => ~tab.clear
    <3>1. tab.clear /\ tab.goto
      BY <2>3 DEF DeliverLogout, FlowOK
    <3>2. CASE hostOnly
      <4>1. cookie' = None /\ tab' = Arrived(tab, None, TRUE)
        BY <2>3, <3>2 DEF DeliverLogout
      <4> QED
        BY <3>1, <4>1 DEF Known, Gone
    <3>3. CASE ~hostOnly
      <4>1. cookie' = cookie /\ tab' = Arrived(tab, cookie, tab.out)
        BY <1>1, <2>3, <3>3 DEF DeliverLogout
      <4>2. tab.out => Gone(cookie)
        BY <1>1, <3>1 DEF OutOK, LoggingOut, LoggedOut
      <4> QED
        BY <1>1, <3>1, <4>1, <4>2 DEF KnownOK
    <3> QED
      BY <3>2, <3>3
  <2> QED
    BY <2>1, <2>2, <2>3
<1> DEFINE r == Arrived(tab, c, out)
<1>4. /\ r \in View /\ r.name = tab.name /\ r.out = out
      /\ tab.goto => /\ r.at = "sent" /\ r.cookie = c /\ ~r.clear /\ ~r.goto /\ ~r.post
                     /\ r.dead <=> ~Opens(c)
      /\ ~tab.goto => /\ r.at = "page" /\ r.cookie = tab.cookie /\ r.dead = tab.dead
                      /\ r.clear = tab.clear /\ r.goto = tab.goto /\ r.post = tab.post
  BY <1>1, ArrivedFields
<1>5. tab' = r
  BY <1>3
<1> HIDE DEF r
<1>6. TypeOK'
  BY <1>2, <1>3, <1>4, <1>5 DEF TypeOK, store
<1>7. KnownOK'
  <2>1. Known(tab.cookie)'
    BY <1>1, <1>2, <1>3, <1>4, <1>5 DEF KnownOK, Known, store
  <2> QED
    BY <1>2, <1>3, <2>1 DEF KnownOK, Known, store
<1>8. FlowOK'
  BY <1>1, <1>3, <1>4, <1>5 DEF FlowOK
<1>9. DeadOK'
  <2>1. Opens(c)' <=> Opens(c)
    BY <1>2 DEF Opens, Store!Admits, store
  <2> QED
    BY <1>1, <1>4, <1>5, <2>1 DEF DeadOK
<1>10. OutOK'
  <2>1. out => Gone(c)
    BY <1>1, <1>3 DEF OutOK, LoggingOut, LoggedOut
  <2>2. out /\ ~tab.goto => tab.name \notin Pages
    BY <1>1, <1>3 DEF OutOK, LoggingOut, LoggedOut
  <2>3. Gone(c)' <=> Gone(c)
    BY <1>2 DEF Gone, store
  <2> QED
    BY <1>1, <1>3, <1>4, <1>5, <2>1, <2>2, <2>3 DEF OutOK, LoggedOut
<1> QED
  BY <1>6, <1>7, <1>8, <1>9, <1>10
-----------------------------------------------------------------------------
(* The handlers that answer with a page or a redirect.                     *)
LEMMA PagesKeep ==
  ASSUME BInv, GetPage \/ LoginRefused \/ Register \/ LogoutRefused \/ DeleteForm \/ NewForm \/ Write
  PROVE  BInv'
<1> USE DEF BInv
<1>1. tab \in View /\ tab.at \in {"handler", "write"} /\ ~tab.clear
  BY DEF TypeOK, FlowOK, GetPage, LoginRefused, Register, LogoutRefused, DeleteForm, NewForm,
         Write, Handled
<1>2. Public \cup Pages \subseteq Path /\ Public \cap Pages = {} /\ "/logout" \notin Public
      /\ {"/login", "/register"} = Public
  BY DEF Path, Public, Pages, Protected
<1>3. CASE GetPage
  <2>1. PICK name \in Public \cup Pages :
          /\ Handled(name, FALSE)
          /\ \/ Answer(Page(tab, name, "valid"))
             \/ name = "/products/new" /\ Answer(Refusal(tab))
    BY <1>3 DEF GetPage
  <2>2. tab.at = "handler" /\ tab.name = name /\ ~tab.post
    BY <2>1 DEF Handled
  <2>3. tab.dead => name \notin Pages
    BY <1>2, <2>2 DEF DeadOK, Pages
  <2>4. tab.out => Gone(cookie) /\ name \notin Pages
    BY <1>1, <1>2, <2>2 DEF OutOK, LoggingOut, LoggedOut, Protected, Pages
  <2> QED
    BY <1>1, <1>2, <2>1, <2>3, <2>4, PageKeeps, RefusalKeeps
<1>4. CASE LoginRefused \/ Register
  <2>1. tab.at = "handler" /\ tab.name \in Public /\ tab.post
    BY <1>2, <1>4 DEF LoginRefused, Register, Handled
  <2>2. tab.out => Gone(cookie)
    BY <1>1, <1>2, <2>1 DEF OutOK, LoggingOut, LoggedOut
  <2>3. \/ \E name \in Public, token \in {"valid", None} : Answer(Page(tab, name, token))
        \/ Answer(Redirect(tab, "/login"))
    BY <1>2, <1>4 DEF LoginRefused, Register
  <2> QED
    BY <1>1, <1>2, <2>2, <2>3, PageKeeps, RedirectKeeps
<1>5. CASE LogoutRefused
  <2> DEFINE r == Redirect(tab, "/login")
             q == [r EXCEPT !.out = FALSE]
  <2>1. /\ r \in View /\ r.at = "reply" /\ r.goto /\ r.cookie = None /\ ~r.clear
    BY <1>1, <1>2, RedirectFields
  <2> HIDE DEF r
  <2>2. /\ q \in View /\ q.at = "reply" /\ q.goto /\ q.cookie = None /\ ~q.clear /\ ~q.out
    BY <2>1 DEF View
  <2>3. Answer(q)
    BY <1>5 DEF LogoutRefused, r
  <2> QED
    BY <2>2, <2>3, AnswerKeeps
<1>6. CASE DeleteForm \/ NewForm
  <2>1. tab.at = "handler" /\ tab.name \in Protected
    BY <1>6 DEF DeleteForm, NewForm, Handled, Protected, Pages
  <2>2. ~tab.out /\ (tab.dead => tab.name = "/products/delete" /\ ~Opens(tab.cookie))
    BY <2>1 DEF OutOK, LoggingOut, LoggedOut, DeadOK, Protected, Pages, Public
  <2>3. CASE Answer([tab EXCEPT !.at = "write"]) /\ ~tab.dead
    <3>1. /\ tab' \in View /\ tab'.at = "write" /\ ~tab'.out /\ ~tab'.dead /\ ~tab'.clear
          /\ tab'.cookie = tab.cookie /\ UNCHANGED <<store, onway, cookie>>
      BY <1>1, <2>2, <2>3 DEF Answer, View
    <3>2. Grows
      BY <3>1, Still
    <3>3. Known(tab.cookie)'
      BY <3>1 DEF KnownOK, Known, store
    <3>4. FlowOK' /\ DeadOK' /\ OutOK'
      BY <3>1 DEF FlowOK, DeadOK, OutOK
    <3> QED
      BY <3>1, <3>2, <3>3, <3>4, TabKeeps
  <2>4. \/ \E name \in {"/products", "/login"} : Answer(Redirect(tab, name))
        \/ Answer(Refusal(tab)) \/ (Answer([tab EXCEPT !.at = "write"]) /\ ~tab.dead)
    <3>1. CASE DeleteForm
      BY <2>2, <3>1 DEF DeleteForm
    <3>2. CASE NewForm
      BY <2>2, <3>2 DEF NewForm, Handled
    <3> QED
      BY <1>6, <3>1, <3>2
  <2>5. {"/products", "/login"} \subseteq Path
    BY <1>2 DEF Pages
  <2> QED
    BY <1>1, <2>2, <2>3, <2>4, <2>5, RedirectKeeps, RefusalKeeps
<1>7. CASE Write
  <2>1. tab.at = "write" /\ ~tab.out /\ ~tab.dead
    BY <1>7 DEF Write, OutOK, LoggingOut, LoggedOut, DeadOK
  <2>2. {"/products", "/products/new"} \subseteq Path
    BY <1>2 DEF Pages
  <2> QED
    BY <1>1, <1>7, <2>1, <2>2, RedirectKeeps, RefusalKeeps, PageKeeps DEF Write
<1> QED
  BY <1>3, <1>4, <1>5, <1>6, <1>7

(* The handlers that change the session store.                             *)
LEMMA LoginKeeps ==
  ASSUME BInv, LoginOpens \/ LoginInstalls
  PROVE  BInv'
<1> USE DEF BInv
<1>1. tab \in View /\ ~tab.clear /\ cookie \in Cookie \cup {None} /\ (tab.out => Gone(cookie))
  BY DEF TypeOK, FlowOK, OutOK, LoggingOut, LoggedOut, LoginOpens, LoginInstalls, Handled
<1>2. CASE LoginOpens
  <2>1. PICK s \in Session : /\ Store!Open(s) /\ tab' = [tab EXCEPT !.at = "opened", !.sid = s]
                             /\ UNCHANGED <<expired, onway, cookie>>
    BY <1>2 DEF LoginOpens
  <2>2. Grows
    BY <2>1, OpenGrows
  <2>3. /\ tab' \in View /\ tab'.at = "opened" /\ tab'.sid = s /\ ~tab'.clear /\ tab'.out = tab.out
        /\ tab'.cookie = tab.cookie
    BY <1>1, <2>1 DEF View
  <2>4. Known(tab.cookie)'
    BY <1>1, <2>2, <2>3 DEF KnownOK, Grows, View
  <2>5. FlowOK' /\ DeadOK'
    BY <2>3 DEF FlowOK, DeadOK
  <2>6. OutOK'
    BY <1>1, <2>1, <2>2, <2>3 DEF OutOK, LoggedOut, Grows
  <2> QED
    BY <2>1, <2>2, <2>3, <2>4, <2>5, <2>6, TabKeeps
<1>3. CASE LoginInstalls
  <2>1. PICK n : n = NextCredential
    OBVIOUS
  <2> DEFINE c == [sid |-> tab.sid, cred |-> n]
             r == Redirect(tab, "/dashboard")
  <2>2. /\ Install(tab.sid, n) /\ tab.sid \in Session /\ tab' = [r EXCEPT !.cookie = c]
        /\ UNCHANGED <<expired, onway, cookie>>
    BY <1>3, <2>1 DEF LoginInstalls, FlowOK
  <2>3. Grows /\ n \in Credential /\ n \in used' /\ phase'[tab.sid] # "absent"
    BY <2>2, InstallGrows
  <2>4. c \in Cookie /\ c.sid = tab.sid /\ c.cred = n
    BY <2>2, <2>3 DEF Cookie
  <2>5. r \in View /\ r.at = "reply" /\ r.goto /\ ~r.clear /\ r.out = tab.out
    BY <1>1, RedirectFields DEF Path, Protected, Pages
  <2> HIDE DEF c, r
  <2>6. /\ tab' \in View /\ tab'.at = "reply" /\ tab'.goto /\ ~tab'.clear /\ tab'.out = tab.out
        /\ tab'.cookie = c
    BY <2>2, <2>4, <2>5 DEF View
  <2>7. Known(tab.cookie)'
    BY <2>3, <2>4, <2>6 DEF Known
  <2>8. FlowOK' /\ DeadOK'
    BY <2>6 DEF FlowOK, DeadOK
  <2>9. OutOK'
    BY <1>1, <2>2, <2>3, <2>6 DEF OutOK, LoggedOut, Grows
  <2> QED
    BY <2>2, <2>3, <2>6, <2>7, <2>8, <2>9, TabKeeps
<1> QED
  BY <1>2, <1>3

LEMMA LogoutKeeps ==
  ASSUME BInv, NEW ok \in BOOLEAN, Logout(ok)
  PROVE  BInv'
<1> USE DEF BInv
<1> DEFINE c == tab.cookie
           S == IF ok /\ c # None /\ phase[c.sid] = "open" THEN {c.sid} ELSE {}
           r == Redirect(tab, "/login")
<1>1. /\ tab \in View /\ tab.at = "handler" /\ tab.name = "/logout" /\ ~tab.clear
      /\ c \in Cookie \cup {None} /\ cookie \in Cookie \cup {None}
      /\ tab.out \in BOOLEAN
  BY DEF TypeOK, FlowOK, Logout, Handled, View
<1>2. /\ Store!Close(S) /\ tab' = [r EXCEPT !.clear = TRUE, !.out = r.out /\ ok]
      /\ UNCHANGED <<expired, onway, cookie>>
  BY DEF Logout
<1>3. S \in SUBSET Session
  BY <1>1 DEF Cookie
<1>4. Grows /\ \A s \in S : phase'[s] = "closed"
  BY <1>2, <1>3, CloseGrows
<1>5. r \in View /\ r.at = "reply" /\ r.goto /\ r.name = "/login" /\ r.cookie = None
      /\ r.out = tab.out
  BY <1>1, RedirectFields DEF Path, Public
<1> HIDE DEF r
<1>6. /\ tab' \in View /\ tab'.at = "reply" /\ tab'.goto /\ tab'.name = "/login"
      /\ tab'.cookie = None /\ tab'.clear /\ tab'.out = (tab.out /\ ok)
  BY <1>1, <1>2, <1>5 DEF View
<1>7. Known(tab.cookie)' /\ FlowOK' /\ DeadOK'
  BY <1>6 DEF Known, FlowOK, DeadOK
<1>8. OutOK'
  <2> SUFFICES ASSUME tab.out, ok
               PROVE  Gone(cookie)'
    BY <1>6 DEF OutOK, LoggedOut
  <2>1. cookie \in {None, c} \/ Gone(cookie)
    BY <1>1 DEF OutOK, LoggingOut, LoggedOut
  <2>5. CASE Gone(cookie)
    BY <1>1, <1>2, <1>4, <2>5 DEF Grows, Gone
  <2>2. CASE cookie = None
    BY <1>2, <2>2 DEF Gone
  <2>3. CASE cookie = c /\ c # None /\ phase[c.sid] = "open"
    BY <1>2, <1>4, <2>3 DEF Gone
  <2>4. CASE cookie = c /\ c # None /\ phase[c.sid] # "open"
    <3>1. phase[c.sid] = "closed"
      BY <1>1, <2>4 DEF KnownOK, Known, TypeOK, Cookie
    <3> QED
      BY <1>1, <1>2, <1>4, <2>4, <3>1 DEF Grows, Gone
  <2> QED
    BY <2>1, <2>2, <2>3, <2>4, <2>5
<1> QED
  BY <1>2, <1>4, <1>6, <1>7, <1>8, TabKeeps

LEMMA StepKeeps == BInv /\ [Next]_vars => BInv'
<1> SUFFICES ASSUME BInv, [Next]_vars
             PROVE  BInv'
  OBVIOUS
<1>1. CASE UNCHANGED vars
  <2>1. Grows /\ UNCHANGED <<onway, cookie, tab>>
    BY <1>1, Still DEF vars, store, BInv
  <2> QED
    BY <2>1, AwayKeeps DEF BInv, TypeOK, KnownOK, Grows
<1>2. CASE Serve
  BY <1>2, GuardKeeps, DeliveriesKeep, PagesKeep, LoginKeeps, LogoutKeeps DEF Serve, Handle
<1> QED
  BY <1>1, <1>2, SurfKeeps, BreakKeeps, ElsewhereKeeps DEF Next

THEOREM Invariance == Spec => []BInv
  BY Initially, StepKeeps, PTL DEF Spec
-----------------------------------------------------------------------------
(* Tab, cookies and the session store keep their types.                    *)
THEOREM WellTyped == Spec => []TypeOK
<1>1. BInv => TypeOK
  BY DEF BInv
<1> QED
  BY <1>1, Invariance, PTL

(* A request whose cookie opens no session when it is sent, or no longer   *)
(* when the guard looks at it (UiAuthRedirectMiddleware.dispatch), is      *)
(* shown no protected page and changes no product; a deletion whose        *)
(* session ends or is rotated before the second look (product_delete_ui)   *)
(* deletes nothing.                                                        *)
THEOREM DeadCookies == Spec => []DeadCookieOpensNothing
<1>1. BInv => DeadCookieOpensNothing
  BY DEF BInv, DeadOK, DeadCookieOpensNothing
<1> QED
  BY <1>1, Invariance, PTL

(* After a logout (logout_ui) whose revocation or whose deletion of the    *)
(* cookie worked, the browser is shown no protected page and changes no    *)
(* product, however many pages it asks for, until it receives a cookie.    *)
THEOREM LogoutsHold == Spec => []LogoutIsOut
<1>1. BInv => LogoutIsOut
  BY DEF BInv, OutOK, LoggingOut, LoggedOut, LogoutIsOut
<1> QED
  BY <1>1, Invariance, PTL
=============================================================================
