---------------------------- MODULE RefreshClient ----------------------------
(***************************************************************************)
(* The session as the browser keeps it: the access token in localStorage   *)
(* and the refresh cookie, both shared by the tabs; in each tab the axios  *)
(* interceptor, which answers a 401 with one refresh and queues the other  *)
(* 401s behind it, the probe a page load makes when it finds an expired    *)
(* token, and logout.                                                      *)
(*                                                                         *)
(* A generation is one rotation of the session: a refresh row, its cookie  *)
(* value and the access token whose sid names the row.  The server here is *)
(* what one client sees of it (module Sessions has its interleavings): a   *)
(* refresh consumes the row of its cookie and so does a logout, a consumed *)
(* cookie ends every session, and an access token is good while its row    *)
(* lives and its own lifetime lasts.  Messages may be lost on the way.     *)
(***************************************************************************)
EXTENDS Naturals

CONSTANTS
  Tabs,
  Calls,     \* API calls, each made once
  TabOf,     \* the tab that makes each call
  MaxGen     \* bound: generations the server issues

ASSUME TabOfAssumption == TabOf \in [Calls -> Tabs]
ASSUME MaxGenAssumption == MaxGen \in Nat

NoGen == 0
Gens == 1..MaxGen
Values == 0..MaxGen        \* a cookie or stored token, NoGen: none
Kinds == {"refresh", "probe"}

VARIABLES
  issued,     \* server: generations issued so far
  live,       \* server: refresh rows
  used,       \* server: consumed refresh tokens
  expired,    \* access tokens past their exp
  cookie,     \* browser: the refresh cookie
  stored,     \* browser: localStorage access_token
  mode,       \* what each tab shows
  leaving,    \* a navigation replaces the tab's document soon
  refreshing, \* isRefreshing
  flight,     \* the tab's refresh call, and its probe
  call,       \* each API call
  logout,     \* the logout call under way (bound: one at a time)
  \* For the properties:
  lost,       \* the answer to a refresh or a logout was lost
  overlap,    \* a refresh and another taker of its cookie were under way at once
  stranded    \* tabs whose document saw a refresh fail

serverVars  == <<issued, live, used, expired>>
browserVars == <<cookie, stored>>
tabVars     == <<mode, leaving, refreshing>>
causes      == <<lost, overlap, stranded>>
clientVars  == <<serverVars, browserVars, tabVars, flight, call, logout, causes>>

Flights == [st : {"none", "sent", "answered", "arrived", "failed"},
            ck : Values, gen : Values]
CallStates == {"idle", "sent", "ok", "denied", "holding", "waiting",
               "settled", "gone"}
CallRecs == [st : CallStates, tok : Values, retry : BOOLEAN]
Over(how) == [st |-> how, tok |-> NoGen, retry |-> FALSE]
Logouts == [st : {"none", "sent", "accepted"}, tok : Values, ck : Values]

NoLogout == [st |-> "none", tok |-> NoGen, ck |-> NoGen]
NoFlight == [st |-> "none", ck |-> NoGen, gen |-> NoGen]
Failed   == [st |-> "failed", ck |-> NoGen, gen |-> NoGen]
Pending(f) == f.st \in {"sent", "answered"}
Ended == {"settled", "gone"}

ClientTypeOK ==
  /\ issued \in Values
  /\ live \subseteq Gens
  /\ used \subseteq Gens
  /\ expired \subseteq Gens
  /\ cookie \in Values
  /\ stored \in Values
  /\ mode \in [Tabs -> {"blank", "login", "app", "out"}]
  /\ leaving \in [Tabs -> BOOLEAN]
  /\ refreshing \in [Tabs -> BOOLEAN]
  /\ flight \in [Tabs -> [Kinds -> Flights]]
  /\ call \in [Calls -> CallRecs]
  /\ logout \in Logouts
  /\ lost \in BOOLEAN
  /\ overlap \in BOOLEAN
  /\ stranded \subseteq Tabs

ClientInit ==
  /\ issued = 0
  /\ live = {}
  /\ used = {}
  /\ expired = {}
  /\ cookie = NoGen
  /\ stored = NoGen
  /\ mode = [t \in Tabs |-> "login"]
  /\ leaving = [t \in Tabs |-> FALSE]
  /\ refreshing = [t \in Tabs |-> FALSE]
  /\ flight = [t \in Tabs |-> [k \in Kinds |-> NoFlight]]
  /\ call = [c \in Calls |-> [st |-> "idle", tok |-> NoGen, retry |-> FALSE]]
  /\ logout = NoLogout
  /\ lost = FALSE
  /\ overlap = FALSE
  /\ stranded = {}

----------------------------------------------------------------------------
(* The server. *)

\* decode_access_token and the lookup of the token's sid.
Accepts(tok) == tok \in live \ expired

AnswerCall(c) ==
  /\ call[c].st = "sent"
  /\ call' = [call EXCEPT ![c].st = IF Accepts(call[c].tok) THEN "ok" ELSE "denied",
                        ![c].tok = NoGen]
  /\ UNCHANGED <<serverVars, browserVars, tabVars, flight, logout, causes>>

\* Any other answer than a 401, or none, is not the interceptor's business.
FailCall(c) ==
  /\ call[c].st = "sent"
  /\ call' = [call EXCEPT ![c] = Over("settled")]
  /\ UNCHANGED <<serverVars, browserVars, tabVars, flight, logout, causes>>

\* Mutant: the new row gets the number after its cookie's.
RotateTwice(ck) == live' = (live \ {ck}) \cup {issued + 2}

Rotate(ck) == live' = (live \ {ck}) \cup {issued + 1}

\* POST /auth/refresh: rotate, or refuse; a consumed cookie ends every session.
AnswerRefresh(t, k) ==
  LET ck == flight[t][k].ck IN
  /\ flight[t][k].st = "sent"
  /\ \/ /\ ck \in live
        /\ issued < MaxGen
        /\ issued' = issued + 1
        /\ Rotate(ck)
        /\ used' = used \cup {ck}
        /\ flight' = [flight EXCEPT ![t][k] = [@ EXCEPT !.st = "answered", !.gen = issued + 1]]
     \/ /\ ck \notin live
        /\ live' = IF ck \in used THEN {} ELSE live
        /\ flight' = [flight EXCEPT ![t][k] = Failed]
        /\ UNCHANGED <<issued, used>>
  /\ UNCHANGED <<expired, browserVars, tabVars, call, logout, lost, overlap, stranded>>

\* The call or its answer is lost on the way.
LoseRefresh(t, k) ==
  /\ Pending(flight[t][k])
  /\ flight' = [flight EXCEPT ![t][k] = Failed]
  /\ lost' = (lost \/ flight[t][k].st = "answered")
  /\ UNCHANGED <<serverVars, browserVars, tabVars, call, logout, overlap, stranded>>

\* Mutant: withCredentials is left out, and the browser ignores the new cookie.
ArriveRefreshNoCredentials(t, k) ==
  /\ flight[t][k].st = "answered"
  /\ flight' = [flight EXCEPT ![t][k].st = "arrived"]
  /\ UNCHANGED <<serverVars, browserVars, tabVars, call, logout, causes>>

\* The answer's headers reach the browser, before the tab's script runs.
ArriveRefresh(t, k) ==
  /\ flight[t][k].st = "answered"
  /\ cookie' = flight[t][k].gen
  /\ flight' = [flight EXCEPT ![t][k].st = "arrived"]
  /\ UNCHANGED <<serverVars, stored, tabVars, call, logout, causes>>

\* Access tokens have one lifetime, so they expire in the order of issue.
AccessExpires(g) ==
  /\ g <= issued
  /\ 1..(g - 1) \subseteq expired
  /\ expired' = expired \cup {g}
  /\ UNCHANGED <<issued, live, used, browserVars, tabVars, flight, call, logout, causes>>

\* get_token_payload looks at the access token's lifetime only.
Readable(tok) == tok \notin expired \cup {NoGen}

\* POST /auth/logout: logout_user records the cookie as used, if it has a row.
AnswerLogout ==
  /\ logout.st = "sent"
  /\ IF Readable(logout.tok)
       THEN /\ logout' = [logout EXCEPT !.st = "accepted"]
            /\ live' = live \ {logout.ck}
            /\ used' = used \cup ({logout.ck} \cap live)
       ELSE /\ logout' = NoLogout
            /\ UNCHANGED <<live, used>>
  /\ UNCHANGED <<issued, expired, browserVars, tabVars, flight, call, causes>>

\* The call or its 204 is lost on the way; nobody waits for it.
LoseLogout ==
  /\ logout.st # "none"
  /\ logout' = NoLogout
  /\ lost' = (lost \/ logout.st = "accepted")
  /\ UNCHANGED <<serverVars, browserVars, tabVars, flight, call, overlap, stranded>>

\* The 204 reaches the browser and clears the cookie, whichever it is by then.
ClearCookie ==
  /\ logout.st = "accepted"
  /\ logout' = NoLogout
  /\ cookie' = NoGen
  /\ UNCHANGED <<serverVars, stored, tabVars, flight, call, causes>>

----------------------------------------------------------------------------
(* The interceptor of tab t. *)

\* Requests under way that take the browser's cookie, or have and are answered.
RefreshTakes(u, j) == Pending(flight[u][j]) /\ flight[u][j].ck = cookie

LogoutTakes ==
  /\ logout.ck = cookie
  /\ \/ logout.st = "accepted"
     \/ (logout.st = "sent" /\ Readable(logout.tok))

\* A refresh leaves with the cookie of the moment.
StartFlight(t, k) ==
  /\ flight' = [flight EXCEPT ![t][k] =
                 [st |-> "sent", ck |-> cookie, gen |-> NoGen]]
  /\ overlap' = (overlap \/ /\ cookie # NoGen
                            /\ \/ LogoutTakes
                               \/ \E u \in Tabs : \E j \in Kinds :
                                    <<u, j>> # <<t, k>> /\ RefreshTakes(u, j))

MakeCall(c) ==
  /\ call[c].st = "idle"
  /\ mode[TabOf[c]] = "app"
  /\ call' = [call EXCEPT ![c].st = "sent", ![c].tok = stored]
  /\ UNCHANGED <<serverVars, browserVars, tabVars, flight, logout, causes>>

Settle(c) ==
  /\ call[c].st = "ok"
  /\ call' = [call EXCEPT ![c] = Over("settled")]
  /\ UNCHANGED <<serverVars, browserVars, tabVars, flight, logout, causes>>

\* The retry was refused too: the caller gets the error.
GiveUp(c) ==
  /\ call[c].st = "denied"
  /\ call[c].retry
  /\ call' = [call EXCEPT ![c] = Over("settled")]
  /\ UNCHANGED <<serverVars, browserVars, tabVars, flight, logout, causes>>

WaitForRefresh(c) ==
  /\ call[c].st = "denied"
  /\ ~call[c].retry
  /\ refreshing[TabOf[c]]
  /\ call' = [call EXCEPT ![c].st = "waiting", ![c].retry = TRUE]
  /\ UNCHANGED <<serverVars, browserVars, tabVars, flight, logout, causes>>

\* Mutant: the flag is set once the answer is there.
BeginRefreshUnmarked(c) ==
  /\ call[c].st = "denied"
  /\ ~call[c].retry
  /\ ~refreshing[TabOf[c]]
  /\ call' = [call EXCEPT ![c].st = "holding", ![c].retry = TRUE]
  /\ StartFlight(TabOf[c], "refresh")
  /\ UNCHANGED <<serverVars, browserVars, tabVars, logout, lost, stranded>>

BeginRefresh(c) ==
  /\ call[c].st = "denied"
  /\ ~call[c].retry
  /\ ~refreshing[TabOf[c]]
  /\ call' = [call EXCEPT ![c].st = "holding", ![c].retry = TRUE]
  /\ refreshing' = [refreshing EXCEPT ![TabOf[c]] = TRUE]
  /\ StartFlight(TabOf[c], "refresh")
  /\ UNCHANGED <<serverVars, browserVars, mode, leaving, logout, lost, stranded>>

Holds(t, c) == TabOf[c] = t /\ call[c].st = "holding"
Waits(t, c) == TabOf[c] = t /\ call[c].st = "waiting"

\* The calls of tab t in S go out again with token tok.
Resend(t, tok, S) ==
  call' = [c \in Calls |-> IF c \in S THEN [call[c] EXCEPT !.st = "sent", !.tok = tok]
                                      ELSE call[c]]

\* Mutant: drainQueue forgets the queue.
RefreshOkNoDrain(t) ==
  LET f == flight[t]["refresh"] IN
  /\ f.st = "arrived"
  /\ stored' = f.gen
  /\ Resend(t, f.gen, {c \in Calls : Holds(t, c)})
  /\ refreshing' = [refreshing EXCEPT ![t] = FALSE]
  /\ flight' = [flight EXCEPT ![t]["refresh"] = NoFlight]
  /\ UNCHANGED <<serverVars, cookie, mode, leaving, logout, causes>>

\* setToken, drainQueue, retry; the flag drops without waiting for the retry.
RefreshOk(t) ==
  LET f == flight[t]["refresh"] IN
  /\ f.st = "arrived"
  /\ stored' = f.gen
  /\ Resend(t, f.gen, {c \in Calls : Holds(t, c) \/ Waits(t, c)})
  /\ refreshing' = [refreshing EXCEPT ![t] = FALSE]
  /\ flight' = [flight EXCEPT ![t]["refresh"] = NoFlight]
  /\ UNCHANGED <<serverVars, cookie, mode, leaving, logout, causes>>

\* clearSession; only the call that began the refresh is rejected.
RefreshFails(t) ==
  /\ flight[t]["refresh"].st = "failed"
  /\ stored' = NoGen
  /\ leaving' = [leaving EXCEPT ![t] = @ \/ mode[t] # "login"]
  /\ stranded' = stranded \cup {t}
  /\ call' = [c \in Calls |-> IF Holds(t, c) THEN Over("settled")
                                             ELSE call[c]]
  /\ refreshing' = [refreshing EXCEPT ![t] = FALSE]
  /\ flight' = [flight EXCEPT ![t]["refresh"] = NoFlight]
  /\ UNCHANGED <<serverVars, cookie, mode, logout, lost, overlap>>

----------------------------------------------------------------------------
(* Pages: load, probe, login, logout. *)

\* The document is replaced: calls and flights of the old one are dropped, and
\* computeInitialAuth reads the token; an expired one starts the probe.
Load(t) ==
  LET probes == stored \in expired
      answer == \E k \in Kinds : flight[t][k].st = "answered"
  IN
  /\ call' = [c \in Calls |-> IF TabOf[c] = t /\ call[c].st \notin Ended \cup {"idle"}
                                THEN Over("gone") ELSE call[c]]
  /\ refreshing' = [refreshing EXCEPT ![t] = FALSE]
  /\ leaving' = [leaving EXCEPT ![t] = FALSE]
  /\ stranded' = stranded \ {t}
  /\ lost' = (lost \/ answer)
  /\ mode' = [mode EXCEPT ![t] = IF stored = NoGen THEN "login"
                                 ELSE IF probes THEN "blank" ELSE "app"]
  /\ stored' = IF probes THEN NoGen ELSE stored
  /\ flight' = [flight EXCEPT ![t] = [k \in Kinds |->
                  IF k = "probe" /\ probes
                    THEN [st |-> "sent", ck |-> cookie, gen |-> NoGen] ELSE NoFlight]]
  /\ overlap' = (overlap \/ /\ probes /\ cookie # NoGen
                            /\ \/ LogoutTakes
                               \/ \E u \in Tabs : \E j \in Kinds : RefreshTakes(u, j))
  /\ UNCHANGED <<serverVars, cookie, logout>>

\* A navigation that clearSession or logout asked for.
Unload(t) == leaving[t] /\ Load(t)

\* The user reloads the page, or opens it again.
Reload(t) == ~leaving[t] /\ Load(t)

\* The probe's token is set, whatever the valve did meanwhile, and removed
\* again if it reads as expired.
ProbeOk(t) ==
  LET f == flight[t]["probe"] IN
  /\ f.st = "arrived"
  /\ stored' = IF f.gen \in expired THEN NoGen ELSE f.gen
  /\ mode' = [mode EXCEPT ![t] = IF f.gen \notin expired THEN "app"
                                 ELSE IF @ = "blank" THEN "login" ELSE @]
  /\ flight' = [flight EXCEPT ![t]["probe"] = NoFlight]
  /\ UNCHANGED <<serverVars, cookie, leaving, refreshing, call, logout, causes>>

ProbeFails(t) ==
  /\ flight[t]["probe"].st = "failed"
  /\ mode' = [mode EXCEPT ![t] = IF @ = "blank" THEN "login" ELSE @]
  /\ flight' = [flight EXCEPT ![t]["probe"] = NoFlight]
  /\ UNCHANGED <<serverVars, browserVars, leaving, refreshing, call, logout, causes>>

\* The 10 s safety valve: the guards stop waiting, the probe goes on.
SafetyValve(t) ==
  /\ mode[t] = "blank"
  /\ mode' = [mode EXCEPT ![t] = "login"]
  /\ UNCHANGED <<serverVars, browserVars, leaving, refreshing, flight, call, logout, causes>>

Login(t) ==
  /\ mode[t] = "login"
  /\ issued < MaxGen
  /\ issued' = issued + 1
  /\ live' = live \cup {issued + 1}
  /\ cookie' = issued + 1
  /\ stored' = issued + 1
  /\ mode' = [mode EXCEPT ![t] = "app"]
  /\ UNCHANGED <<used, expired, leaving, refreshing, flight, call, logout, causes>>

\* logout: the token is captured and removed, the call survives the page.
Logout(t) ==
  /\ mode[t] = "app"
  /\ logout = NoLogout
  /\ logout' = [st |-> "sent", tok |-> stored, ck |-> cookie]
  /\ stored' = NoGen
  /\ mode' = [mode EXCEPT ![t] = "out"]
  /\ leaving' = [leaving EXCEPT ![t] = TRUE]
  /\ overlap' = (overlap \/ /\ cookie # NoGen /\ Readable(stored)
                            /\ \E u \in Tabs : \E j \in Kinds :
                                 flight[u][j].st = "sent" /\ flight[u][j].ck = cookie)
  /\ UNCHANGED <<serverVars, cookie, refreshing, flight, call, lost, stranded>>

\* The navigation of logout is blocked: after 500 ms the guards send to /login.
LogoutBlocked(t) ==
  /\ mode[t] = "out"
  /\ mode' = [mode EXCEPT ![t] = "login"]
  /\ leaving' = [leaving EXCEPT ![t] = FALSE]
  /\ UNCHANGED <<serverVars, browserVars, refreshing, flight, call, logout, causes>>

----------------------------------------------------------------------------
CallStep(c) ==
  \/ AnswerCall(c) \/ Settle(c) \/ GiveUp(c)
  \/ WaitForRefresh(c) \/ BeginRefresh(c)

FlightStep(t, k) == AnswerRefresh(t, k) \/ ArriveRefresh(t, k)

TabStep(t) == RefreshOk(t) \/ RefreshFails(t) \/ ProbeOk(t) \/ ProbeFails(t)

ClientNext ==
  \/ \E c \in Calls : MakeCall(c) \/ FailCall(c) \/ CallStep(c)
  \/ \E t \in Tabs, k \in Kinds : FlightStep(t, k) \/ LoseRefresh(t, k)
  \/ \E t \in Tabs : TabStep(t) \/ Unload(t) \/ Reload(t) \/ SafetyValve(t)
                     \/ Login(t) \/ Logout(t) \/ LogoutBlocked(t)
  \/ \E g \in Gens : AccessExpires(g)
  \/ AnswerLogout \/ LoseLogout \/ ClearCookie

\* Messages are answered or lost, and callbacks run.  Whether a navigation
\* completes is the browser's affair: the code itself expects it may be blocked.
ClientFairness ==
  /\ \A c \in Calls : WF_clientVars(CallStep(c))
  /\ \A t \in Tabs : \A k \in Kinds : WF_clientVars(FlightStep(t, k) \/ LoseRefresh(t, k))
  /\ \A t \in Tabs : WF_clientVars(TabStep(t))

ClientSpec == ClientInit /\ [][ClientNext]_clientVars
ClientFairSpec == ClientSpec /\ ClientFairness

----------------------------------------------------------------------------
(* Properties. *)

\* A consumed cookie is only ever sent when a refresh and another request that
\* takes its cookie were under way at once (two tabs, as isRefreshing is per tab;
\* or a logout, which does not hold the page back) or the answer that carried
\* the next cookie, or cleared this one, was lost: a lone tab that hears its
\* answers and waits for its logout is never taken for a replay.
ReplayHasCause ==
  \A t \in Tabs : \A k \in Kinds :
     flight[t][k].st = "sent" /\ flight[t][k].ck \in used => lost \/ overlap

\* The cookie the browser holds is one the server still takes for unused, unless
\* the answer that replaces or clears it is on its way or was lost.
CookieCurrent ==
  cookie \in used =>
    \/ lost
    \/ \E t \in Tabs : \E k \in Kinds :
         flight[t][k].st = "answered" /\ flight[t][k].ck = cookie
    \/ logout.st = "accepted" /\ logout.ck = cookie

\* A call in refreshQueue has a refresh of its own tab under way that will
\* drain it, unless a refresh failed in this document: clearSession then leaves
\* the queue as it is, and only the navigation to /login, which it does not ask
\* for at /login, gets rid of it.
QueueHasRefresh ==
  \A c \in Calls : call[c].st = "waiting" =>
     refreshing[TabOf[c]] \/ TabOf[c] \in stranded

\* Every call is settled (resolved or rejected) or gone with its page, or hangs
\* in the queue of a document whose refresh failed.
CallsEnd ==
  \A c \in Calls : call[c].st # "idle" ~>
     \/ call[c].st \in Ended
     \/ call[c].st = "waiting" /\ TabOf[c] \in stranded

----------------------------------------------------------------------------
(* Why the safety properties hold: an inductive invariant. *)

\* Cookies are of generations that were issued, and a tab that is not
\* refreshing has no refresh under way.
FlightsAgree ==
  /\ used \subseteq 1..issued /\ cookie <= issued
  /\ \A t \in Tabs, k \in Kinds : flight[t][k].ck <= issued
  /\ \A t \in Tabs : ~refreshing[t] => flight[t]["refresh"] = NoFlight

\* The generation of an answer that has not arrived is nobody's yet.
AnswersUnseen ==
  \A t \in Tabs, k \in Kinds :
    flight[t][k].st = "answered" =>
      /\ flight[t][k].gen \in (1..issued) \ (used \cup {cookie})
      /\ \A u \in Tabs, j \in Kinds :
           /\ Pending(flight[u][j]) => flight[u][j].ck # flight[t][k].gen
           /\ flight[u][j].st = "answered" /\ flight[u][j].gen = flight[t][k].gen
                => u = t /\ j = k

\* Two refreshes under way with one cookie are marked.
OverlapMarked ==
  \A t, u \in Tabs : \A k, j \in Kinds :
    (/\ flight[t][k].st = "sent" /\ flight[u][j].st = "sent"
     /\ flight[u][j].ck = flight[t][k].ck /\ flight[t][k].ck # NoGen)
      => overlap \/ (u = t /\ j = k)

\* The logout call has a cookie the browser has had, and a refresh under way
\* with the same one is marked.
LogoutMarked ==
  /\ logout.ck <= issued
  /\ logout.st = "sent" =>
       \A t \in Tabs, k \in Kinds :
         /\ flight[t][k].st = "answered" => flight[t][k].gen # logout.ck
         /\ (/\ flight[t][k].st = "sent" /\ flight[t][k].ck = logout.ck
             /\ logout.ck # NoGen /\ Readable(logout.tok))
              => overlap

ClientIInv ==
  /\ ClientTypeOK /\ FlightsAgree /\ AnswersUnseen /\ OverlapMarked /\ LogoutMarked
  /\ ReplayHasCause /\ CookieCurrent /\ QueueHasRefresh
=============================================================================
