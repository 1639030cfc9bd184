-------------------------- MODULE RefreshClientProofs --------------------------
(***************************************************************************)
(* For any number of tabs, calls and generations: why a consumed cookie is *)
(* sent, why the browser may hold one, and what a queued call waits for.   *)
(***************************************************************************)
EXTENDS RefreshClient, TLAPS

LEMMA NoFlightTyped ==
  /\ NoFlight \in Flights /\ NoFlight.st = "none" /\ NoFlight.ck = NoGen
  /\ Failed \in Flights /\ Failed.st = "failed" /\ Failed.ck = NoGen
  /\ \A v \in Values : [st |-> "sent", ck |-> v, gen |-> NoGen] \in Flights
BY MaxGenAssumption DEF NoFlight, Failed, Flights, Values, NoGen

LEMMA ClientInitEstablishes == ClientInit => ClientIInv
<1> SUFFICES ASSUME ClientInit
             PROVE  ClientIInv
  OBVIOUS
<1> USE DEF ClientInit
<1>1. ClientTypeOK
  <2>1. flight \in [Tabs -> [Kinds -> Flights]]
    BY NoFlightTyped
  <2>2. 0 \in Values /\ live \subseteq Gens /\ used \subseteq Gens /\ expired \subseteq Gens
    BY MaxGenAssumption DEF Values
  <2>3. call \in [Calls -> CallRecs]
    BY <2>2 DEF CallRecs, CallStates, NoGen
  <2>4. logout \in Logouts
    BY <2>2 DEF Logouts, NoLogout, NoGen
  <2> QED
    BY <2>1, <2>2, <2>3, <2>4 DEF ClientTypeOK, NoGen
<1>2. FlightsAgree /\ AnswersUnseen /\ OverlapMarked /\ LogoutMarked
  BY NoFlightTyped
     DEF FlightsAgree, AnswersUnseen, OverlapMarked, LogoutMarked, NoLogout, NoGen, Kinds
<1>3. ReplayHasCause /\ CookieCurrent /\ QueueHasRefresh
  BY NoFlightTyped DEF ReplayHasCause, CookieCurrent, QueueHasRefresh
<1> QED
  BY <1>1, <1>2, <1>3 DEF ClientIInv

----------------------------------------------------------------------------
(* What a step does to the refreshes under way. *)

\* What ReplayHasCause and CookieCurrent rest on, but for the flags.
Chain ==
  /\ used \subseteq 1..issued /\ cookie <= issued
  /\ \A t \in Tabs, k \in Kinds : flight[t][k].ck <= issued
  /\ AnswersUnseen /\ OverlapMarked /\ LogoutMarked /\ ReplayHasCause /\ CookieCurrent

LEMMA ChainTypes ==
  ASSUME ClientTypeOK
  PROVE  /\ issued \in Nat /\ cookie \in Nat /\ used \subseteq Nat /\ logout.ck \in Nat
         /\ \A t \in Tabs, k \in Kinds :
              flight[t][k] \in Flights /\ flight[t][k].ck \in Nat /\ flight[t][k].gen \in Nat
BY MaxGenAssumption DEF ClientTypeOK, Values, Gens, Flights, Logouts

\* A refresh goes on as it was, or is over; the answer of one that is dropped
\* is lost.
Fades(u, j) ==
  \/ flight'[u][j] = flight[u][j]
  \/ /\ ~Pending(flight'[u][j])
     /\ flight'[u][j].ck \in {NoGen, flight[u][j].ck}
     /\ flight[u][j].st = "answered" => lost'

\* A logout call goes on as it was, or is over; an accepted one takes the
\* cookie with it or is lost.
LogoutFades ==
  \/ logout' = logout
  \/ /\ logout' = NoLogout
     /\ logout.st = "accepted" => lost' \/ cookie' = NoGen

LEMMA ChainFades ==
  ASSUME ClientTypeOK, Chain, UNCHANGED <<issued, used>>,
         cookie' \in {cookie, NoGen}, expired \subseteq expired', LogoutFades,
         lost => lost', overlap => overlap',
         \A u \in Tabs, j \in Kinds : Fades(u, j)
  PROVE  Chain'
<1>1. /\ issued \in Nat /\ cookie \in Nat /\ used \subseteq Nat /\ logout.ck \in Nat
      /\ \A t \in Tabs, k \in Kinds :
           flight[t][k] \in Flights /\ flight[t][k].ck \in Nat /\ flight[t][k].gen \in Nat
  BY ChainTypes
<1>2. \A u \in Tabs, j \in Kinds :
        \/ flight'[u][j] = flight[u][j]
        \/ /\ flight'[u][j].st \notin {"sent", "answered"}
           /\ flight'[u][j].ck \in {NoGen, flight[u][j].ck}
           /\ flight[u][j].st = "answered" => lost'
  BY DEF Fades, Pending
<1>3. /\ used' \subseteq 1..issued' /\ cookie' <= issued'
      /\ \A t \in Tabs, k \in Kinds : flight'[t][k].ck <= issued'
  BY <1>1, <1>2 DEF Chain, NoGen
<1>4. AnswersUnseen'
  BY <1>1, <1>2 DEF Chain, AnswersUnseen, NoGen, Pending
<1>5. OverlapMarked' /\ ReplayHasCause'
  BY <1>2 DEF Chain, OverlapMarked, ReplayHasCause
<1>6. LogoutMarked'
  <2>1. CASE logout' = logout
    BY <1>2, <2>1 DEF Chain, LogoutMarked, Readable
  <2>2. CASE logout' = NoLogout
    BY <1>1, <2>2 DEF LogoutMarked, NoLogout, NoGen
  <2> QED
    BY <2>1, <2>2 DEF LogoutFades
<1>7. CookieCurrent'
  <2> SUFFICES ASSUME cookie' \in used', ~lost'
               PROVE  \/ \E t \in Tabs, k \in Kinds :
                            flight'[t][k].st = "answered" /\ flight'[t][k].ck = cookie'
                      \/ logout'.st = "accepted" /\ logout'.ck = cookie'
    BY DEF CookieCurrent
  <2>1. cookie' # NoGen /\ cookie' = cookie /\ ~lost
    BY <1>1 DEF Chain, NoGen
  <2>2. CASE logout.st = "accepted" /\ logout.ck = cookie
    BY <2>1, <2>2 DEF LogoutFades
  <2>3. CASE \E t \in Tabs, k \in Kinds :
               flight[t][k].st = "answered" /\ flight[t][k].ck = cookie
    <3>1. PICK t \in Tabs, k \in Kinds :
            flight[t][k].st = "answered" /\ flight[t][k].ck = cookie
      BY <2>3
    <3>2. flight'[t][k] = flight[t][k]
      BY <1>2, <3>1
    <3> QED
      BY <2>1, <3>1, <3>2
  <2> QED
    BY <2>1, <2>2, <2>3 DEF Chain, CookieCurrent
<1> QED
  BY <1>3, <1>4, <1>5, <1>6, <1>7 DEF Chain

\* A refresh or a probe begins with the cookie of the moment; the tab's others
\* may be dropped with their document.
LEMMA ChainStarts ==
  ASSUME ClientTypeOK, Chain, NEW t \in Tabs, NEW k \in Kinds,
         UNCHANGED <<issued, used, cookie, expired, logout>>,
         lost => lost', overlap => overlap',
         flight'[t][k] = [st |-> "sent", ck |-> cookie, gen |-> NoGen],
         flight[t][k].st = "answered" => lost',
         \A u \in Tabs, j \in Kinds : (u # t \/ j # k) => Fades(u, j),
         \A u \in Tabs, j \in Kinds :
           (u # t \/ j # k) /\ RefreshTakes(u, j) /\ cookie # NoGen => overlap',
         LogoutTakes /\ cookie # NoGen => overlap'
  PROVE  Chain'
<1>1. /\ issued \in Nat /\ cookie \in Nat /\ used \subseteq Nat /\ logout.ck \in Nat
      /\ \A u \in Tabs, j \in Kinds :
           flight[u][j] \in Flights /\ flight[u][j].ck \in Nat /\ flight[u][j].gen \in Nat
  BY ChainTypes
<1>2. \A u \in Tabs, j \in Kinds : (u # t \/ j # k) =>
        \/ flight'[u][j] = flight[u][j]
        \/ /\ flight'[u][j].st \notin {"sent", "answered"}
           /\ flight'[u][j].ck \in {NoGen, flight[u][j].ck}
           /\ flight[u][j].st = "answered" => lost'
  BY DEF Fades, Pending
<1>3. flight'[t][k].st = "sent" /\ flight'[t][k].ck = cookie
  OBVIOUS
<1>4. /\ used' \subseteq 1..issued' /\ cookie' <= issued'
      /\ \A u \in Tabs, j \in Kinds : flight'[u][j].ck <= issued'
  BY <1>1, <1>2, <1>3 DEF Chain, NoGen
<1>5. AnswersUnseen'
  <2> SUFFICES ASSUME NEW u \in Tabs, NEW j \in Kinds, flight'[u][j].st = "answered"
               PROVE  /\ flight'[u][j].gen \in (1..issued') \ (used' \cup {cookie'})
                      /\ \A v \in Tabs, i \in Kinds :
                           /\ Pending(flight'[v][i]) => flight'[v][i].ck # flight'[u][j].gen
                           /\ flight'[v][i].st = "answered"
                                /\ flight'[v][i].gen = flight'[u][j].gen => v = u /\ i = j
    BY DEF AnswersUnseen
  <2>1. (u # t \/ j # k) /\ flight'[u][j] = flight[u][j]
    BY <1>2, <1>3
  <2>2. flight[u][j].gen \in (1..issued) \ (used \cup {cookie})
    BY <2>1 DEF Chain, AnswersUnseen
  <2>3. ASSUME NEW v \in Tabs, NEW i \in Kinds
        PROVE  /\ Pending(flight'[v][i]) => flight'[v][i].ck # flight[u][j].gen
               /\ flight'[v][i].st = "answered"
                    /\ flight'[v][i].gen = flight[u][j].gen => v = u /\ i = j
    <3>1. CASE v = t /\ i = k
      BY <3>1, <1>3, <2>2
    <3>2. CASE (v # t \/ i # k) /\ flight'[v][i] = flight[v][i]
      BY <2>1, <3>2 DEF Chain, AnswersUnseen
    <3>3. CASE (v # t \/ i # k) /\ flight'[v][i].st \notin {"sent", "answered"}
      BY <3>3 DEF Pending
    <3> QED
      BY <1>2, <3>1, <3>2, <3>3
  <2> QED
    BY <2>1, <2>2, <2>3
<1>6. OverlapMarked'
  BY <1>2, <1>3 DEF Chain, OverlapMarked, Pending, RefreshTakes
<1>7. LogoutMarked'
  BY <1>2, <1>3 DEF Chain, LogoutMarked, LogoutTakes, Readable
<1>8. cookie \in used => lost' \/ overlap'
  <2>1. cookie \in used => cookie # NoGen
    BY <1>1 DEF Chain, NoGen
  <2> QED
    BY <2>1 DEF Chain, CookieCurrent, Pending, RefreshTakes, LogoutTakes
<1>9. ReplayHasCause'
  BY <1>2, <1>3, <1>8 DEF Chain, ReplayHasCause
<1>10. CookieCurrent'
  BY <1>2 DEF Chain, CookieCurrent
<1> QED
  BY <1>4, <1>5, <1>6, <1>7, <1>9, <1>10 DEF Chain

\* POST /auth/refresh answers.
LEMMA ChainAnswered ==
  ASSUME ClientTypeOK, Chain, NEW t \in Tabs, NEW k \in Kinds, AnswerRefresh(t, k)
  PROVE  Chain'
<1> DEFINE ck == flight[t][k].ck
<1>1. /\ issued \in Nat /\ cookie \in Nat /\ used \subseteq Nat /\ logout.ck \in Nat
      /\ \A u \in Tabs, j \in Kinds :
           flight[u][j] \in Flights /\ flight[u][j].ck \in Nat /\ flight[u][j].gen \in Nat
  BY ChainTypes
<1>2. flight[t][k].st = "sent" /\ UNCHANGED <<cookie, expired, logout, lost, overlap>>
  BY DEF AnswerRefresh, browserVars
<1>3. flight \in [Tabs -> [Kinds -> Flights]]
  BY DEF ClientTypeOK
<1>4. CASE /\ ck \in live
           /\ issued' = issued + 1
           /\ used' = used \cup {ck}
           /\ flight' = [flight EXCEPT ![t][k] = [@ EXCEPT !.st = "answered", !.gen = issued + 1]]
  <2>1. /\ flight'[t][k].st = "answered" /\ flight'[t][k].gen = issued + 1
        /\ flight'[t][k].ck = ck
        /\ \A u \in Tabs, j \in Kinds : (u # t \/ j # k) => flight'[u][j] = flight[u][j]
    <3> DEFINE new == [flight[t][k] EXCEPT !.st = "answered", !.gen = issued + 1]
    <3>1. new.st = "answered" /\ new.gen = issued + 1 /\ new.ck = ck
      BY <1>1 DEF Flights
    <3>2. flight' = [flight EXCEPT ![t] = [flight[t] EXCEPT ![k] = new]]
      BY <1>3, <1>4, Zenon
    <3> HIDE DEF new, ck
    <3>3. /\ flight'[t][k] = new
          /\ \A u \in Tabs, j \in Kinds : (u # t \/ j # k) => flight'[u][j] = flight[u][j]
      BY <1>3, <3>2
    <3> QED
      BY <3>1, <3>3
  <2>2. ck \in 1..issued
    BY <1>1, <1>4 DEF Chain, ClientTypeOK, Gens
  <2>3. /\ used' \subseteq 1..issued' /\ cookie' <= issued'
        /\ \A u \in Tabs, j \in Kinds : flight'[u][j].ck <= issued'
    <3>1. \A u \in Tabs, j \in Kinds : flight'[u][j].ck = flight[u][j].ck
      BY <2>1
    <3> QED
      BY <1>1, <1>2, <1>4, <2>2, <3>1 DEF Chain
  <2>4. AnswersUnseen'
    <3> SUFFICES ASSUME NEW u \in Tabs, NEW j \in Kinds, flight'[u][j].st = "answered"
                 PROVE  /\ flight'[u][j].gen \in (1..issued') \ (used' \cup {cookie'})
                        /\ \A v \in Tabs, i \in Kinds :
                             /\ Pending(flight'[v][i]) => flight'[v][i].ck # flight'[u][j].gen
                             /\ flight'[v][i].st = "answered"
                                  /\ flight'[v][i].gen = flight'[u][j].gen => v = u /\ i = j
      BY DEF AnswersUnseen
    <3>1. CASE u = t /\ j = k
      <4>1. ASSUME NEW v \in Tabs, NEW i \in Kinds
            PROVE  /\ Pending(flight'[v][i]) => flight'[v][i].ck # issued + 1
                   /\ flight'[v][i].st = "answered" /\ flight'[v][i].gen = issued + 1 => v = t /\ i = k
        <5>1. flight'[v][i].ck = flight[v][i].ck /\ flight[v][i].ck <= issued
          BY <2>1 DEF Chain
        <5>2. CASE (v # t \/ i # k) /\ flight[v][i].st = "answered"
          <6>1. flight[v][i].gen \in 1..issued
            BY <5>2 DEF Chain, AnswersUnseen
          <6> QED
            BY <1>1, <2>1, <5>1, <5>2, <6>1
        <5> QED
          BY <1>1, <2>1, <5>1, <5>2
      <4>2. issued + 1 \in (1..issued') \ (used' \cup {cookie'})
        BY <1>1, <1>2, <1>4, <2>2 DEF Chain
      <4> QED
        BY <2>1, <3>1, <4>1, <4>2
    <3>2. CASE u # t \/ j # k
      <4>1. flight'[u][j] = flight[u][j]
        BY <2>1, <3>2
      <4>2. flight[u][j].gen # ck
        BY <1>2, <4>1 DEF Chain, AnswersUnseen, Pending
      <4>3. flight[u][j].gen \in (1..issued') \ (used' \cup {cookie'})
        <5>1. flight[u][j].gen \in (1..issued) \ (used \cup {cookie})
          BY <4>1 DEF Chain, AnswersUnseen
        <5> HIDE DEF ck
        <5> QED
          BY <1>1, <1>2, <1>4, <4>2, <5>1
      <4>4. ASSUME NEW v \in Tabs, NEW i \in Kinds
            PROVE  /\ Pending(flight'[v][i]) => flight'[v][i].ck # flight[u][j].gen
                   /\ flight'[v][i].st = "answered"
                        /\ flight'[v][i].gen = flight[u][j].gen => v = u /\ i = j
        <5>1. CASE v = t /\ i = k
          <6>1. flight[u][j].gen \in 1..issued
            BY <4>1 DEF Chain, AnswersUnseen
          <6> QED
            BY <1>1, <2>1, <4>2, <5>1, <6>1
        <5>2. CASE v # t \/ i # k
          BY <2>1, <4>1, <5>2 DEF Chain, AnswersUnseen
        <5> QED
          BY <5>1, <5>2
      <4> QED
        BY <4>1, <4>3, <4>4
    <3> QED
      BY <3>1, <3>2
  <2>5. OverlapMarked'
    BY <1>2, <2>1 DEF Chain, OverlapMarked
  <2>6. ReplayHasCause'
    BY <1>2, <1>4, <2>1, <2>2 DEF Chain, OverlapMarked, ReplayHasCause, NoGen
  <2>7. CookieCurrent'
    <3>1. CASE cookie = ck
      BY <1>2, <2>1, <3>1 DEF CookieCurrent
    <3>2. CASE cookie # ck
      <4> SUFFICES ASSUME cookie \in used, ~lost,
                          ~(logout.st = "accepted" /\ logout.ck = cookie)
                   PROVE  \E u \in Tabs, j \in Kinds :
                            flight'[u][j].st = "answered" /\ flight'[u][j].ck = cookie
        BY <1>2, <1>4, <3>2 DEF CookieCurrent
      <4>1. PICK u \in Tabs, j \in Kinds :
              flight[u][j].st = "answered" /\ flight[u][j].ck = cookie
        BY DEF Chain, CookieCurrent
      <4> QED
        BY <1>2, <2>1, <4>1
    <3> QED
      BY <3>1, <3>2
  <2>8. LogoutMarked'
    <3>1. logout.ck <= issued /\ logout.ck # issued + 1 /\ logout'.ck <= issued'
      BY <1>1, <1>2, <1>4 DEF Chain, LogoutMarked
    <3> QED
      BY <1>2, <2>1, <3>1 DEF Chain, LogoutMarked, Readable
  <2> QED
    BY <2>3, <2>4, <2>5, <2>6, <2>7, <2>8 DEF Chain
<1>5. CASE /\ flight' = [flight EXCEPT ![t][k] = Failed]
           /\ UNCHANGED <<issued, used>>
  <2>1. \A u \in Tabs, j \in Kinds : Fades(u, j)
    BY <1>2, <1>3, <1>5, NoFlightTyped DEF Fades, Pending
  <2> QED
    BY <1>2, <1>5, <2>1, ChainFades DEF LogoutFades
<1> QED
  BY <1>4, <1>5 DEF AnswerRefresh

\* The new cookie arrives: nobody has had it.
LEMMA ChainArrives ==
  ASSUME ClientTypeOK, Chain, NEW t \in Tabs, NEW k \in Kinds, ArriveRefresh(t, k)
  PROVE  Chain'
<1>1. /\ issued \in Nat /\ cookie \in Nat /\ used \subseteq Nat /\ logout.ck \in Nat
      /\ \A u \in Tabs, j \in Kinds :
           flight[u][j] \in Flights /\ flight[u][j].ck \in Nat /\ flight[u][j].gen \in Nat
  BY ChainTypes
<1>2. /\ flight[t][k].st = "answered" /\ cookie' = flight[t][k].gen
      /\ flight' = [flight EXCEPT ![t][k].st = "arrived"]
      /\ UNCHANGED <<issued, used, expired, logout, lost, overlap>>
  BY DEF ArriveRefresh, serverVars, causes
<1>3. /\ flight'[t][k].st = "arrived" /\ flight'[t][k].ck = flight[t][k].ck
      /\ \A u \in Tabs, j \in Kinds : (u # t \/ j # k) => flight'[u][j] = flight[u][j]
  BY <1>2 DEF ClientTypeOK, Flights
<1>4. cookie' \in (1..issued) \ used
  BY <1>2 DEF Chain, AnswersUnseen
<1>5. /\ used' \subseteq 1..issued' /\ cookie' <= issued'
      /\ \A u \in Tabs, j \in Kinds : flight'[u][j].ck <= issued'
  BY <1>1, <1>2, <1>3, <1>4 DEF Chain
<1>6. AnswersUnseen'
  BY <1>2, <1>3 DEF Chain, AnswersUnseen, Pending
<1>7. OverlapMarked' /\ ReplayHasCause' /\ CookieCurrent'
  BY <1>2, <1>3, <1>4 DEF Chain, OverlapMarked, ReplayHasCause, CookieCurrent
<1>8. LogoutMarked'
  BY <1>2, <1>3 DEF Chain, LogoutMarked, Readable
<1> QED
  BY <1>5, <1>6, <1>7, <1>8 DEF Chain

LEMMA ChainLogin ==
  ASSUME ClientTypeOK, Chain, NEW t \in Tabs, Login(t)
  PROVE  Chain'
<1>1. /\ issued \in Nat /\ cookie \in Nat /\ used \subseteq Nat /\ logout.ck \in Nat
      /\ \A u \in Tabs, j \in Kinds :
           flight[u][j] \in Flights /\ flight[u][j].ck \in Nat /\ flight[u][j].gen \in Nat
  BY ChainTypes
<1>2. /\ issued' = issued + 1 /\ cookie' = issued + 1
      /\ UNCHANGED <<used, flight, expired, logout, lost, overlap>>
  BY DEF Login, causes
<1>3. cookie' \notin used
  BY <1>1, <1>2 DEF Chain
<1>4. /\ used' \subseteq 1..issued' /\ cookie' <= issued'
      /\ \A u \in Tabs, j \in Kinds : flight'[u][j].ck <= issued'
  BY <1>1, <1>2 DEF Chain
<1>5. AnswersUnseen'
  BY <1>1, <1>2 DEF Chain, AnswersUnseen
<1>6. OverlapMarked' /\ ReplayHasCause' /\ CookieCurrent'
  BY <1>2, <1>3 DEF Chain, OverlapMarked, ReplayHasCause, CookieCurrent
<1>7. LogoutMarked'
  BY <1>1, <1>2 DEF Chain, LogoutMarked, Readable
<1> QED
  BY <1>4, <1>5, <1>6, <1>7 DEF Chain

\* The user logs out: a refresh under way with the same cookie is marked.
LEMMA ChainLogout ==
  ASSUME ClientTypeOK, Chain, NEW t \in Tabs, Logout(t)
  PROVE  Chain'
<1>1. /\ logout = NoLogout /\ logout' = [st |-> "sent", tok |-> stored, ck |-> cookie]
      /\ UNCHANGED <<issued, used, expired, cookie, flight, lost>>
      /\ overlap => overlap'
      /\ \A u \in Tabs, j \in Kinds :
           (/\ flight[u][j].st = "sent" /\ flight[u][j].ck = cookie
            /\ cookie # NoGen /\ Readable(stored))
             => overlap'
  BY DEF Logout, serverVars
<1>2. AnswersUnseen' /\ OverlapMarked' /\ ReplayHasCause'
  BY <1>1 DEF Chain, AnswersUnseen, OverlapMarked, ReplayHasCause, Pending
<1>3. CookieCurrent'
  BY <1>1 DEF Chain, CookieCurrent, NoLogout
<1>4. LogoutMarked'
  BY <1>1 DEF Chain, LogoutMarked, AnswersUnseen, Readable
<1> QED
  BY <1>1, <1>2, <1>3, <1>4 DEF Chain

\* POST /auth/logout answers: its cookie joins the used ones.
LEMMA ChainLogoutAnswered ==
  ASSUME ClientTypeOK, Chain, AnswerLogout
  PROVE  Chain'
<1> DEFINE ck == logout.ck
<1>1. /\ issued \in Nat /\ cookie \in Nat /\ used \subseteq Nat /\ ck \in Nat
      /\ \A u \in Tabs, j \in Kinds :
           flight[u][j] \in Flights /\ flight[u][j].ck \in Nat /\ flight[u][j].gen \in Nat
  BY ChainTypes
<1>2. /\ logout.st = "sent" /\ logout \in Logouts
      /\ UNCHANGED <<issued, expired, cookie, flight, lost, overlap>>
  BY DEF AnswerLogout, browserVars, causes, ClientTypeOK
<1>3. CASE ~Readable(logout.tok)
  <2>1. LogoutFades /\ UNCHANGED used
    BY <1>2, <1>3 DEF AnswerLogout, LogoutFades
  <2>2. \A u \in Tabs, j \in Kinds : Fades(u, j)
    BY <1>2 DEF Fades
  <2> QED
    BY <1>2, <2>1, <2>2, ChainFades
<1>4. CASE Readable(logout.tok)
  <2>1. /\ logout'.st = "accepted" /\ logout'.ck = ck
        /\ used' = used \cup ({ck} \cap live)
    BY <1>2, <1>4 DEF AnswerLogout, Logouts
  <2>2. /\ {ck} \cap live \subseteq 1..issued
        /\ \A v \in used' : v \in used \/ (v = ck /\ ck # NoGen)
    BY <1>1, <2>1 DEF Chain, LogoutMarked, ClientTypeOK, Gens, NoGen
  <2>3. AnswersUnseen'
    BY <1>2, <2>2 DEF Chain, AnswersUnseen, LogoutMarked, Pending
  <2>4. OverlapMarked' /\ LogoutMarked'
    BY <1>2, <2>1 DEF Chain, OverlapMarked, LogoutMarked
  <2>5. ReplayHasCause'
    BY <1>2, <1>4, <2>2 DEF Chain, ReplayHasCause, LogoutMarked
  <2>6. CookieCurrent'
    BY <1>2, <2>1, <2>2 DEF Chain, CookieCurrent
  <2> QED
    BY <1>1, <1>2, <2>1, <2>2, <2>3, <2>4, <2>5, <2>6 DEF Chain
<1> QED
  BY <1>3, <1>4

----------------------------------------------------------------------------
(* What the updates of one call and of one flight do. *)

\* A tab that is not refreshing has no refresh under way.
Marked == \A t \in Tabs : ~refreshing[t] => flight[t]["refresh"] = NoFlight

LEMMA InvariantParts ==
  /\ ClientIInv <=> ClientTypeOK /\ Chain /\ Marked /\ QueueHasRefresh
  /\ ClientTypeOK' /\ Chain' /\ Marked' /\ QueueHasRefresh' => ClientIInv'
BY DEF ClientIInv, FlightsAgree, Chain, Marked

LEMMA CallSet ==
  ASSUME ClientTypeOK, NEW c \in Calls, NEW r \in CallRecs,
         call' = [call EXCEPT ![c] = r]
  PROVE  /\ call' \in [Calls -> CallRecs] /\ call'[c] = r
         /\ \A d \in Calls : d # c => call'[d] = call[d]
BY DEF ClientTypeOK

LEMMA FlightSet ==
  ASSUME ClientTypeOK, NEW t \in Tabs, NEW k \in Kinds, NEW f \in Flights,
         flight' = [flight EXCEPT ![t][k] = f]
  PROVE  /\ flight' \in [Tabs -> [Kinds -> Flights]] /\ flight'[t][k] = f
         /\ \A u \in Tabs, j \in Kinds : (u # t \/ j # k) => flight'[u][j] = flight[u][j]
BY DEF ClientTypeOK

----------------------------------------------------------------------------
(* One step at a time. *)

\* A call goes out, is answered, settles or joins the queue.
LEMMA CallPreserves ==
  ASSUME ClientIInv, NEW c \in Calls,
         \/ MakeCall(c) \/ FailCall(c) \/ AnswerCall(c) \/ Settle(c) \/ GiveUp(c)
         \/ WaitForRefresh(c)
  PROVE  ClientIInv'
<1>1. ClientTypeOK /\ Chain /\ Marked /\ QueueHasRefresh
  BY InvariantParts
<1>2. UNCHANGED <<serverVars, browserVars, tabVars, flight, logout, causes>>
  BY DEF MakeCall, FailCall, AnswerCall, Settle, GiveUp, WaitForRefresh
<1> USE DEF serverVars, browserVars, tabVars, causes
<1>3. Chain' /\ Marked'
  <2>1. \A u \in Tabs, j \in Kinds : Fades(u, j)
    BY <1>2 DEF Fades
  <2> QED
    BY <1>1, <1>2, <2>1, ChainFades DEF Marked, LogoutFades
<1>4. PICK r \in CallRecs : /\ call' = [call EXCEPT ![c] = r]
                            /\ r.st = "waiting" => refreshing[TabOf[c]]
  <2>1. call[c] \in CallRecs /\ 0 \in Values /\ stored \in Values
    BY <1>1, MaxGenAssumption DEF ClientTypeOK, Values
  <2>2. CASE AnswerCall(c)
    <3> DEFINE how == IF Accepts(call[c].tok) THEN "ok" ELSE "denied"
               new == [call[c] EXCEPT !.st = how, !.tok = NoGen]
    <3>1. new \in CallRecs /\ new.st # "waiting"
      BY <2>1 DEF CallRecs, CallStates, NoGen
    <3>2. call' = [call EXCEPT ![c] = new]
      BY <1>1, <2>2 DEF AnswerCall, ClientTypeOK
    <3> HIDE DEF new
    <3> QED
      BY <3>1, <3>2
  <2>3. CASE FailCall(c) \/ Settle(c) \/ GiveUp(c)
    BY <2>1, <2>3 DEF FailCall, Settle, GiveUp, Over, CallRecs, CallStates, NoGen
  <2>4. CASE MakeCall(c)
    <3> DEFINE new == [call[c] EXCEPT !.st = "sent", !.tok = stored]
    <3>1. new \in CallRecs /\ new.st = "sent"
      BY <2>1 DEF CallRecs, CallStates
    <3>2. call' = [call EXCEPT ![c] = new]
      BY <1>1, <2>4 DEF MakeCall, ClientTypeOK
    <3> QED
      BY <3>1, <3>2
  <2>5. CASE WaitForRefresh(c)
    <3> DEFINE new == [call[c] EXCEPT !.st = "waiting", !.retry = TRUE]
    <3>1. new \in CallRecs
      BY <2>1 DEF CallRecs, CallStates
    <3>2. call' = [call EXCEPT ![c] = new]
      BY <1>1, <2>5 DEF WaitForRefresh, ClientTypeOK
    <3> QED
      BY <2>5, <3>1, <3>2 DEF WaitForRefresh
  <2> QED
    BY <2>2, <2>3, <2>4, <2>5
<1>5. /\ call' \in [Calls -> CallRecs] /\ call'[c] = r
      /\ \A d \in Calls : d # c => call'[d] = call[d]
  BY <1>1, <1>4, CallSet
<1>6. ClientTypeOK'
  BY <1>1, <1>2, <1>5 DEF ClientTypeOK
<1>7. QueueHasRefresh'
  BY <1>1, <1>2, <1>4, <1>5 DEF QueueHasRefresh
<1> QED
  BY <1>3, <1>6, <1>7, InvariantParts

\* A call begins the refresh of its tab.
LEMMA BeginRefreshPreserves ==
  ASSUME ClientIInv, NEW c \in Calls, BeginRefresh(c)
  PROVE  ClientIInv'
<1> DEFINE t == TabOf[c]
           f == [st |-> "sent", ck |-> cookie, gen |-> NoGen]
           r == [call[c] EXCEPT !.st = "holding", !.retry = TRUE]
<1>1. ClientTypeOK /\ Chain /\ Marked /\ QueueHasRefresh
  BY InvariantParts
<1>2. /\ UNCHANGED <<serverVars, browserVars, mode, leaving, logout, lost, stranded>>
      /\ ~refreshing[t] /\ refreshing' = [refreshing EXCEPT ![t] = TRUE]
      /\ flight' = [flight EXCEPT ![t]["refresh"] = f]
      /\ overlap' = (overlap \/ /\ cookie # NoGen
                                /\ \/ LogoutTakes
                                   \/ \E u \in Tabs : \E j \in Kinds :
                                        <<u, j>> # <<t, "refresh">> /\ RefreshTakes(u, j))
  BY DEF BeginRefresh, StartFlight
<1> USE DEF serverVars, browserVars
<1>3. t \in Tabs /\ "refresh" \in Kinds
  BY TabOfAssumption DEF Kinds
<1>4. f \in Flights
  BY <1>1, NoFlightTyped DEF ClientTypeOK
<1>5. /\ flight' \in [Tabs -> [Kinds -> Flights]] /\ flight'[t]["refresh"] = f
      /\ \A u \in Tabs, j \in Kinds :
           (u # t \/ j # "refresh") => flight'[u][j] = flight[u][j]
  <2>1. ClientTypeOK /\ flight' = [flight EXCEPT ![t]["refresh"] = f]
    BY <1>1, <1>2
  <2> HIDE DEF t, f, r
  <2> QED
    BY ONLY <1>3, <1>4, <2>1, FlightSet, ZenonT(60)
<1>6. Chain'
  <2>1. \A u \in Tabs, j \in Kinds : (u # t \/ j # "refresh") => Fades(u, j)
    BY <1>5 DEF Fades
  <2>2. flight[t]["refresh"].st # "answered"
    BY <1>1, <1>2, <1>3, NoFlightTyped DEF Marked
  <2>3. \A u \in Tabs, j \in Kinds :
          (u # t \/ j # "refresh") /\ RefreshTakes(u, j) /\ cookie # NoGen => overlap'
    BY <1>2
  <2>4. /\ lost => lost'
        /\ overlap => overlap'
        /\ LogoutTakes /\ cookie # NoGen => overlap'
        /\ UNCHANGED <<issued, used, cookie, expired, logout>>
    BY <1>2
  <2> HIDE DEF t
  <2> QED
    BY <1>1, <1>3, <1>5, <2>1, <2>2, <2>3, <2>4, ChainStarts
<1>7. refreshing' \in [Tabs -> BOOLEAN] /\ \A u \in Tabs : refreshing[u] => refreshing'[u]
  BY <1>1, <1>2 DEF ClientTypeOK
<1>8. Marked'
  BY <1>1, <1>2, <1>3, <1>5 DEF Marked, Kinds, ClientTypeOK
<1>9. r \in CallRecs /\ r.st = "holding" /\ call' = [call EXCEPT ![c] = r]
  <2>1. call[c] \in CallRecs
    BY <1>1 DEF ClientTypeOK
  <2>2. r \in CallRecs /\ r.st = "holding"
    BY <2>1 DEF CallRecs, CallStates
  <2>3. call' = [call EXCEPT ![c] = r]
    BY <1>1 DEF BeginRefresh, ClientTypeOK
  <2> QED
    BY <2>2, <2>3
<1>10. /\ call' \in [Calls -> CallRecs] /\ call'[c] = r
       /\ \A d \in Calls : d # c => call'[d] = call[d]
  <2> HIDE DEF r
  <2> QED
    BY <1>1, <1>9, CallSet
<1>11. overlap' \in BOOLEAN
  BY <1>1, <1>2 DEF ClientTypeOK
<1>12. ClientTypeOK'
  BY <1>1, <1>2, <1>5, <1>7, <1>10, <1>11 DEF ClientTypeOK
<1>13. QueueHasRefresh'
  BY <1>1, <1>2, <1>7, <1>9, <1>10, TabOfAssumption DEF QueueHasRefresh
<1> QED
  BY <1>6, <1>8, <1>12, <1>13, InvariantParts

\* Steps that leave the calls, the flags and the generations as they are.
LEMMA QuietPreserves ==
  ASSUME ClientIInv, ClientTypeOK', Chain',
         UNCHANGED <<call, refreshing, stranded>>,
         \A t \in Tabs : flight[t]["refresh"] = NoFlight => flight'[t]["refresh"] = NoFlight
  PROVE  ClientIInv'
<1>1. ClientTypeOK /\ Chain /\ Marked /\ QueueHasRefresh
  BY InvariantParts
<1>2. Marked' /\ QueueHasRefresh'
  BY <1>1 DEF Marked, QueueHasRefresh
<1> QED
  BY <1>2, InvariantParts

\* A refresh or a probe is answered, lost, or reaches the browser.
LEMMA FlightPreserves ==
  ASSUME ClientIInv, NEW t \in Tabs, NEW k \in Kinds,
         AnswerRefresh(t, k) \/ ArriveRefresh(t, k) \/ LoseRefresh(t, k)
  PROVE  ClientIInv'
<1> DEFINE old == flight[t][k]
<1> USE DEF serverVars, browserVars, tabVars, causes
<1>1. ClientTypeOK /\ Chain /\ Marked /\ QueueHasRefresh
  BY InvariantParts
<1>2. /\ old \in Flights /\ old.gen \in Values
      /\ issued \in Nat /\ issued <= MaxGen
  BY <1>1, MaxGenAssumption DEF ClientTypeOK, Flights, Values
<1>3. /\ UNCHANGED <<expired, stored, mode, leaving, refreshing, call, logout, overlap, stranded>>
      /\ old.st \in {"sent", "answered"}
  BY DEF AnswerRefresh, ArriveRefresh, LoseRefresh, Pending
<1>4. PICK f \in Flights : flight' = [flight EXCEPT ![t][k] = f]
  <2>1. [old EXCEPT !.st = "arrived"] \in Flights
    BY <1>2 DEF Flights
  <2>2. ASSUME issued < MaxGen
        PROVE  [old EXCEPT !.st = "answered", !.gen = issued + 1] \in Flights
    <3>1. issued + 1 \in Values
      BY <1>2, <2>2, MaxGenAssumption DEF Values
    <3> QED
      BY <1>2, <3>1 DEF Flights
  <2>3. CASE AnswerRefresh(t, k)
    BY <2>2, <2>3, NoFlightTyped DEF AnswerRefresh
  <2>4. CASE ArriveRefresh(t, k)
    BY <2>1, <2>4 DEF ArriveRefresh
  <2>5. CASE LoseRefresh(t, k)
    BY <2>5, NoFlightTyped DEF LoseRefresh
  <2> QED
    BY <2>3, <2>4, <2>5
<1>5. /\ flight' \in [Tabs -> [Kinds -> Flights]] /\ flight'[t][k] = f
      /\ \A u \in Tabs, j \in Kinds : (u # t \/ j # k) => flight'[u][j] = flight[u][j]
  BY <1>1, <1>4, FlightSet, ZenonT(60)
<1>6. ClientTypeOK'
  <2>1. issued' \in Values /\ live' \subseteq Gens /\ used' \subseteq Gens
    <3>1. CASE AnswerRefresh(t, k)
      BY <1>1, <1>2, <3>1, MaxGenAssumption
         DEF AnswerRefresh, Rotate, ClientTypeOK, Values, Gens
    <3>2. CASE ArriveRefresh(t, k) \/ LoseRefresh(t, k)
      BY <1>1, <3>2 DEF ArriveRefresh, LoseRefresh, ClientTypeOK
    <3> QED
      BY <3>1, <3>2
  <2>2. cookie' \in Values /\ lost' \in BOOLEAN
    BY <1>1, <1>2 DEF AnswerRefresh, ArriveRefresh, LoseRefresh, ClientTypeOK
  <2> QED
    BY <1>1, <1>3, <1>5, <2>1, <2>2 DEF ClientTypeOK
<1>7. Chain'
  <2>1. CASE LoseRefresh(t, k)
    <3>1. /\ UNCHANGED <<issued, used, expired, cookie, logout, overlap>>
          /\ flight' = [flight EXCEPT ![t][k] = Failed]
          /\ lost' = (lost \/ flight[t][k].st = "answered")
      BY <2>1 DEF LoseRefresh
    <3>2. flight'[t][k] = Failed
      BY <1>1, <3>1 DEF ClientTypeOK
    <3>3. \A u \in Tabs, j \in Kinds : Fades(u, j)
      BY <1>5, <3>1, <3>2, NoFlightTyped DEF Fades, Pending
    <3> QED
      BY <1>1, <3>1, <3>3, ChainFades DEF LogoutFades
  <2> QED
    BY <1>1, <2>1, ChainAnswered, ChainArrives
<1>8. \A u \in Tabs : flight[u]["refresh"] = NoFlight => flight'[u]["refresh"] = NoFlight
  BY <1>3, <1>5, NoFlightTyped DEF Kinds
<1> QED
  BY <1>3, <1>6, <1>7, <1>8, QuietPreserves

\* The refresh of a tab succeeds: whoever held or waited goes out again.
LEMMA RefreshOkPreserves ==
  ASSUME ClientIInv, NEW t \in Tabs, RefreshOk(t)
  PROVE  ClientIInv'
<1> DEFINE f == flight[t]["refresh"]
           Again(c) == Holds(t, c) \/ Waits(t, c)
<1> USE DEF serverVars, causes
<1>1. ClientTypeOK /\ Chain /\ Marked /\ QueueHasRefresh
  BY InvariantParts
<1>2. /\ f.st = "arrived" /\ stored' = f.gen
      /\ refreshing' = [refreshing EXCEPT ![t] = FALSE]
      /\ flight' = [flight EXCEPT ![t]["refresh"] = NoFlight]
      /\ UNCHANGED <<serverVars, cookie, mode, leaving, logout, causes>>
  BY DEF RefreshOk
<1>3. "refresh" \in Kinds /\ NoFlight \in Flights
  BY NoFlightTyped DEF Kinds
<1>4. /\ flight' \in [Tabs -> [Kinds -> Flights]] /\ flight'[t]["refresh"] = NoFlight
      /\ \A u \in Tabs, j \in Kinds :
           (u # t \/ j # "refresh") => flight'[u][j] = flight[u][j]
  BY <1>1, <1>2, <1>3, FlightSet, ZenonT(60)
<1>5. Chain'
  <2>1. \A u \in Tabs, j \in Kinds : Fades(u, j)
    BY <1>2, <1>4, NoFlightTyped DEF Fades, Pending
  <2> QED
    BY <1>1, <1>2, <2>1, ChainFades DEF LogoutFades
<1>6. Marked'
  BY <1>1, <1>2, <1>3, <1>4 DEF Marked, ClientTypeOK
<1>7. /\ call' \in [Calls -> CallRecs]
      /\ \A c \in Calls : call'[c].st = "waiting" => call[c].st = "waiting" /\ TabOf[c] # t
  <2>1. f.gen \in Values
    BY <1>1, <1>3 DEF ClientTypeOK, Flights
  <2>2. call' = [c \in Calls |-> IF c \in {d \in Calls : Again(d)}
                                   THEN [call[c] EXCEPT !.st = "sent", !.tok = f.gen]
                                   ELSE call[c]]
    BY DEF RefreshOk, Resend
  <2>3. ASSUME NEW c \in Calls
        PROVE  /\ call'[c] \in CallRecs
               /\ call'[c].st = "waiting" => call[c].st = "waiting" /\ TabOf[c] # t
    <3>1. call[c] \in CallRecs
      BY <1>1 DEF ClientTypeOK
    <3>2. CASE Again(c)
      <4>1. call'[c] = [call[c] EXCEPT !.st = "sent", !.tok = f.gen]
        BY <2>2, <3>2
      <4> HIDE DEF f
      <4> QED
        BY <2>1, <3>1, <4>1 DEF CallRecs, CallStates
    <3>3. CASE ~Again(c)
      <4>1. call'[c] = call[c]
        BY <2>2, <3>3
      <4> QED
        BY <3>1, <3>3, <4>1 DEF Waits
    <3> QED
      BY <3>2, <3>3
  <2> QED
    BY <2>2, <2>3
<1>8. ClientTypeOK'
  <2>1. stored' \in Values /\ refreshing' \in [Tabs -> BOOLEAN]
    BY <1>1, <1>2, <1>3 DEF ClientTypeOK, Flights
  <2> QED
    BY <1>1, <1>2, <1>4, <1>7, <2>1 DEF ClientTypeOK
<1>9. QueueHasRefresh'
  BY <1>1, <1>2, <1>7, TabOfAssumption DEF QueueHasRefresh, ClientTypeOK
<1> QED
  BY <1>5, <1>6, <1>8, <1>9, InvariantParts

\* The refresh of a tab fails: its document is marked, and its queue stays.
LEMMA RefreshFailsPreserves ==
  ASSUME ClientIInv, NEW t \in Tabs, RefreshFails(t)
  PROVE  ClientIInv'
<1> USE DEF serverVars
<1>1. ClientTypeOK /\ Chain /\ Marked /\ QueueHasRefresh
  BY InvariantParts
<1>2. /\ flight[t]["refresh"].st = "failed" /\ stored' = NoGen
      /\ leaving' = [leaving EXCEPT ![t] = @ \/ mode[t] # "login"]
      /\ stranded' = stranded \cup {t}
      /\ refreshing' = [refreshing EXCEPT ![t] = FALSE]
      /\ flight' = [flight EXCEPT ![t]["refresh"] = NoFlight]
      /\ UNCHANGED <<serverVars, cookie, mode, logout, lost, overlap>>
  BY DEF RefreshFails
<1>3. "refresh" \in Kinds /\ NoFlight \in Flights
  BY NoFlightTyped DEF Kinds
<1>4. /\ flight' \in [Tabs -> [Kinds -> Flights]] /\ flight'[t]["refresh"] = NoFlight
      /\ \A u \in Tabs, j \in Kinds :
           (u # t \/ j # "refresh") => flight'[u][j] = flight[u][j]
  BY <1>1, <1>2, <1>3, FlightSet, ZenonT(60)
<1>5. Chain'
  <2>1. \A u \in Tabs, j \in Kinds : Fades(u, j)
    BY <1>2, <1>4, NoFlightTyped DEF Fades, Pending
  <2> QED
    BY <1>1, <1>2, <2>1, ChainFades DEF LogoutFades
<1>6. Marked'
  BY <1>1, <1>2, <1>3, <1>4 DEF Marked, ClientTypeOK
<1>7. /\ call' \in [Calls -> CallRecs]
      /\ \A c \in Calls : call'[c].st = "waiting" => call[c].st = "waiting"
  <2>1. Over("settled") \in CallRecs /\ Over("settled").st # "waiting"
    BY MaxGenAssumption DEF Over, CallRecs, CallStates, Values, NoGen
  <2> QED
    BY <1>1, <2>1 DEF RefreshFails, ClientTypeOK
<1>8. ClientTypeOK'
  <2>1. stored' \in Values
    BY <1>2, MaxGenAssumption DEF Values, NoGen
  <2>2. refreshing' \in [Tabs -> BOOLEAN] /\ leaving' \in [Tabs -> BOOLEAN]
    BY <1>1, <1>2 DEF ClientTypeOK
  <2> QED
    BY <1>1, <1>2, <1>4, <1>7, <2>1, <2>2 DEF ClientTypeOK
<1>9. QueueHasRefresh'
  BY <1>1, <1>2, <1>7, TabOfAssumption DEF QueueHasRefresh, ClientTypeOK
<1> QED
  BY <1>5, <1>6, <1>8, <1>9, InvariantParts

\* The probe of a page load ends, with a token or without.
LEMMA ProbePreserves ==
  ASSUME ClientIInv, NEW t \in Tabs, ProbeOk(t) \/ ProbeFails(t)
  PROVE  ClientIInv'
<1> USE DEF serverVars, browserVars, causes
<1>1. ClientTypeOK /\ Chain /\ Marked /\ QueueHasRefresh
  BY InvariantParts
<1>2. /\ flight[t]["probe"].st \in {"arrived", "failed"}
      /\ flight' = [flight EXCEPT ![t]["probe"] = NoFlight]
      /\ UNCHANGED <<serverVars, cookie, leaving, refreshing, call, logout, causes>>
  BY DEF ProbeOk, ProbeFails
<1>3. "probe" \in Kinds /\ "refresh" \in Kinds /\ NoFlight \in Flights
  BY NoFlightTyped DEF Kinds
<1>4. /\ flight' \in [Tabs -> [Kinds -> Flights]] /\ flight'[t]["probe"] = NoFlight
      /\ \A u \in Tabs, j \in Kinds :
           (u # t \/ j # "probe") => flight'[u][j] = flight[u][j]
  BY <1>1, <1>2, <1>3, FlightSet, ZenonT(60)
<1>5. Chain'
  <2>1. \A u \in Tabs, j \in Kinds : Fades(u, j)
    BY <1>2, <1>4, NoFlightTyped DEF Fades, Pending
  <2> QED
    BY <1>1, <1>2, <2>1, ChainFades DEF LogoutFades
<1>6. ClientTypeOK'
  <2>1. stored' \in Values
    <3>1. stored \in Values /\ flight[t]["probe"].gen \in Values /\ NoGen \in Values
      BY <1>1, <1>3, MaxGenAssumption DEF ClientTypeOK, Flights, Values, NoGen
    <3> QED
      BY <3>1 DEF ProbeOk, ProbeFails
  <2>2. mode' \in [Tabs -> {"blank", "login", "app", "out"}]
    BY <1>1 DEF ProbeOk, ProbeFails, ClientTypeOK
  <2> QED
    BY <1>1, <1>2, <1>4, <2>1, <2>2 DEF ClientTypeOK
<1>7. \A u \in Tabs : flight[u]["refresh"] = NoFlight => flight'[u]["refresh"] = NoFlight
  BY <1>3, <1>4
<1> QED
  BY <1>2, <1>5, <1>6, <1>7, QuietPreserves

\* A document is replaced: its calls and flights go, and an expired token
\* starts a probe.
LEMMA LoadPreserves ==
  ASSUME ClientIInv, NEW t \in Tabs, Load(t)
  PROVE  ClientIInv'
<1> DEFINE probes == stored \in expired
           fresh == [st |-> "sent", ck |-> cookie, gen |-> NoGen]
           row == [k \in Kinds |-> IF k = "probe" /\ probes THEN fresh ELSE NoFlight]
           answer == \E k \in Kinds : flight[t][k].st = "answered"
<1> USE DEF serverVars
<1>1. ClientTypeOK /\ Chain /\ Marked /\ QueueHasRefresh
  BY InvariantParts
<1>2. /\ refreshing' = [refreshing EXCEPT ![t] = FALSE]
      /\ leaving' = [leaving EXCEPT ![t] = FALSE]
      /\ stranded' = stranded \ {t}
      /\ stored' = IF probes THEN NoGen ELSE stored
      /\ flight' = [flight EXCEPT ![t] = row]
      /\ UNCHANGED <<issued, live, used, expired, cookie, logout>>
  BY DEF Load
<1>3. "probe" \in Kinds /\ "refresh" \in Kinds /\ NoFlight \in Flights /\ fresh \in Flights
  BY <1>1, NoFlightTyped DEF Kinds, ClientTypeOK
<1>4. /\ flight' \in [Tabs -> [Kinds -> Flights]]
      /\ \A u \in Tabs, j \in Kinds :
           flight'[u][j] = IF u # t THEN flight[u][j]
                           ELSE IF j = "probe" /\ probes THEN fresh ELSE NoFlight
  <2>1. row \in [Kinds -> Flights]
    BY <1>3
  <2>2. \A j \in Kinds : row[j] = IF j = "probe" /\ probes THEN fresh ELSE NoFlight
    OBVIOUS
  <2> HIDE DEF row, fresh, probes
  <2> QED
    BY <1>1, <1>2, <2>1, <2>2 DEF ClientTypeOK
<1>5. \A u \in Tabs, j \in Kinds :
         probes /\ RefreshTakes(u, j) /\ cookie # NoGen => overlap'
  BY Zenon DEF Load
<1>6. /\ lost => lost'
      /\ overlap => overlap'
      /\ answer => lost'
      /\ probes /\ LogoutTakes /\ cookie # NoGen => overlap'
  BY DEF Load
<1>7. Chain'
  <2>1. CASE ~probes
    <3>1. \A u \in Tabs, j \in Kinds : Fades(u, j)
      BY <1>4, <1>6, <2>1, NoFlightTyped DEF Fades, Pending
    <3> QED
      BY <1>1, <1>2, <1>6, <3>1, ChainFades DEF LogoutFades
  <2>2. CASE probes
    <3>1. flight'[t]["probe"] = fresh
      BY <1>3, <1>4, <2>2
    <3>2. flight[t]["probe"].st = "answered" => lost'
      BY <1>3, <1>6
    <3>3. \A u \in Tabs, j \in Kinds : (u # t \/ j # "probe") => Fades(u, j)
      BY <1>4, <1>6, NoFlightTyped DEF Fades, Pending
    <3>4. \A u \in Tabs, j \in Kinds :
            (u # t \/ j # "probe") /\ RefreshTakes(u, j) /\ cookie # NoGen => overlap'
      BY <1>5, <2>2
    <3>5. LogoutTakes /\ cookie # NoGen => overlap'
      BY <1>6, <2>2
    <3> HIDE DEF probes, answer
    <3> QED
      BY <1>1, <1>2, <1>3, <3>1, <3>2, <3>3, <3>4, <3>5, <1>6, ChainStarts
  <2> QED
    BY <2>1, <2>2
<1>8. Marked'
  BY <1>1, <1>2, <1>3, <1>4 DEF Marked, ClientTypeOK
<1>9. /\ call' \in [Calls -> CallRecs]
      /\ \A c \in Calls : call'[c].st = "waiting" => call[c].st = "waiting" /\ TabOf[c] # t
  <2>1. Over("gone") \in CallRecs /\ Over("gone").st # "waiting"
    BY MaxGenAssumption DEF Over, CallRecs, CallStates, Values, NoGen
  <2>2. call' = [c \in Calls |-> IF TabOf[c] = t /\ call[c].st \notin Ended \cup {"idle"}
                                   THEN Over("gone") ELSE call[c]]
    BY DEF Load
  <2> QED
    BY <1>1, <2>1, <2>2 DEF ClientTypeOK, Ended
<1>10. ClientTypeOK'
  <2>1. stored' \in Values
    BY <1>1, <1>2, MaxGenAssumption DEF ClientTypeOK, Values, NoGen
  <2>2. /\ refreshing' \in [Tabs -> BOOLEAN] /\ leaving' \in [Tabs -> BOOLEAN]
        /\ stranded' \subseteq Tabs
    BY <1>1, <1>2 DEF ClientTypeOK
  <2>3. mode' \in [Tabs -> {"blank", "login", "app", "out"}]
    BY <1>1 DEF Load, ClientTypeOK
  <2>4. lost' \in BOOLEAN /\ overlap' \in BOOLEAN
    BY <1>1 DEF Load, ClientTypeOK
  <2> QED
    BY <1>1, <1>2, <1>4, <1>9, <2>1, <2>2, <2>3, <2>4 DEF ClientTypeOK
<1>11. QueueHasRefresh'
  BY <1>1, <1>2, <1>9, TabOfAssumption DEF QueueHasRefresh, ClientTypeOK
<1> QED
  BY <1>7, <1>8, <1>10, <1>11, InvariantParts

\* Tokens expire; a logout is answered and takes the cookie away; pages wait,
\* log in and log out.
LEMMA PagePreserves ==
  ASSUME ClientIInv,
         \/ \E g \in Gens : AccessExpires(g)
         \/ AnswerLogout \/ LoseLogout \/ ClearCookie
         \/ \E t \in Tabs : SafetyValve(t) \/ Login(t) \/ Logout(t) \/ LogoutBlocked(t)
  PROVE  ClientIInv'
<1> USE DEF serverVars, browserVars, causes
<1>1. ClientTypeOK /\ Chain /\ Marked /\ QueueHasRefresh
  BY InvariantParts
<1>2. UNCHANGED <<flight, call, refreshing, stranded>>
  BY DEF AccessExpires, AnswerLogout, LoseLogout, ClearCookie, SafetyValve, Login, Logout,
         LogoutBlocked, tabVars
<1>3. 0 \in Values
  BY MaxGenAssumption DEF Values
<1>4. ClientTypeOK'
  <2>1. CASE \E g \in Gens : AccessExpires(g)
    BY <1>1, <2>1 DEF AccessExpires, ClientTypeOK, tabVars
  <2>2. CASE AnswerLogout \/ LoseLogout \/ ClearCookie
    <3>1. NoLogout \in Logouts /\ [logout EXCEPT !.st = "accepted"] \in Logouts
      BY <1>1, <1>3 DEF NoLogout, Logouts, NoGen, ClientTypeOK
    <3>2. cookie' \in Values /\ live' \subseteq Gens /\ used' \subseteq Gens
      BY <1>1, <1>3, <2>2 DEF AnswerLogout, LoseLogout, ClearCookie, ClientTypeOK, NoGen
    <3>3. logout' \in Logouts
      BY <2>2, <3>1 DEF AnswerLogout, LoseLogout, ClearCookie
    <3>4. lost' \in BOOLEAN
      BY <1>1, <2>2 DEF AnswerLogout, LoseLogout, ClearCookie, ClientTypeOK
    <3> QED
      BY <1>1, <2>2, <3>2, <3>3, <3>4
         DEF AnswerLogout, LoseLogout, ClearCookie, ClientTypeOK, tabVars
  <2>3. ASSUME NEW t \in Tabs, SafetyValve(t) \/ LogoutBlocked(t)
        PROVE  ClientTypeOK'
    BY <1>1, <2>3 DEF SafetyValve, LogoutBlocked, ClientTypeOK
  <2>4. ASSUME NEW t \in Tabs, Logout(t)
        PROVE  ClientTypeOK'
    <3>1. stored' \in Values /\ logout' \in Logouts /\ overlap' \in BOOLEAN
      BY <1>1, <1>3, <2>4 DEF Logout, ClientTypeOK, Logouts, NoGen
    <3> QED
      BY <1>1, <2>4, <3>1 DEF Logout, ClientTypeOK
  <2>5. ASSUME NEW t \in Tabs, Login(t)
        PROVE  ClientTypeOK'
    <3>1. issued + 1 \in Values /\ issued + 1 \in Gens
      BY <1>1, <2>5, MaxGenAssumption DEF Login, ClientTypeOK, Values, Gens
    <3> QED
      BY <1>1, <2>5, <3>1 DEF Login, ClientTypeOK
  <2> QED
    BY <2>1, <2>2, <2>3, <2>4, <2>5
<1>5. Chain'
  <2>1. \A u \in Tabs, j \in Kinds : Fades(u, j)
    BY <1>2 DEF Fades
  <2>2. CASE \E g \in Gens : AccessExpires(g)
    BY <1>1, <2>1, <2>2, ChainFades DEF AccessExpires, LogoutFades
  <2>3. CASE \E t \in Tabs : SafetyValve(t) \/ LogoutBlocked(t)
    BY <1>1, <2>1, <2>3, ChainFades DEF SafetyValve, LogoutBlocked, LogoutFades
  <2>4. CASE LoseLogout \/ ClearCookie
    <3>1. /\ UNCHANGED <<issued, used, expired, overlap>>
          /\ cookie' \in {cookie, NoGen}
      BY <2>4 DEF LoseLogout, ClearCookie
    <3>2. lost => lost'
      BY <2>4, Zenon DEF LoseLogout, ClearCookie
    <3>3. LogoutFades
      BY <2>4 DEF LoseLogout, ClearCookie, LogoutFades
    <3> QED
      BY <1>1, <2>1, <3>1, <3>2, <3>3, ChainFades
  <2> QED
    BY <1>1, <2>2, <2>3, <2>4, ChainLogin, ChainLogout, ChainLogoutAnswered
<1> QED
  BY <1>2, <1>4, <1>5, QuietPreserves

----------------------------------------------------------------------------
(* The theorems. *)

LEMMA ClientStepPreserves ==
  ASSUME ClientIInv, [ClientNext]_clientVars
  PROVE  ClientIInv'
<1>1. CASE UNCHANGED clientVars
  <2>1. UNCHANGED <<issued, live, used, expired, cookie, stored, mode, leaving, refreshing,
                    flight, call, logout, lost, overlap, stranded>>
    BY <1>1 DEF clientVars, serverVars, browserVars, tabVars, causes
  <2> QED
    BY <2>1 DEF ClientIInv, ClientTypeOK, FlightsAgree, AnswersUnseen, OverlapMarked,
                LogoutMarked, Readable, ReplayHasCause, CookieCurrent, QueueHasRefresh, Pending
<1>2. ASSUME NEW c \in Calls, MakeCall(c) \/ FailCall(c) \/ CallStep(c)
      PROVE  ClientIInv'
  BY <1>2, CallPreserves, BeginRefreshPreserves DEF CallStep
<1>3. ASSUME NEW t \in Tabs, NEW k \in Kinds, FlightStep(t, k) \/ LoseRefresh(t, k)
      PROVE  ClientIInv'
  BY <1>3, FlightPreserves DEF FlightStep
<1>4. ASSUME NEW t \in Tabs, TabStep(t) \/ Unload(t) \/ Reload(t)
      PROVE  ClientIInv'
  BY <1>4, RefreshOkPreserves, RefreshFailsPreserves, ProbePreserves, LoadPreserves
     DEF TabStep, Unload, Reload
<1>5. CASE \/ \E g \in Gens : AccessExpires(g)
           \/ AnswerLogout \/ LoseLogout \/ ClearCookie
           \/ \E t \in Tabs : SafetyValve(t) \/ Login(t) \/ Logout(t) \/ LogoutBlocked(t)
  BY <1>5, PagePreserves
<1> QED
  BY <1>1, <1>2, <1>3, <1>4, <1>5 DEF ClientNext

\* Whatever the tabs do and the network loses, the chain of cookies and the
\* queues keep their causes.
THEOREM ClientInductive == ClientSpec => []ClientIInv
<1> QED
  BY ClientInitEstablishes, ClientStepPreserves, PTL DEF ClientSpec

\* Every variable keeps its type.
THEOREM ClientTypeCorrect == ClientSpec => []ClientTypeOK
<1>1. ClientIInv => ClientTypeOK
  BY DEF ClientIInv
<1> QED
  BY <1>1, ClientInductive, PTL

\* For any number of tabs: a consumed cookie is sent only if an answer was
\* lost or a refresh overlapped another taker of its cookie.
THEOREM ReplayHasCauseHolds == ClientSpec => []ReplayHasCause
<1>1. ClientIInv => ReplayHasCause
  BY DEF ClientIInv
<1> QED
  BY <1>1, ClientInductive, PTL

\* The browser's cookie is unused unless the answer that replaces or clears it
\* is under way or lost.
THEOREM CookieCurrentHolds == ClientSpec => []CookieCurrent
<1>1. ClientIInv => CookieCurrent
  BY DEF ClientIInv
<1> QED
  BY <1>1, ClientInductive, PTL

\* A queued call waits for a refresh of its tab, or its document saw one fail.
THEOREM QueueHasRefreshHolds == ClientSpec => []QueueHasRefresh
<1>1. ClientIInv => QueueHasRefresh
  BY DEF ClientIInv
<1> QED
  BY <1>1, ClientInductive, PTL
=============================================================================
