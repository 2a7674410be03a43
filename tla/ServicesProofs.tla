--------------------------- MODULE ServicesProofs ---------------------------
(***************************************************************************)
(* Proofs about the six services, for every value of their constants: a    *)
(* challenge pays for one session, every recipient is told of an outage in *)
(* time and for a cause, the turns of the editorial desk go round, the     *)
(* journal counts every event, messages keep their pace, and no call of    *)
(* the AI provider begins on a paused model or a resting key.              *)
(***************************************************************************)
EXTENDS SignIn, Alerts, Rotation, Journal, Pacing, Routes, SequenceTheorems,
        FiniteSetTheorems, WellFoundedInduction, TLAPS

Paged == {"answered", "offered", "signed", "asking", "fetching", "verified"}

\* A tab that has a page holds one of the first n challenges.
PageOK(page, n) ==
  /\ "at" \in DOMAIN page
  /\ page.at \in Paged => "challenge" \in DOMAIN page /\ page.challenge \in 1..n

Pages ==
  /\ challenges \in Seq(BOOLEAN)
  /\ cookie.challenge \in 0..Len(challenges)
  /\ DOMAIN tab = SignTabs
  /\ \A t \in SignTabs : PageOK(tab[t], Len(challenges))

\* The challenge a session was paid with is gone, though the session may be too.
Paid ==
  /\ sessions \in Seq([from : Nat, live : BOOLEAN])
  /\ \A s \in 1..Len(sessions) :
       /\ sessions[s].from \in 1..Len(challenges)
       /\ ~challenges[sessions[s].from]

Unrepeated ==
  \A i, j \in 1..Len(sessions) : sessions[i].from = sessions[j].from => i = j

SignInv == Pages /\ Paid /\ Unrepeated

-----------------------------------------------------------------------------
\* A tab goes on to a page that is in order; the others keep theirs.
LEMMA TurnsOK ==
  ASSUME Pages, NEW t \in SignTabs, NEW to, Turns(t, to),
         Len(challenges) \in Nat, Len(challenges') \in Nat,
         Len(challenges) <= Len(challenges'), PageOK(to, Len(challenges'))
  PROVE  /\ DOMAIN tab' = SignTabs
         /\ \A u \in SignTabs : PageOK(tab'[u], Len(challenges'))
BY DEF Pages, Turns, PageOK

\* Closing a session keeps what it was paid with.
LEMMA DroppedOK ==
  ASSUME sessions \in Seq([from : Nat, live : BOOLEAN]), NEW s
  PROVE  /\ Dropped(s) \in Seq([from : Nat, live : BOOLEAN])
         /\ Len(Dropped(s)) = Len(sessions)
         /\ \A i \in 1..Len(sessions) : Dropped(s)[i].from = sessions[i].from
<1> DEFINE R == [from : Nat, live : BOOLEAN]
<1>1. Len(sessions) \in Nat /\ sessions \in [1..Len(sessions) -> R]
  BY LenProperties
<1>2. Dropped(s) \in [1..Len(sessions) -> R]
  BY <1>1 DEF Dropped
<1>3. Dropped(s) \in Seq(R)
  BY <1>1, <1>2, SeqDef
<1>4. Len(Dropped(s)) = Len(sessions)
  BY <1>1, <1>2, <1>3, LenProperties
<1>5. \A i \in 1..Len(sessions) : Dropped(s)[i].from = sessions[i].from
  BY <1>1 DEF Dropped
<1> QED
  BY <1>3, <1>4, <1>5

\* As long as the challenges are the same, sessions may only be closed.
LEMMA DroppedInv ==
  ASSUME SignInv, NEW s, sessions' = sessions \/ sessions' = Dropped(s), Pages',
         Len(challenges) <= Len(challenges'),
         \A c \in 1..Len(challenges) : challenges'[c] => challenges[c]
  PROVE  SignInv'
<1>1. /\ sessions' \in Seq([from : Nat, live : BOOLEAN])
      /\ Len(sessions') = Len(sessions)
      /\ \A i \in 1..Len(sessions) : sessions'[i].from = sessions[i].from
  BY DroppedOK DEF SignInv, Paid
<1>2. Len(challenges) \in Nat /\ Len(challenges') \in Nat
  BY LenProperties DEF SignInv, Pages
<1>3. ASSUME NEW i \in 1..Len(sessions)
      PROVE  /\ sessions'[i].from \in 1..Len(challenges')
             /\ ~challenges'[sessions'[i].from]
  <2>1. /\ sessions[i].from \in 1..Len(challenges) /\ ~challenges[sessions[i].from]
        /\ sessions'[i].from = sessions[i].from
    BY <1>1 DEF SignInv, Paid
  <2> QED
    BY <1>2, <2>1
<1>5. Paid'
  BY <1>1, <1>3 DEF Paid
<1>4. Unrepeated'
  BY <1>1 DEF SignInv, Unrepeated
<1> QED
  BY <1>4, <1>5 DEF SignInv

\* A step of a tab that opens and closes nothing.
LEMMA TurnInv ==
  ASSUME SignInv, NEW t \in SignTabs, NEW to, Turns(t, to), UNCHANGED <<challenges, sessions>>,
         cookie'.challenge \in 0..Len(challenges), PageOK(to, Len(challenges))
  PROVE  SignInv'
<1>1. Len(challenges) \in Nat
  BY LenProperties DEF SignInv, Pages
<1>2. Pages'
  BY <1>1, TurnsOK DEF SignInv, Pages
<1> QED
  BY <1>1, <1>2, DroppedInv DEF SignInv

-----------------------------------------------------------------------------
LEMMA OpenPageInv ==
  ASSUME SignInv, NEW t \in SignTabs, OpenPage(t)
  PROVE  SignInv'
<1>1. /\ challenges \in Seq(BOOLEAN) /\ Len(challenges) \in Nat
      /\ cookie.challenge \in 0..Len(challenges) /\ cookie' = cookie
      /\ sessions' = sessions
  BY LenProperties DEF SignInv, Pages, OpenPage
<1>2. CASE LiveChallenge(cookie.challenge)
  <2> DEFINE to == [at |-> "answered", fresh |-> FALSE, drop |-> cookie.session # 0,
                    challenge |-> cookie.challenge]
  <2>1. challenges' = challenges /\ Turns(t, to)
    BY <1>2 DEF OpenPage
  <2>2. PageOK(to, Len(challenges))
    BY <1>1, <1>2 DEF PageOK, LiveChallenge
  <2> QED
    BY <1>1, <2>1, <2>2, TurnInv
<1>3. CASE ~LiveChallenge(cookie.challenge)
  <2> DEFINE to == [at |-> "answered", fresh |-> TRUE, drop |-> cookie.session # 0,
                    challenge |-> Len(challenges) + 1]
  <2>1. challenges' = Append(challenges, TRUE) /\ Turns(t, to)
    BY <1>3 DEF OpenPage
  <2>2. /\ challenges' \in Seq(BOOLEAN) /\ Len(challenges') = Len(challenges) + 1
        /\ \A c \in 1..Len(challenges) : challenges'[c] = challenges[c]
    BY <1>1, <2>1, AppendProperties
  <2>3. PageOK(to, Len(challenges'))
    BY <1>1, <2>2 DEF PageOK
  <2>4. Pages'
    BY <1>1, <2>1, <2>2, <2>3, TurnsOK DEF SignInv, Pages
  <2> QED
    BY <1>1, <2>2, <2>4, DroppedInv
<1> QED
  BY <1>2, <1>3

LEMMA CommitInv ==
  ASSUME SignInv, NEW t \in SignTabs, CommitLogin(t)
  PROVE  SignInv'
<1> DEFINE c == tab[t].challenge
<1>1. /\ challenges \in Seq(BOOLEAN) /\ Len(challenges) \in Nat /\ c \in 1..Len(challenges)
      /\ cookie' = cookie
  BY LenProperties DEF SignInv, Pages, PageOK, Paged, CommitLogin
<1>2. CASE banned \/ ~LiveChallenge(c)
  <2>1. Turns(t, Closed) /\ UNCHANGED <<challenges, sessions>>
    BY <1>2 DEF CommitLogin
  <2>2. PageOK(Closed, Len(challenges))
    BY DEF PageOK, Closed, Paged
  <2> QED
    BY <1>1, <2>1, <2>2, TurnInv DEF SignInv, Pages
<1>3. CASE ~banned /\ LiveChallenge(c)
  <2> DEFINE R == [from : Nat, live : BOOLEAN]
             old == Dropped(tab[t].had)
             new == [from |-> c, live |-> TRUE]
             to == [at |-> "granted", session |-> Len(sessions) + 1]
             n == Len(sessions)
  <2>1. /\ challenges' = [challenges EXCEPT ![c] = FALSE]
        /\ sessions' = Append(old, new)
        /\ Turns(t, to) /\ challenges[c]
    BY <1>3 DEF CommitLogin, Opened, LiveChallenge
  <2>2. /\ challenges' \in Seq(BOOLEAN) /\ Len(challenges') = Len(challenges)
        /\ \A i \in 1..Len(challenges) : challenges'[i] => challenges[i] /\ i # c
    BY <1>1, <2>1, ExceptSeq
  <2>3. PageOK(to, Len(challenges'))
    BY DEF PageOK, Paged
  <2>4. Pages'
    BY <1>1, <2>1, <2>2, <2>3, TurnsOK DEF SignInv, Pages
  <2>5. /\ old \in Seq(R) /\ Len(old) = n /\ n \in Nat
        /\ \A i \in 1..n : old[i].from = sessions[i].from
    BY DroppedOK, LenProperties DEF SignInv, Paid
  <2>6. new \in R /\ new.from = c
    BY <1>1
  <2> HIDE DEF old, new, R
  <2>7. /\ sessions' \in Seq(R) /\ Len(sessions') = n + 1
        /\ \A i \in 1..n : sessions'[i] = old[i]
        /\ sessions'[n + 1] = new
    BY <2>1, <2>5, <2>6, AppendProperties
  <2>8. /\ \A i \in 1..n : sessions'[i].from = sessions[i].from
        /\ sessions'[n + 1].from = c
    BY <2>5, <2>6, <2>7
  <2>9. \A i \in 1..n : /\ sessions[i].from \in 1..Len(challenges)
                        /\ ~challenges[sessions[i].from] /\ sessions[i].from # c
    BY <2>1 DEF SignInv, Paid
  <2>10. ~challenges'[c]
    BY <1>1, <2>2
  <2>11. \A i \in 1..n + 1 : /\ sessions'[i].from \in 1..Len(challenges')
                             /\ ~challenges'[sessions'[i].from]
    <3> SUFFICES ASSUME NEW i \in 1..n + 1
                 PROVE  sessions'[i].from \in 1..Len(challenges') /\ ~challenges'[sessions'[i].from]
      OBVIOUS
    <3>1. CASE i \in 1..n
      BY <3>1, <2>2, <2>8, <2>9
    <3>2. CASE i = n + 1
      BY <3>2, <2>2, <2>8, <2>10, <1>1
    <3> QED
      BY <3>1, <3>2, <2>5
  <2>12. Paid'
    BY <2>7, <2>11 DEF Paid, R
  <2>13. Unrepeated'
    <3> SUFFICES ASSUME NEW i \in 1..n + 1, NEW j \in 1..n + 1, sessions'[i].from = sessions'[j].from
                 PROVE  i = j
      BY <2>7 DEF Unrepeated
    <3>1. CASE i \in 1..n /\ j \in 1..n
      BY <3>1, <2>8 DEF SignInv, Unrepeated
    <3>2. CASE i = n + 1 \/ j = n + 1
      BY <3>2, <2>5, <2>8, <2>9
    <3> QED
      BY <3>1, <3>2, <2>5
  <2> QED
    BY <2>4, <2>12, <2>13 DEF SignInv
<1> QED
  BY <1>2, <1>3

\* Challenges and sessions run out.
LEMMA ExpireInv ==
  ASSUME SignInv, Expire
  PROVE  SignInv'
<1>1. /\ challenges \in Seq(BOOLEAN) /\ Len(challenges) \in Nat
      /\ DOMAIN challenges = 1..Len(challenges)
      /\ UNCHANGED <<cookie, tab>>
  BY LenProperties DEF SignInv, Pages, Expire
<1>2. CASE \E s \in DOMAIN sessions : sessions' = Dropped(s) /\ UNCHANGED challenges
  <2>1. Pages'
    BY <1>1, <1>2 DEF SignInv, Pages
  <2> QED
    BY <1>1, <1>2, <2>1, DroppedInv
<1>3. CASE \E c \in DOMAIN challenges :
             challenges' = [challenges EXCEPT ![c] = FALSE] /\ UNCHANGED sessions
  <2>1. PICK c \in 1..Len(challenges) : challenges' = [challenges EXCEPT ![c] = FALSE]
    BY <1>1, <1>3
  <2>2. /\ challenges' \in Seq(BOOLEAN) /\ Len(challenges') = Len(challenges)
        /\ \A i \in 1..Len(challenges) : challenges'[i] => challenges[i]
    BY <1>1, <2>1, ExceptSeq
  <2>3. Pages'
    BY <1>1, <2>2 DEF SignInv, Pages
  <2> QED
    BY <1>1, <1>3, <2>2, <2>3, DroppedInv
<1> QED
  BY <1>2, <1>3 DEF Expire

-----------------------------------------------------------------------------
\* What the tabs do besides opening a page and committing a login.
LEMMA TabInv ==
  ASSUME SignInv, NEW t \in SignTabs,
         \/ PageArrives(t) \/ TokenGiven(t) \/ GiveUp(t) \/ SendLogin(t) \/ FromCache(t)
         \/ BeginFetch(t) \/ EndFetch(t) \/ FetchFails(t) \/ LoginArrives(t)
  PROVE  SignInv'
<1>1. /\ PageOK(tab[t], Len(challenges)) /\ Len(challenges) \in Nat
      /\ cookie.challenge \in 0..Len(challenges)
  BY LenProperties DEF SignInv, Pages
<1>2. PageOK(Closed, Len(challenges))
  BY DEF PageOK, Closed, Paged
<1>3. CASE PageArrives(t)
  <2>1. /\ Turns(t, [at |-> "offered", challenge |-> tab[t].challenge])
        /\ UNCHANGED <<challenges, sessions>> /\ tab[t].at = "answered"
        /\ cookie'.challenge \in {tab[t].challenge, cookie.challenge}
    BY <1>3 DEF PageArrives
  <2>2. tab[t].challenge \in 1..Len(challenges)
    BY <1>1, <2>1 DEF PageOK, Paged
  <2>3. PageOK([at |-> "offered", challenge |-> tab[t].challenge], Len(challenges))
    BY <2>2 DEF PageOK
  <2> QED
    BY <1>1, <2>1, <2>2, <2>3, TurnInv
<1>4. CASE TokenGiven(t)
  <2>1. PICK k : Turns(t, [at |-> "signed", challenge |-> tab[t].challenge, key |-> k])
    BY <1>4 DEF TokenGiven
  <2>2. PageOK([at |-> "signed", challenge |-> tab[t].challenge, key |-> k], Len(challenges))
    BY <1>1, <1>4 DEF TokenGiven, PageOK, Paged
  <2> QED
    BY <1>1, <1>4, <2>1, <2>2, TurnInv DEF TokenGiven
<1>5. CASE SendLogin(t)
  <2> DEFINE to == [at |-> "asking", challenge |-> tab[t].challenge, key |-> tab[t].key,
                    had |-> cookie.session]
  <2>1. Turns(t, to) \/ Turns(t, Closed)
    BY <1>5 DEF SendLogin
  <2>2. PageOK(to, Len(challenges))
    BY <1>1, <1>5 DEF SendLogin, PageOK, Paged
  <2>3. UNCHANGED <<challenges, sessions, cookie>>
    BY <1>5 DEF SendLogin
  <2> HIDE DEF to
  <2> QED
    BY <1>1, <1>2, <2>1, <2>2, <2>3, TurnInv
<1>6. CASE FromCache(t) \/ EndFetch(t)
  <2>1. Turns(t, [tab[t] EXCEPT !.at = "verified"]) \/ Turns(t, Closed)
    BY <1>6 DEF FromCache, EndFetch, Verified
  <2>2. PageOK([tab[t] EXCEPT !.at = "verified"], Len(challenges))
    BY <1>1, <1>6 DEF FromCache, EndFetch, TakesLock, PageOK, Paged
  <2>3. UNCHANGED <<challenges, sessions, cookie>>
    BY <1>6 DEF FromCache, EndFetch
  <2> QED
    BY <1>1, <1>2, <2>1, <2>2, <2>3, TurnInv
<1>7. CASE BeginFetch(t)
  <2>1. /\ Turns(t, [tab[t] EXCEPT !.at = "fetching"])
        /\ UNCHANGED <<challenges, sessions, cookie>>
    BY <1>7 DEF BeginFetch, Fetching
  <2>2. PageOK([tab[t] EXCEPT !.at = "fetching"], Len(challenges))
    BY <1>1, <1>7 DEF BeginFetch, Fetching, TakesLock, PageOK, Paged
  <2> QED
    BY <1>1, <2>1, <2>2, TurnInv
<1>8. CASE GiveUp(t) \/ FetchFails(t)
  BY <1>1, <1>2, <1>8, TurnInv DEF GiveUp, FetchFails
<1>9. CASE LoginArrives(t)
  <2>1. Turns(t, Closed) /\ UNCHANGED <<challenges, sessions>> /\ cookie'.challenge = 0
    BY <1>9 DEF LoginArrives
  <2> QED
    BY <1>1, <1>2, <2>1, TurnInv
<1> QED
  BY <1>3, <1>4, <1>5, <1>6, <1>7, <1>8, <1>9

\* A challenge pays for at most one session, whatever number of tabs of the
\* browser hold its page, wait for the signing keys and commit together, and
\* whenever it runs out (account_login).
THEOREM ChallengePaysOnce == SignInSpec => []OneSessionPerChallenge
<1>1. InitSignIn => SignInv
  <2> SUFFICES ASSUME InitSignIn PROVE SignInv
    OBVIOUS
  <2>1. /\ challenges = <<>> /\ sessions = <<>> /\ cookie.challenge = 0
        /\ tab = [t \in SignTabs |-> Closed]
    BY DEF InitSignIn
  <2>2. /\ challenges \in Seq(BOOLEAN) /\ Len(challenges) = 0
        /\ sessions \in Seq([from : Nat, live : BOOLEAN]) /\ Len(sessions) = 0
    BY <2>1, EmptySeq
  <2>3. PageOK(Closed, 0)
    BY DEF PageOK, Closed, Paged
  <2>4. Pages
    BY <2>1, <2>2, <2>3 DEF Pages
  <2> QED
    BY <2>2, <2>4 DEF SignInv, Paid, Unrepeated
<1>2. SignInv /\ [SignInNext]_signing => SignInv'
  <2> SUFFICES ASSUME SignInv, [SignInNext]_signing PROVE SignInv'
    OBVIOUS
  <2>1. Len(challenges) \in Nat
    BY LenProperties DEF SignInv, Pages
  <2>2. CASE UNCHANGED <<challenges, sessions, cookie, tab>>
    <3>1. Pages'
      BY <2>2 DEF SignInv, Pages
    <3> QED
      BY <2>1, <2>2, <3>1, DroppedInv
  <2>3. ASSUME NEW t \in SignTabs, OpenPage(t) \/ CommitLogin(t)
        PROVE  SignInv'
    BY <2>3, OpenPageInv, CommitInv
  <2>4. ASSUME NEW t \in SignTabs,
               \/ PageArrives(t) \/ TokenGiven(t) \/ GiveUp(t) \/ SendLogin(t) \/ FromCache(t)
               \/ BeginFetch(t) \/ EndFetch(t) \/ FetchFails(t) \/ LoginArrives(t)
        PROVE  SignInv'
    BY <2>4, TabInv
  <2>5. CASE Logout
    <3>1. Pages' /\ challenges' = challenges /\ sessions' = Dropped(cookie.session)
      BY <2>1, <2>5 DEF SignInv, Pages, Logout
    <3> QED
      BY <2>1, <3>1, DroppedInv
  <2>6. CASE Ban \/ KeysTurn \/ SignTick
    BY <2>2, <2>6 DEF Ban, KeysTurn, SignTick
  <2>7. CASE UNCHANGED signing
    BY <2>2, <2>7 DEF signing
  <2> QED
    BY <2>3, <2>4, <2>5, <2>6, <2>7, ExpireInv DEF SignInNext
<1>3. SignInv => OneSessionPerChallenge
  <2> SUFFICES ASSUME SignInv PROVE OneSessionPerChallenge
    OBVIOUS
  <2>1. DOMAIN sessions = 1..Len(sessions)
    BY LenProperties DEF SignInv, Paid
  <2> QED
    BY <2>1 DEF SignInv, Unrepeated, OneSessionPerChallenge
<1> QED
  BY <1>1, <1>2, <1>3, PTL DEF SignInSpec

-----------------------------------------------------------------------------
(* The alarms: what a recipient's state says is what he was told.          *)

State == [failures : 0..Enough, active : BOOLEAN, sent : Nat]
Word == [what : {"fine", "alarm"}, at : Nat]

AlertsTyped ==
  /\ now \in Nat /\ reached \subseteq Admins /\ unsaved \in BOOLEAN
  /\ alarm \in [Admins -> [Checks -> State]]
  /\ told \in [Admins -> [Checks -> Word]]
  /\ bad \in [Checks -> 0..Enough]

\* As long as no state was lost, an active alarm is the last word its recipient
\* was given, at the time that is kept; one that is reached knows an outage.
Informed(s, word, failures, there) ==
  /\ s.failures = failures
  /\ s.active <=> word.what = "alarm"
  /\ s.active => word.at = s.sent
  /\ there /\ failures >= Enough => s.active

AlertInv ==
  /\ AlertsTyped
  /\ ~unsaved => \A a \in Admins, k \in Checks :
                   Informed(alarm[a][k], told[a][k], bad[k], a \in reached)

\* What a round makes of the failures, and of what a recipient was told.
Failing(n, healthy) == IF healthy THEN 0 ELSE Min({n + 1, Enough})
Telling(s, word, healthy, there) ==
  IF ~there \/ EventOf(s, healthy) = "none" THEN word
  ELSE [what |-> IF healthy THEN "fine" ELSE "alarm", at |-> now]

LEMMA MinOfTwo ==
  ASSUME NEW m \in Int, NEW n \in Int
  PROVE  Min({m, n}) = IF m <= n THEN m ELSE n
<1> DEFINE S == {m, n}
           least == IF m <= n THEN m ELSE n
<1>1. least \in S /\ \A y \in S : least <= y
  OBVIOUS
<1>2. \A x \in S : (\A y \in S : x <= y) => x = least
  OBVIOUS
<1> HIDE DEF S, least
<1>3. Min(S) = CHOOSE x \in S : \A y \in S : x <= y
  BY DEF Min
<1>4. Min(S) = least
  BY <1>1, <1>2, <1>3
<1> QED
  BY <1>4 DEF S, least

LEMMA FailingOK ==
  ASSUME NEW n \in 0..Enough, NEW healthy \in BOOLEAN
  PROVE  /\ Failing(n, healthy) \in 0..Enough
         /\ healthy => Failing(n, healthy) = 0
<1>1. Min({n + 1, Enough}) = IF n + 1 <= Enough THEN n + 1 ELSE Enough
  BY MinOfTwo DEF Enough
<1> QED
  BY <1>1 DEF Failing, Enough

\* The outage goes on, or is one now.
Ongoing(s, healthy) == Failing(s.failures, healthy) >= Enough \/ (s.active /\ ~healthy)

\* The state a round leads to, spelled out.
LEMMA NotedIs ==
  ASSUME NEW s \in State, NEW healthy \in BOOLEAN, NEW there \in BOOLEAN, now \in Nat
  PROVE  /\ Noted(s, healthy, there) \in State
         /\ Noted(s, healthy, there).failures = Failing(s.failures, healthy)
         /\ Noted(s, healthy, there).active =
              IF EventOf(s, healthy) # "none" /\ ~there THEN s.active ELSE Ongoing(s, healthy)
         /\ Noted(s, healthy, there).sent =
              IF EventOf(s, healthy) # "none" /\ there THEN now ELSE s.sent
         /\ EventOf(s, healthy) \in {"failure", "recovery", "none"}
         /\ EventOf(s, healthy) = "failure" <=>
              Ongoing(s, healthy) /\ (~s.active \/ now - s.sent >= Reminder)
         /\ EventOf(s, healthy) = "recovery" <=> s.active /\ healthy
<1> DEFINE n == Failing(s.failures, healthy)
           next == Ongoing(s, healthy)
           to == [failures |-> n, sent |-> s.sent, active |-> next]
           event == EventOf(s, healthy)
<1>1. s.failures \in 0..Enough /\ s.active \in BOOLEAN /\ s.sent \in Nat
  BY DEF State
<1>2. n \in 0..Enough /\ (healthy => n = 0)
  BY <1>1, FailingOK
<1>3. NextState(s, healthy) = to
  BY DEF NextState, Failing, Ongoing
<1>4. next \in BOOLEAN /\ (healthy => ~next)
  BY <1>1, <1>2 DEF Enough, Ongoing
<1>5. to \in State /\ to.failures = n /\ to.active = next /\ to.sent = s.sent
  BY <1>1, <1>2, <1>4 DEF State
<1>6. event = IF next /\ (~s.active \/ now - s.sent >= Reminder) THEN "failure"
              ELSE IF s.active /\ healthy THEN "recovery" ELSE "none"
  BY <1>1, <1>3, <1>4, <1>5 DEF EventOf
<1>7. Noted(s, healthy, there) = IF event = "none" THEN to
                                 ELSE IF there THEN [to EXCEPT !.sent = now]
                                 ELSE [to EXCEPT !.active = s.active]
  BY <1>3 DEF Noted
<1> HIDE DEF to, n, next, event
<1>8. /\ [to EXCEPT !.sent = now] \in State /\ [to EXCEPT !.sent = now].sent = now
      /\ [to EXCEPT !.sent = now].failures = n /\ [to EXCEPT !.sent = now].active = next
  BY <1>5 DEF State
<1>9. /\ [to EXCEPT !.active = s.active] \in State
      /\ [to EXCEPT !.active = s.active].sent = s.sent
      /\ [to EXCEPT !.active = s.active].failures = n
      /\ [to EXCEPT !.active = s.active].active = s.active
  BY <1>1, <1>5 DEF State
<1>10. /\ event = "failure" <=> next /\ (~s.active \/ now - s.sent >= Reminder)
       /\ event = "recovery" <=> s.active /\ healthy
       /\ event \in {"failure", "recovery", "none"}
  BY <1>1, <1>4, <1>6
<1>11. /\ Noted(s, healthy, there) \in State
       /\ Noted(s, healthy, there).failures = n
       /\ Noted(s, healthy, there).active = IF event # "none" /\ ~there THEN s.active ELSE next
       /\ Noted(s, healthy, there).sent = IF event # "none" /\ there THEN now ELSE s.sent
  BY <1>5, <1>7, <1>8, <1>9
<1> QED
  BY <1>10, <1>11 DEF n, next, event

\* A recipient who is told something new is told it for a reason, and not too soon.
SaidWell(word, said, failures) ==
  said # word =>
    /\ said.what = "alarm" => word.what = "alarm" \/ failures >= Enough
    /\ said.what # "alarm" => word.what = "alarm"
    /\ said.what = "alarm" /\ word.what = "alarm" => said.at - word.at >= Reminder

\* A round keeps a recipient's state and his last word together, and what it
\* tells him it has a cause for.
LEMMA RoundOK ==
  ASSUME now \in Nat, NEW s \in State, NEW word \in Word, NEW n \in 0..Enough,
         NEW was \in BOOLEAN, NEW there \in BOOLEAN, NEW healthy \in BOOLEAN,
         Informed(s, word, n, was)
  PROVE  /\ Informed(Noted(s, healthy, there), Telling(s, word, healthy, there),
                     Failing(n, healthy), there)
         /\ SaidWell(word, Telling(s, word, healthy, there), Failing(n, healthy))
<1> DEFINE f == Failing(n, healthy)
           after == Noted(s, healthy, there)
           next == Ongoing(s, healthy)
           event == EventOf(s, healthy)
           said == Telling(s, word, healthy, there)
           new == [what |-> IF healthy THEN "fine" ELSE "alarm", at |-> now]
<1>1. /\ s.failures = n /\ (s.active <=> word.what = "alarm") /\ (s.active => word.at = s.sent)
      /\ (was /\ n >= Enough => s.active)
  BY DEF Informed
<1>2. s.active \in BOOLEAN /\ s.sent \in Nat
  BY DEF State
<1>3. f \in 0..Enough /\ (healthy => f = 0)
  BY FailingOK
<1>4. /\ after.failures = f
      /\ after.active = IF event # "none" /\ ~there THEN s.active ELSE next
      /\ after.sent = IF event # "none" /\ there THEN now ELSE s.sent
      /\ event \in {"failure", "recovery", "none"}
      /\ event = "failure" <=> next /\ (~s.active \/ now - s.sent >= Reminder)
      /\ event = "recovery" <=> s.active /\ healthy
  <2>1. Failing(s.failures, healthy) = f
    BY <1>1
  <2>2. /\ after.failures = Failing(s.failures, healthy)
        /\ after.active = IF event # "none" /\ ~there THEN s.active ELSE next
        /\ after.sent = IF event # "none" /\ there THEN now ELSE s.sent
        /\ event \in {"failure", "recovery", "none"}
        /\ event = "failure" <=> next /\ (~s.active \/ now - s.sent >= Reminder)
        /\ event = "recovery" <=> s.active /\ healthy
    BY NotedIs, ZenonT(40)
  <2> HIDE DEF f, next, event, after
  <2> QED
    BY <2>1, <2>2
<1>5. said = IF ~there \/ event = "none" THEN word ELSE new
  BY DEF Telling
<1>6. new.at = now /\ new.what = IF healthy THEN "fine" ELSE "alarm"
  OBVIOUS
<1>7. next <=> f >= Enough \/ (s.active /\ ~healthy)
  BY <1>1 DEF Ongoing
<1> HIDE DEF f, after, next, event, said, new
<1>8. /\ (healthy => ~next) /\ (f >= Enough => next) /\ (s.active /\ ~healthy => next)
      /\ (next => f >= Enough \/ s.active)
  BY <1>3, <1>7 DEF Enough
<1>9. CASE ~there \/ event = "none"
  <2>1. said = word /\ after.sent = s.sent
    BY <1>4, <1>5, <1>9
  <2>2. after.active <=> s.active
    BY <1>2, <1>4, <1>8, <1>9
  <2>3. there /\ f >= Enough => after.active
    BY <1>2, <1>4, <1>8, <1>9
  <2> QED
    BY <1>1, <1>4, <2>1, <2>2, <2>3 DEF Informed, SaidWell, f, after, said
<1>10. CASE there /\ event = "failure"
  <2>1. said = new /\ after.sent = now /\ after.active = next /\ next
    BY <1>4, <1>5, <1>10
  <2>2. ~healthy /\ new.what = "alarm"
    BY <1>6, <1>8, <2>1
  <2>3. Informed(after, said, f, there)
    BY <1>4, <1>6, <2>1, <2>2 DEF Informed
  <2>4. word.what = "alarm" => said.at - word.at >= Reminder
    BY <1>1, <1>4, <1>6, <1>10, <2>1
  <2> QED
    BY <1>1, <1>8, <2>1, <2>2, <2>3, <2>4 DEF SaidWell, f, after, said
<1>11. CASE there /\ event = "recovery"
  <2>1. said = new /\ after.sent = now /\ after.active = next
    BY <1>4, <1>5, <1>11
  <2>2. healthy /\ s.active /\ new.what = "fine" /\ ~next
    BY <1>4, <1>6, <1>8, <1>11
  <2>3. Informed(after, said, f, there)
    BY <1>3, <1>4, <1>6, <1>8, <2>1, <2>2 DEF Informed
  <2> QED
    BY <1>1, <2>1, <2>2, <2>3 DEF SaidWell, f, after, said
<1> QED
  BY <1>4, <1>9, <1>10, <1>11

LEMMA TellingOK ==
  ASSUME now \in Nat, NEW s, NEW word \in Word, NEW healthy \in BOOLEAN, NEW there
  PROVE  Telling(s, word, healthy, there) \in Word
BY DEF Telling, Word

\* What Notify does to one recipient and check.
LEMMA NotifyIs ==
  ASSUME AlertsTyped, Notify
  PROVE  \E healthy \in [Checks -> BOOLEAN], saved \in BOOLEAN :
           /\ reached' \subseteq Admins /\ now' = now + 1
           /\ told' = [a \in Admins |-> [k \in Checks |->
                         Telling(alarm[a][k], told[a][k], healthy[k], a \in reached')]]
           /\ saved => /\ alarm' = [a \in Admins |-> [k \in Checks |->
                                      Noted(alarm[a][k], healthy[k], a \in reached')]]
                       /\ bad' = [k \in Checks |-> Failing(bad[k], healthy[k])]
                       /\ unsaved' = unsaved
           /\ ~saved => unsaved' = TRUE /\ UNCHANGED <<alarm, bad>>
<1>1. PICK healthy \in [Checks -> BOOLEAN], to \in SUBSET Admins, saved \in BOOLEAN :
        /\ now' = now + 1 /\ reached' = to
        /\ told' = [a \in Admins |-> [k \in Checks |->
             IF a \notin to \/ EventOf(alarm[a][k], healthy[k]) = "none" THEN told[a][k]
             ELSE [what |-> IF healthy[k] THEN "fine" ELSE "alarm", at |-> now]]]
        /\ IF saved
           THEN /\ alarm' = [a \in Admins |-> [k \in Checks |->
                               Noted(alarm[a][k], healthy[k], a \in to)]]
                /\ bad' = [k \in Checks |-> IF healthy[k] THEN 0 ELSE Min({bad[k] + 1, Enough})]
                /\ UNCHANGED unsaved
           ELSE unsaved' = TRUE /\ UNCHANGED <<alarm, bad>>
  BY DEF Notify
<1>2. told' = [a \in Admins |-> [k \in Checks |->
                 Telling(alarm[a][k], told[a][k], healthy[k], a \in to)]]
  BY <1>1, Zenon DEF Telling
<1>3. saved => bad' = [k \in Checks |-> Failing(bad[k], healthy[k])]
  BY <1>1, Zenon DEF Failing
<1>4. /\ reached' \subseteq Admins /\ now' = now + 1 /\ to = reached'
      /\ saved => /\ alarm' = [a \in Admins |-> [k \in Checks |->
                                 Noted(alarm[a][k], healthy[k], a \in to)]]
                  /\ unsaved' = unsaved
      /\ ~saved => unsaved' = TRUE /\ UNCHANGED <<alarm, bad>>
  BY <1>1
<1> QED
  BY <1>2, <1>3, <1>4, Zenon

\* Whoever is told something new has reason to be, if no state was lost.
ToldWell(a, k) ==
  told'[a][k] # told[a][k] =>
    /\ told'[a][k].what = "alarm" =>
         told[a][k].what = "alarm" \/ bad'[k] >= Enough \/ unsaved'
    /\ told'[a][k].what # "alarm" => told[a][k].what = "alarm" \/ unsaved
    /\ told'[a][k].what = "alarm" /\ told[a][k].what = "alarm" =>
         told'[a][k].at - told[a][k].at >= Reminder \/ unsaved

LEMMA NotifyStep ==
  ASSUME AlertInv, Notify
  PROVE  AlertInv' /\ \A a \in Admins, k \in Checks : ToldWell(a, k)
<1>1. PICK healthy \in [Checks -> BOOLEAN], saved \in BOOLEAN :
        /\ reached' \subseteq Admins /\ now' = now + 1
        /\ told' = [a \in Admins |-> [k \in Checks |->
                      Telling(alarm[a][k], told[a][k], healthy[k], a \in reached')]]
        /\ saved => /\ alarm' = [a \in Admins |-> [k \in Checks |->
                                   Noted(alarm[a][k], healthy[k], a \in reached')]]
                    /\ bad' = [k \in Checks |-> Failing(bad[k], healthy[k])]
                    /\ unsaved' = unsaved
        /\ ~saved => unsaved' = TRUE /\ UNCHANGED <<alarm, bad>>
  BY NotifyIs DEF AlertInv
<1>2. /\ now \in Nat /\ unsaved \in BOOLEAN
      /\ \A a \in Admins, k \in Checks :
           /\ alarm[a][k] \in State /\ told[a][k] \in Word /\ bad[k] \in 0..Enough
           /\ healthy[k] \in BOOLEAN
  BY DEF AlertInv, AlertsTyped
<1>3. \A a \in Admins, k \in Checks :
        told'[a][k] = Telling(alarm[a][k], told[a][k], healthy[k], a \in reached')
  BY <1>1
<1>4. told' \in [Admins -> [Checks -> Word]]
  <2>1. \A a \in Admins, k \in Checks :
          Telling(alarm[a][k], told[a][k], healthy[k], a \in reached') \in Word
    BY <1>2, TellingOK
  <2> QED
    BY <1>1, <2>1
<1>5. /\ alarm' \in [Admins -> [Checks -> State]] /\ bad' \in [Checks -> 0..Enough]
      /\ unsaved' \in BOOLEAN
  <2>1. CASE saved
    <3>1. \A a \in Admins, k \in Checks :
            Noted(alarm[a][k], healthy[k], a \in reached') \in State
      <4> SUFFICES ASSUME NEW a \in Admins, NEW k \in Checks
                   PROVE  Noted(alarm[a][k], healthy[k], a \in reached') \in State
        OBVIOUS
      <4>1. (a \in reached') \in BOOLEAN /\ alarm[a][k] \in State /\ healthy[k] \in BOOLEAN
        BY <1>2
      <4> QED
        BY <1>2, <4>1, NotedIs, Zenon
    <3>2. \A k \in Checks : bad[k] \in 0..Enough /\ healthy[k] \in BOOLEAN
      BY DEF AlertInv, AlertsTyped
    <3>3. \A k \in Checks : Failing(bad[k], healthy[k]) \in 0..Enough
      BY <3>2, FailingOK
    <3> QED
      BY <1>1, <1>2, <2>1, <3>1, <3>3
  <2>2. CASE ~saved
    BY <1>1, <2>2 DEF AlertInv, AlertsTyped
  <2> QED
    BY <2>1, <2>2
<1>6. AlertsTyped'
  BY <1>1, <1>2, <1>4, <1>5 DEF AlertsTyped
<1>7. ASSUME ~unsaved, NEW a \in Admins, NEW k \in Checks
      PROVE  /\ Informed(Noted(alarm[a][k], healthy[k], a \in reached'), told'[a][k],
                         Failing(bad[k], healthy[k]), a \in reached')
             /\ SaidWell(told[a][k], told'[a][k], Failing(bad[k], healthy[k]))
  <2> DEFINE s == alarm[a][k]
             word == told[a][k]
             n == bad[k]
             well == healthy[k]
             was == a \in reached
             there == a \in reached'
  <2>1. Informed(s, word, n, was)
    BY <1>7 DEF AlertInv
  <2>2. s \in State /\ word \in Word /\ n \in 0..Enough /\ well \in BOOLEAN
        /\ was \in BOOLEAN /\ there \in BOOLEAN /\ told'[a][k] = Telling(s, word, well, there)
    BY <1>2, <1>3
  <2> HIDE DEF s, word, n, well, was, there
  <2>3. /\ Informed(Noted(s, well, there), Telling(s, word, well, there), Failing(n, well), there)
        /\ SaidWell(word, Telling(s, word, well, there), Failing(n, well))
    BY <1>2, <2>1, <2>2, RoundOK
  <2> QED
    BY <2>2, <2>3 DEF s, word, n, well, was, there
<1>8. ASSUME ~unsaved', NEW a \in Admins, NEW k \in Checks
      PROVE  Informed(alarm'[a][k], told'[a][k], bad'[k], a \in reached')
  <2>1. saved /\ ~unsaved
    BY <1>1, <1>8
  <2>2. alarm'[a][k] = Noted(alarm[a][k], healthy[k], a \in reached')
        /\ bad'[k] = Failing(bad[k], healthy[k])
    BY <1>1, <2>1
  <2> QED
    BY <1>7, <2>1, <2>2, Zenon
<1>9. ASSUME NEW a \in Admins, NEW k \in Checks
      PROVE  ToldWell(a, k)
  <2>1. CASE unsaved
    <3>1. unsaved'
      BY <1>1, <2>1
    <3> QED
      BY <2>1, <3>1 DEF ToldWell
  <2>2. CASE ~unsaved
    <3>1. ~saved => unsaved'
      BY <1>1
    <3>2. saved => bad'[k] = Failing(bad[k], healthy[k])
      BY <1>1
    <3> QED
      BY <1>7, <2>2, <3>1, <3>2 DEF SaidWell, ToldWell
  <2> QED
    BY <2>1, <2>2
<1> QED
  BY <1>6, <1>8, <1>9 DEF AlertInv

LEMMA AlertInvariance ==
  ASSUME AlertInv, [Notify]_alerting
  PROVE  AlertInv' /\ \A a \in Admins, k \in Checks : ToldWell(a, k)
<1>1. CASE UNCHANGED alerting
  BY <1>1 DEF alerting, AlertInv, AlertsTyped, ToldWell
<1> QED
  BY <1>1, NotifyStep

LEMMA AlertInit == InitAlerts => AlertInv
<1> SUFFICES ASSUME InitAlerts PROVE AlertInv
  OBVIOUS
<1>1. Quiet \in State /\ [what |-> "fine", at |-> 0] \in Word
  BY DEF State, Word, Quiet, Enough
<1>2. AlertsTyped
  <2>1. /\ alarm \in [Admins -> [Checks -> State]] /\ told \in [Admins -> [Checks -> Word]]
        /\ bad \in [Checks -> 0..Enough]
    BY <1>1 DEF InitAlerts, Enough
  <2> QED
    BY <2>1 DEF InitAlerts, AlertsTyped
<1> QED
  BY <1>2 DEF InitAlerts, AlertInv, Informed, Quiet, Enough

\* A recipient that can be reached knows of an outage at its third observation,
\* however many recipients and checks there are and whoever else is out of reach
\* (notify keeps a state for each recipient).
THEOREM OutageIsTold == AlertSpec => []ToldInTime
<1>1. AlertInv => ToldInTime
  <2> SUFFICES ASSUME AlertInv, ~unsaved, NEW a \in reached, NEW k \in Checks, bad[k] >= Enough
               PROVE  told[a][k].what = "alarm"
    BY DEF ToldInTime
  <2>1. a \in Admins
    BY DEF AlertInv, AlertsTyped
  <2>2. Informed(alarm[a][k], told[a][k], bad[k], a \in reached)
    BY <2>1 DEF AlertInv
  <2> QED
    BY <2>2 DEF Informed
<1> QED
  BY <1>1, AlertInit, AlertInvariance, PTL DEF AlertSpec

\* Nobody is told of an outage that was not observed three times in a row, nor
\* that it is over who was not told of it (the event follows the recipient's state).
THEOREM AlarmsHaveCause == AlertSpec => ToldForCause
<1>1. AlertInv /\ [Notify]_alerting =>
        [\A a \in Admins, k \in Checks : told'[a][k] # told[a][k] =>
           IF told'[a][k].what = "alarm"
           THEN told[a][k].what = "alarm" \/ bad'[k] >= Enough \/ unsaved'
           ELSE told[a][k].what = "alarm" \/ unsaved]_alerting
  BY AlertInvariance DEF ToldWell
<1> QED
  BY <1>1, AlertInit, AlertInvariance, PTL DEF AlertSpec, ToldForCause

\* An outage that goes on is not told again before the reminder is due
\* (next_state keeps the time of the last message that arrived).
THEOREM RemindersWait == AlertSpec => RemindersSpaced
<1>1. AlertInv /\ [Notify]_alerting =>
        [\A a \in Admins, k \in Checks :
           told'[a][k] # told[a][k] /\ told[a][k].what = "alarm" /\ told'[a][k].what = "alarm"
             => told'[a][k].at - told[a][k].at >= Reminder \/ unsaved]_alerting
  BY AlertInvariance DEF ToldWell
<1> QED
  BY <1>1, AlertInit, AlertInvariance, PTL DEF AlertSpec, RemindersSpaced
-----------------------------------------------------------------------------
\* The turns of the desk (Rotation).

LEMMA LeastOf ==
  ASSUME NEW T, T \subseteq Nat, T # {}
  PROVE  \E x \in T : \A y \in T : x <= y
<1>1. PICK x \in T : \A y \in T : <<y, x>> \notin OpToRel(<, Nat)
  BY WFMin, NatLessThanWellFounded
<1>2. \A y \in T : ~(y < x)
  BY <1>1 DEF OpToRel
<1> QED
  BY <1>2

RotationTyped ==
  /\ cursor \in Nat /\ from \in Nat /\ scan \subseteq Channels
  /\ passed \in [Channels -> [Channels -> 0..1]]

\* What the scan has looked at comes before what it has still to look at.
ScanInOrder == \A c \in Channels \ scan, d \in scan : Ahead(from, c, d)

\* A channel that another has overtaken is ahead of it: in the order of the next
\* scan, and in the present one unless the other one has had its turn there.
Overtaken ==
  \A c, d \in Channels : passed[c][d] = 1 =>
    /\ Ahead(cursor, c, d)
    /\ scan # {} => \/ c \in scan /\ d \notin scan
                    \/ Ahead(from, c, d) /\ (d \in scan => c \in scan)

RotationInv == RotationTyped /\ ScanInOrder /\ Overtaken

LEMMA FirstOK ==
  ASSUME RotationInv, scan # {}
  PROVE  First \in scan /\ \A d \in scan \ {First} : Ahead(from, First, d)
<1> DEFINE later == {x \in scan : x > from}
           T == IF later = {} THEN scan ELSE later
<1>1. scan \subseteq Nat /\ from \in Nat
  BY RotationAssumption DEF RotationInv, RotationTyped
<1>2. T \subseteq Nat /\ T # {}
  BY <1>1
<1>3. PICK x \in T : \A y \in T : x <= y
  <2> HIDE DEF T
  <2> QED
    BY <1>2, LeastOf
<1>4. x \in scan /\ \A d \in scan \ {x} : Ahead(from, x, d)
  BY <1>1, <1>3 DEF Ahead
<1> QED
  BY <1>4 DEF First

LEMMA CountedIs ==
  ASSUME RotationInv, NEW got, Counted(got)
  PROVE  /\ passed' \in [Channels -> [Channels -> 0..2]]
         /\ \A c, d \in Channels :
              passed'[c][d] # 0 =>
                /\ Could(c) /\ c \notin active'
                /\ passed'[c][d] = IF d \in got THEN passed[c][d] + 1 ELSE passed[c][d]
<1>1. passed \in [Channels -> [Channels -> 0..1]]
  BY DEF RotationInv, RotationTyped
<1>2. \A c, d \in Channels : passed[c][d] \in 0..1
  BY <1>1
<1> QED
  BY <1>1, <1>2 DEF Counted

\* Nobody gets a place.
LEMMA NoPlace ==
  ASSUME RotationInv, Counted({}), UNCHANGED <<cursor, from>>, scan' = scan \/ scan' = {}
  PROVE  RotationInv'
<1>1. \A c, d \in Channels : passed'[c][d] # 0 => passed'[c][d] = passed[c][d]
  BY CountedIs
<1>2. passed' \in [Channels -> [Channels -> 0..1]]
  <2>1. \A c, d \in Channels : passed[c][d] \in 0..1 /\ passed'[c][d] \in 0..2
    BY CountedIs DEF RotationInv, RotationTyped
  <2> QED
    BY <1>1, <2>1, CountedIs
<1>3. RotationTyped'
  BY <1>2 DEF RotationInv, RotationTyped
<1>4. ScanInOrder'
  BY DEF RotationInv, ScanInOrder, Ahead
<1>5. Overtaken'
  BY <1>1 DEF RotationInv, Overtaken, Ahead
<1> QED
  BY <1>3, <1>4, <1>5 DEF RotationInv

LEMMA BeginStep ==
  ASSUME RotationInv, BeginScan
  PROVE  RotationInv'
<1>1. \A c, d \in Channels : passed'[c][d] # 0 => passed'[c][d] = passed[c][d]
  BY CountedIs DEF BeginScan
<1>2. passed' \in [Channels -> [Channels -> 0..1]]
  <2>1. \A c, d \in Channels : passed[c][d] \in 0..1 /\ passed'[c][d] \in 0..2
    BY CountedIs DEF RotationInv, RotationTyped, BeginScan
  <2> QED
    BY <1>1, <2>1, CountedIs DEF BeginScan
<1>3. RotationTyped'
  BY <1>2 DEF RotationInv, RotationTyped, BeginScan
<1>4. ScanInOrder'
  BY DEF ScanInOrder, BeginScan
<1>5. Overtaken'
  BY <1>1 DEF RotationInv, Overtaken, Ahead, BeginScan
<1> QED
  BY <1>3, <1>4, <1>5 DEF RotationInv

\* A channel is looked at and gets no place.
LEMMA PassedBy ==
  ASSUME RotationInv, Look, ~Could(First)
  PROVE  RotationInv'
<1>1. /\ First \in scan /\ \A d \in scan \ {First} : Ahead(from, First, d)
      /\ scan' = scan \ {First} /\ UNCHANGED <<from, cursor>>
  BY FirstOK DEF Look
<1>2. \A c, d \in Channels :
        passed'[c][d] # 0 => c # First /\ passed'[c][d] = passed[c][d]
  BY CountedIs DEF Look
<1>3. passed' \in [Channels -> [Channels -> 0..1]]
  <2>1. \A c, d \in Channels : passed[c][d] \in 0..1 /\ passed'[c][d] \in 0..2
    BY CountedIs DEF RotationInv, RotationTyped, Look
  <2> QED
    BY <1>2, <2>1, CountedIs DEF Look
<1>4. RotationTyped'
  BY <1>1, <1>3 DEF RotationInv, RotationTyped
<1>5. ScanInOrder'
  BY <1>1 DEF RotationInv, ScanInOrder, Ahead
<1>6. Overtaken'
  <2> SUFFICES ASSUME NEW c \in Channels, NEW d \in Channels, passed'[c][d] = 1
               PROVE  /\ Ahead(cursor, c, d)
                      /\ scan' # {} => \/ c \in scan' /\ d \notin scan'
                                       \/ Ahead(from, c, d) /\ (d \in scan' => c \in scan')
    BY <1>1 DEF Overtaken, Ahead
  <2>1. c # First /\ passed[c][d] = 1
    BY <1>2
  <2> QED
    BY <1>1, <2>1 DEF RotationInv, Overtaken
<1> QED
  BY <1>4, <1>5, <1>6 DEF RotationInv

\* A channel gets a place: those that wait are ahead of it from then on.
LEMMA Served ==
  ASSUME RotationInv, Look, Could(First)
  PROVE  RotationInv'
<1> DEFINE f == First
<1>1. /\ f \in scan /\ \A d \in scan \ {f} : Ahead(from, f, d)
      /\ scan' = {} \/ scan' = scan \ {f}
      /\ cursor' = f /\ from' = from /\ f \in active'
  BY FirstOK DEF Look
<1>2. \A c, d \in Channels : passed'[c][d] # 0 =>
        /\ c # f
        /\ passed'[c][d] = IF d = f THEN passed[c][d] + 1 ELSE passed[c][d]
  BY <1>1, CountedIs DEF Look
<1>t. \A c, d \in Channels : passed[c][d] \in 0..1 /\ passed'[c][d] \in 0..2
  BY CountedIs DEF RotationInv, RotationTyped, Look
<1>n. Channels \subseteq Nat /\ from \in Nat /\ cursor \in Nat /\ scan \subseteq Channels
  BY RotationAssumption DEF RotationInv, RotationTyped
<1> HIDE DEF f
<1>3. \A c \in Channels : passed[c][f] = 1 => c = f
  <2> SUFFICES ASSUME NEW c \in Channels, passed[c][f] = 1, c # f
               PROVE  FALSE
    OBVIOUS
  <2>1. f \in Channels /\ scan # {}
    BY <1>1, <1>n
  <2>2. c \in scan /\ Ahead(from, c, f)
    BY <1>1, <2>1 DEF RotationInv, Overtaken
  <2>3. Ahead(from, f, c)
    BY <1>1, <2>2
  <2>4. c \in Nat /\ f \in Nat /\ from \in Nat
    BY <1>n, <2>1
  <2> QED
    BY <2>2, <2>3, <2>4 DEF Ahead
<1>4. passed' \in [Channels -> [Channels -> 0..1]]
  <2>1. \A c, d \in Channels : passed'[c][d] \in 0..1
    BY <1>1, <1>2, <1>3, <1>t, <1>n
  <2> QED
    BY <2>1, CountedIs DEF Look
<1>5. RotationTyped'
  BY <1>1, <1>4, <1>n DEF RotationTyped
<1>6. ScanInOrder'
  BY <1>1, <1>n DEF RotationInv, ScanInOrder, Ahead
<1>7. ASSUME NEW c \in Channels, NEW d \in Channels, passed'[c][d] = 1
      PROVE  /\ Ahead(f, c, d)
             /\ scan' # {} => \/ c \in scan' /\ d \notin scan'
                              \/ Ahead(from, c, d) /\ (d \in scan' => c \in scan')
  <2>1. c # f
    BY <1>2, <1>7
  <2>2. CASE d = f
    <3>1. Ahead(f, c, d)
      BY <1>1, <1>n, <2>1, <2>2 DEF Ahead
    <3>2. c \notin scan => Ahead(from, c, d)
      BY <1>1, <2>2 DEF RotationInv, ScanInOrder
    <3> QED
      BY <1>1, <2>1, <2>2, <3>1, <3>2
  <2>3. CASE d # f
    <3>1. passed[c][d] = 1
      BY <1>2, <1>7, <2>3
    <3>2. /\ Ahead(cursor, c, d)
          /\ \/ c \in scan /\ d \notin scan
             \/ Ahead(from, c, d) /\ (d \in scan => c \in scan)
      BY <1>1, <3>1 DEF RotationInv, Overtaken
    <3>3. /\ c \notin scan => Ahead(from, c, f)
          /\ d \notin scan => Ahead(from, d, f)
          /\ c \in scan => Ahead(from, f, c)
          /\ d \in scan => Ahead(from, f, d)
      BY <1>1, <2>1, <2>3 DEF RotationInv, ScanInOrder
    <3>4. Ahead(f, c, d)
      BY <1>1, <1>n, <3>2, <3>3 DEF Ahead
    <3> QED
      BY <1>1, <2>1, <2>3, <3>2, <3>4
  <2> QED
    BY <2>2, <2>3
<1>8. Overtaken'
  BY <1>1, <1>7 DEF Overtaken, Ahead
<1> QED
  BY <1>5, <1>6, <1>8 DEF RotationInv

\* No channel gets a second place while another could have had its first, however
\* many channels and places there are and whenever a scan is given up
\* (process_loop orders by the cursor).
THEOREM EveryoneHasATurn == RotationSpec => []RoundRobin
<1>1. InitRotation => RotationInv
  BY DEF InitRotation, RotationInv, RotationTyped, ScanInOrder, Overtaken
<1>2. RotationInv /\ [RotationNext]_rotating => RotationInv'
  <2> SUFFICES ASSUME RotationInv, [RotationNext]_rotating
               PROVE  RotationInv'
    OBVIOUS
  <2>1. CASE UNCHANGED rotating
    BY <2>1 DEF rotating, RotationInv, RotationTyped, ScanInOrder, Overtaken, Ahead
  <2>2. ASSUME NEW c \in Channels, Turn(c) \/ Lock(c) \/ Done(c)
        PROVE  RotationInv'
    BY <2>2, NoPlace DEF Turn, Lock, Done
  <2>3. CASE ScanFails
    BY <2>3, NoPlace DEF ScanFails
  <2> QED
    BY <2>1, <2>2, <2>3, BeginStep, PassedBy, Served DEF RotationNext
<1>3. RotationInv => RoundRobin
  <2>1. RotationInv => \A c, d \in Channels : passed[c][d] \in 0..1
    BY DEF RotationInv, RotationTyped
  <2> QED
    BY <2>1 DEF RoundRobin
<1> QED
  BY <1>1, <1>2, <1>3, PTL DEF RotationSpec
-----------------------------------------------------------------------------
\* Sums over the groups (Journal).

LEMMA FromNull ==
  ASSUME NEW P \in SUBSET Nat, 0 \in P, \A n \in P : n + 1 \in P
  PROVE  P = Nat
<1>1. ASSUME Nat \ P # {}
      PROVE  FALSE
  <2>1. PICK m \in Nat \ P : \A n \in Nat \ P : m <= n
    BY <1>1, LeastOf
  <2>2. m - 1 \in Nat /\ m - 1 \notin P
    BY <2>1
  <2> QED
    BY <2>1, <2>2
<1> QED
  BY <1>1

Some(s) == CHOOSE x \in s : TRUE

LEMMA BySubsets ==
  ASSUME NEW G, IsFiniteSet(G), NEW P \in SUBSET SUBSET G, {} \in P,
         \A s \in SUBSET G : s # {} /\ s \ {Some(s)} \in P => s \in P
  PROVE  P = SUBSET G
<1> DEFINE Q == {n \in Nat : \A s \in SUBSET G : Cardinality(s) = n => s \in P}
<1>1. \A s \in SUBSET G : IsFiniteSet(s) /\ Cardinality(s) \in Nat
  BY FS_Subset, FS_CardinalityType
<1>2. 0 \in Q
  BY <1>1, FS_EmptySet
<1>3. ASSUME NEW n \in Q
      PROVE  n + 1 \in Q
  <2> SUFFICES ASSUME NEW s \in SUBSET G, Cardinality(s) = n + 1
               PROVE  s \in P
    OBVIOUS
  <2>1. s # {}
    BY FS_EmptySet
  <2>2. Some(s) \in s
    BY <2>1 DEF Some
  <2>3. Cardinality(s \ {Some(s)}) = n
    BY <1>1, <2>2, FS_RemoveElement
  <2> QED
    BY <2>1, <2>3
<1>4. Q = Nat
  <2> HIDE DEF Q
  <2>1. Q \in SUBSET Nat
    BY DEF Q
  <2> QED
    BY <1>2, <1>3, <2>1, FromNull
<1> QED
  BY <1>1, <1>4

\* I[s] adds f up over s, for every part s of G.
Adds(I, f, G) ==
  I = [s \in SUBSET G |-> IF s = {} THEN 0 ELSE f[Some(s)] + I[s \ {Some(s)}]]

LEMMA AddsAt ==
  ASSUME NEW G, NEW f, NEW I, Adds(I, f, G)
  PROVE  /\ I[{}] = 0
         /\ \A s \in SUBSET G : s # {} =>
              /\ Some(s) \in s /\ s \ {Some(s)} \in SUBSET G
              /\ I[s] = f[Some(s)] + I[s \ {Some(s)}]
<1>1. \A s \in SUBSET G : I[s] = IF s = {} THEN 0 ELSE f[Some(s)] + I[s \ {Some(s)}]
  BY DEF Adds
<1>2. \A s \in SUBSET G : s # {} => Some(s) \in s
  BY DEF Some
<1> QED
  BY <1>1, <1>2

LEMMA AddsInt ==
  ASSUME NEW G, IsFiniteSet(G), NEW f \in [G -> Int], NEW I, Adds(I, f, G)
  PROVE  I \in [SUBSET G -> Int]
<1> DEFINE P == {s \in SUBSET G : I[s] \in Int}
<1>1. P \in SUBSET SUBSET G /\ {} \in P
  BY AddsAt
<1>2. \A s \in SUBSET G : s # {} /\ s \ {Some(s)} \in P => s \in P
  BY AddsAt
<1>3. P = SUBSET G
  <2> HIDE DEF P
  <2> QED
    BY <1>1, <1>2, BySubsets
<1> QED
  BY <1>3 DEF Adds

LEMMA AddsBoth ==
  ASSUME NEW G, IsFiniteSet(G),
         NEW f \in [G -> Int], NEW g \in [G -> Int], NEW h \in [G -> Int],
         \A x \in G : h[x] = f[x] + g[x],
         NEW I, NEW J, NEW K, Adds(I, f, G), Adds(J, g, G), Adds(K, h, G)
  PROVE  \A s \in SUBSET G : K[s] = I[s] + J[s]
<1> DEFINE P == {s \in SUBSET G : K[s] = I[s] + J[s]}
<1>1. /\ I \in [SUBSET G -> Int] /\ J \in [SUBSET G -> Int] /\ K \in [SUBSET G -> Int]
  BY AddsInt
<1>2. P \in SUBSET SUBSET G /\ {} \in P
  BY AddsAt
<1>3. ASSUME NEW s \in SUBSET G, s # {}, s \ {Some(s)} \in P
      PROVE  s \in P
  <2> DEFINE x == Some(s)
             t == s \ {Some(s)}
  <2>1. /\ x \in G /\ t \in SUBSET G
        /\ I[s] = f[x] + I[t] /\ J[s] = g[x] + J[t] /\ K[s] = h[x] + K[t]
    BY <1>3, AddsAt
  <2>2. K[t] = I[t] + J[t]
    BY <1>3
  <2>3. /\ I[t] \in Int /\ J[t] \in Int /\ f[x] \in Int /\ g[x] \in Int /\ h[x] = f[x] + g[x]
    BY <1>1, <2>1
  <2> QED
    BY <2>1, <2>2, <2>3
<1>4. P = SUBSET G
  <2> HIDE DEF P
  <2> QED
    BY <1>2, <1>3, BySubsets
<1> QED
  BY <1>4

LEMMA AddsExists ==
  ASSUME NEW G, IsFiniteSet(G), NEW f \in [G -> Int]
  PROVE  \E I : Adds(I, f, G)
<1> DEFINE UpTo(I, n) == \A s \in SUBSET G : Cardinality(s) <= n =>
                           I[s] = IF s = {} THEN 0 ELSE f[Some(s)] + I[s \ {Some(s)}]
           Q == {n \in Nat : \E I \in [SUBSET G -> Int] : UpTo(I, n)}
<1>1. \A s \in SUBSET G :
        /\ IsFiniteSet(s) /\ Cardinality(s) \in Nat /\ (Cardinality(s) = 0 <=> s = {})
        /\ s # {} => /\ Some(s) \in G /\ s \ {Some(s)} \in SUBSET G
                     /\ Cardinality(s \ {Some(s)}) = Cardinality(s) - 1
  <2> SUFFICES ASSUME NEW s \in SUBSET G
               PROVE  /\ IsFiniteSet(s) /\ Cardinality(s) \in Nat
                      /\ Cardinality(s) = 0 <=> s = {}
                      /\ s # {} => /\ Some(s) \in G /\ s \ {Some(s)} \in SUBSET G
                                   /\ Cardinality(s \ {Some(s)}) = Cardinality(s) - 1
    OBVIOUS
  <2>1. IsFiniteSet(s) /\ Cardinality(s) \in Nat
    BY FS_Subset, FS_CardinalityType
  <2>2. s # {} => Some(s) \in s
    BY DEF Some
  <2> QED
    BY <2>1, <2>2, FS_EmptySet, FS_RemoveElement
<1>2. 0 \in Q
  <2> DEFINE I == [s \in SUBSET G |-> 0]
  <2>1. ASSUME NEW s \in SUBSET G, Cardinality(s) <= 0
        PROVE  s = {}
    <3>1. Cardinality(s) \in Nat /\ (Cardinality(s) = 0 <=> s = {})
      BY <1>1, Zenon
    <3>2. Cardinality(s) = 0
      BY <2>1, <3>1
    <3> QED
      BY <3>1, <3>2
  <2>2. I \in [SUBSET G -> Int] /\ UpTo(I, 0)
    BY <2>1
  <2> QED
    BY <2>2
<1>3. ASSUME NEW n \in Q
      PROVE  n + 1 \in Q
  <2>n. n \in Nat
    OBVIOUS
  <2>1. PICK I \in [SUBSET G -> Int] : UpTo(I, n)
    BY <1>3
  <2> DEFINE J == [s \in SUBSET G |-> IF Cardinality(s) = n + 1
                                      THEN f[Some(s)] + I[s \ {Some(s)}] ELSE I[s]]
  <2>2. J \in [SUBSET G -> Int]
    <3>1. \A s \in SUBSET G : Cardinality(s) = n + 1 => f[Some(s)] + I[s \ {Some(s)}] \in Int
      <4> SUFFICES ASSUME NEW s \in SUBSET G, Cardinality(s) = n + 1
                   PROVE  f[Some(s)] + I[s \ {Some(s)}] \in Int
        OBVIOUS
      <4>1. s # {}
        <5>1. Cardinality(s) = 0 <=> s = {}
          BY <1>1, Zenon
        <5> QED
          BY <2>n, <5>1
      <4>2. f[Some(s)] \in Int /\ I[s \ {Some(s)}] \in Int
        BY <1>1, <4>1
      <4> QED
        BY <4>2
    <3> QED
      BY <3>1
  <2>3. UpTo(J, n + 1)
    <3> SUFFICES ASSUME NEW s \in SUBSET G, Cardinality(s) <= n + 1
                 PROVE  J[s] = IF s = {} THEN 0 ELSE f[Some(s)] + J[s \ {Some(s)}]
      OBVIOUS
    <3>1. CASE s = {}
      <4>1. Cardinality(s) = 0 /\ 0 <= n /\ 0 # n + 1
        <5>1. Cardinality(s) = 0 <=> s = {}
          BY <1>1, Zenon
        <5> QED
          BY <2>n, <3>1, <5>1
      <4>2. J[s] = I[s] /\ I[s] = 0
        BY <2>1, <3>1, <4>1
      <4> QED
        BY <3>1, <4>2
    <3>2. CASE s # {}
      <4> DEFINE t == s \ {Some(s)}
      <4>1. t \in SUBSET G /\ Cardinality(t) = Cardinality(s) - 1 /\ Cardinality(s) \in Nat
        BY <1>1, <3>2
      <4>2. J[t] = I[t]
        BY <4>1
      <4>3. J[s] = f[Some(s)] + I[t]
        <5>1. CASE Cardinality(s) = n + 1
          BY <5>1
        <5>2. CASE Cardinality(s) # n + 1
          <6>1. Cardinality(s) <= n /\ J[s] = I[s]
            BY <2>n, <4>1, <5>2
          <6> QED
            BY <2>1, <3>2, <6>1
        <5> QED
          BY <5>1, <5>2
      <4> QED
        BY <3>2, <4>2, <4>3
    <3> QED
      BY <3>1, <3>2
  <2> HIDE DEF J, UpTo
  <2>4. n + 1 \in Nat /\ \E K \in [SUBSET G -> Int] : UpTo(K, n + 1)
    BY <2>n, <2>2, <2>3
  <2> QED
    BY <2>4
<1>4. Q = Nat
  <2>1. Q \in SUBSET Nat
    OBVIOUS
  <2> HIDE DEF Q
  <2> QED
    BY <1>2, <1>3, <2>1, FromNull
<1>5. Cardinality(G) \in Nat /\ \A s \in SUBSET G : Cardinality(s) <= Cardinality(G)
  BY FS_Subset, FS_CardinalityType
<1>6. PICK I \in [SUBSET G -> Int] : UpTo(I, Cardinality(G))
  BY <1>4, <1>5
<1>7. \A s \in SUBSET G : I[s] = IF s = {} THEN 0 ELSE f[Some(s)] + I[s \ {Some(s)}]
  BY <1>5, <1>6
<1>8. Adds(I, f, G)
  BY <1>7 DEF Adds
<1> QED
  BY <1>8

LEMMA TotalIs ==
  ASSUME NEW f \in [Groups -> Int]
  PROVE  \E I : Adds(I, f, Groups) /\ Total(f) = I[Groups]
<1> DEFINE I == CHOOSE iter : iter =
                  [s \in SUBSET Groups |->
                     IF s = {} THEN 0
                     ELSE f[CHOOSE x \in s : TRUE] + iter[s \ {CHOOSE x \in s : TRUE}]]
<1>1. Total(f) = I[Groups]
  BY DEF Total, FoldSet, MapThenFoldSet
<1>2. \E iter : iter =
                  [s \in SUBSET Groups |->
                     IF s = {} THEN 0
                     ELSE f[CHOOSE x \in s : TRUE] + iter[s \ {CHOOSE x \in s : TRUE}]]
  <2>1. PICK iter : Adds(iter, f, Groups)
    BY JournalAssumption, AddsExists
  <2> QED
    BY <2>1, Zenon DEF Adds, Some
<1>3. Adds(I, f, Groups)
  BY <1>2 DEF Adds, Some
<1> QED
  BY <1>1, <1>3

LEMMA TotalInt ==
  ASSUME NEW f \in [Groups -> Int]
  PROVE  Total(f) \in Int
<1>1. PICK I : Adds(I, f, Groups) /\ Total(f) = I[Groups]
  BY TotalIs
<1>2. I \in [SUBSET Groups -> Int]
  BY <1>1, AddsInt, JournalAssumption
<1> QED
  BY <1>1, <1>2

LEMMA TotalBoth ==
  ASSUME NEW f \in [Groups -> Int], NEW g \in [Groups -> Int], NEW h \in [Groups -> Int],
         \A x \in Groups : h[x] = f[x] + g[x]
  PROVE  Total(h) = Total(f) + Total(g)
<1>1. PICK I : Adds(I, f, Groups) /\ Total(f) = I[Groups]
  BY TotalIs
<1>2. PICK J : Adds(J, g, Groups) /\ Total(g) = J[Groups]
  BY TotalIs
<1>3. PICK K : Adds(K, h, Groups) /\ Total(h) = K[Groups]
  BY TotalIs
<1> QED
  BY <1>1, <1>2, <1>3, AddsBoth, JournalAssumption

\* One more in a group is one more in the sum.
LEMMA TotalOne ==
  ASSUME NEW f \in [Groups -> Int], NEW g \in Groups
  PROVE  Total([f EXCEPT ![g] = @ + 1]) = Total(f) + 1
<1> DEFINE one == [x \in Groups |-> IF x = g THEN 1 ELSE 0]
           more == [f EXCEPT ![g] = @ + 1]
           null == [x \in Groups |-> 0]
           I == [s \in SUBSET Groups |-> IF g \in s THEN 1 ELSE 0]
           N == [s \in SUBSET Groups |-> 0]
<1>1. \A s \in SUBSET Groups : s # {} => Some(s) \in s
  BY DEF Some
<1>2. Adds(I, one, Groups)
  <2>1. \A s \in SUBSET Groups :
          I[s] = IF s = {} THEN 0 ELSE one[Some(s)] + I[s \ {Some(s)}]
    BY <1>1
  <2> QED
    BY <2>1 DEF Adds
<1>3. Adds(N, null, Groups)
  <2>1. \A s \in SUBSET Groups :
          N[s] = IF s = {} THEN 0 ELSE null[Some(s)] + N[s \ {Some(s)}]
    BY <1>1
  <2> QED
    BY <2>1 DEF Adds
<1>4. one \in [Groups -> Int] /\ null \in [Groups -> Int]
  OBVIOUS
<1>5. Total(one) = 1
  <2>1. PICK K : Adds(K, one, Groups) /\ Total(one) = K[Groups]
    BY <1>4, TotalIs
  <2>2. \A x \in Groups : one[x] = one[x] + null[x]
    OBVIOUS
  <2>3. I[Groups] = 1 /\ N[Groups] = 0
    OBVIOUS
  <2> HIDE DEF one, null, I, N
  <2>4. K[Groups] = I[Groups] + N[Groups]
    BY <1>2, <1>3, <1>4, <2>1, <2>2, AddsBoth, JournalAssumption
  <2> QED
    BY <2>1, <2>3, <2>4
<1>6. more \in [Groups -> Int]
  OBVIOUS
<1>7. \A x \in Groups : more[x] = f[x] + one[x]
  OBVIOUS
<1> HIDE DEF one, more
<1>8. Total(more) = Total(f) + Total(one)
  BY <1>4, <1>6, <1>7, TotalBoth
<1> QED
  BY <1>5, <1>8 DEF more

JournalTyped ==
  /\ waiting \in [Groups -> Int] /\ flush.counts \in [Groups -> Int]
  /\ {overflow, flush.overflow, logged, settled} \subseteq Int

JournalInv == JournalTyped /\ EveryEventCounted

LEMMA EmitStep ==
  ASSUME JournalInv, NEW g \in Groups, Emit(g)
  PROVE  JournalInv'
<1>1. CASE waiting' = [waiting EXCEPT ![g] = @ + 1] /\ UNCHANGED overflow
  <2>1. Total(waiting') = Total(waiting) + 1
    BY <1>1, TotalOne DEF JournalInv, JournalTyped
  <2>2. Total(waiting) \in Int
    BY TotalInt DEF JournalInv, JournalTyped
  <2>3. JournalTyped'
    BY <1>1 DEF JournalInv, JournalTyped, Emit
  <2> QED
    BY <1>1, <2>1, <2>2, <2>3 DEF JournalInv, JournalTyped, EveryEventCounted, Emit
<1>2. CASE overflow' = overflow + 1 /\ UNCHANGED waiting
  <2>1. Total(waiting) \in Int
    BY TotalInt DEF JournalInv, JournalTyped
  <2> QED
    BY <1>2, <2>1 DEF JournalInv, JournalTyped, EveryEventCounted, Emit
<1> QED
  BY <1>1, <1>2 DEF Emit

\* What is dropped as settled is counted as settled, what came meanwhile too.
LEMMA VerifyStep ==
  ASSUME JournalInv, Verify
  PROVE  JournalInv'
<1>1. PICK done \in SUBSET {g \in Deliveries : flush.counts[g] > 0},
           unread \in SUBSET {g \in Deliveries : flush.counts[g] > 0} :
        LET left == [g \in Groups |-> IF g \in done \cup unread THEN 0 ELSE flush.counts[g]]
        IN  /\ flush' = IF Total(left) = 0 /\ overflow = 0 THEN NoFlush
                        ELSE [at |-> "sending", counts |-> left, overflow |-> overflow]
            /\ waiting' = [g \in Groups |-> IF g \in done THEN 0 ELSE waiting[g]]
            /\ settled' = settled + Total([g \in Groups |-> IF g \in done THEN waiting[g] ELSE 0])
  BY Zenon DEF Verify
<1> DEFINE left == [g \in Groups |-> IF g \in done \cup unread THEN 0 ELSE flush.counts[g]]
           gone == [g \in Groups |-> IF g \in done THEN waiting[g] ELSE 0]
<1>2. left \in [Groups -> Int] /\ gone \in [Groups -> Int] /\ waiting' \in [Groups -> Int]
  BY <1>1 DEF JournalInv, JournalTyped
<1>3. /\ flush' = NoFlush
         \/ flush' = [at |-> "sending", counts |-> left, overflow |-> overflow]
      /\ settled' = settled + Total(gone)
  BY <1>1
<1>4. \A g \in Groups : waiting[g] = waiting'[g] + gone[g]
  BY <1>1 DEF JournalInv, JournalTyped
<1> HIDE DEF left, gone
<1>5. Total(waiting) = Total(waiting') + Total(gone) /\ Total(waiting') \in Int /\ Total(gone) \in Int
  BY <1>2, <1>4, TotalBoth, TotalInt DEF JournalInv, JournalTyped
<1>6. flush'.counts \in [Groups -> Int] /\ flush'.overflow \in Int
  BY <1>2, <1>3 DEF NoFlush, JournalInv, JournalTyped
<1> QED
  BY <1>2, <1>3, <1>5, <1>6 DEF JournalInv, JournalTyped, EveryEventCounted, Verify

LEMMA DeliverStep ==
  ASSUME JournalInv, Deliver
  PROVE  JournalInv'
<1>1. flush'.counts \in [Groups -> Int] /\ flush'.overflow \in Int
  BY DEF Deliver, NoFlush
<1>2. CASE UNCHANGED <<waiting, overflow, settled>>
  BY <1>1, <1>2 DEF JournalInv, JournalTyped, EveryEventCounted, Deliver
<1>3. CASE /\ waiting' = [g \in Groups |-> Remainder(g)]
           /\ overflow' = overflow - flush.overflow
           /\ settled' = settled + Total(flush.counts) + flush.overflow
  <2>1. waiting' \in [Groups -> Int] /\ \A g \in Groups : waiting[g] = waiting'[g] + flush.counts[g]
    BY <1>3 DEF Remainder, JournalInv, JournalTyped
  <2>2. /\ Total(waiting) = Total(waiting') + Total(flush.counts)
        /\ Total(waiting') \in Int /\ Total(flush.counts) \in Int
    BY <2>1, TotalBoth, TotalInt DEF JournalInv, JournalTyped
  <2> QED
    BY <1>1, <1>3, <2>1, <2>2 DEF JournalInv, JournalTyped, EveryEventCounted, Deliver
<1> QED
  BY <1>2, <1>3 DEF Deliver

\* Every emergency is told to all officers, found settled or still counted, for
\* any number of groups, officers and limits (ErrorJournal subtracts from the
\* counts what the message held, and only when everybody has it).
THEOREM NoEventIsLost == JournalSpec => []EveryEventCounted
<1>1. InitJournal => JournalInv
  <2> SUFFICES ASSUME InitJournal
               PROVE  JournalInv
    OBVIOUS
  <2>1. JournalTyped
    BY DEF InitJournal, JournalTyped, NoFlush
  <2>2. \A g \in Groups : waiting[g] = waiting[g] + waiting[g]
    BY DEF InitJournal
  <2>3. Total(waiting) = Total(waiting) + Total(waiting) /\ Total(waiting) \in Int
    BY <2>1, <2>2, TotalBoth, TotalInt DEF JournalTyped
  <2> QED
    <3>1. logged = 0 /\ settled = 0 /\ overflow = 0
      BY DEF InitJournal
    <3>2. Total(waiting) = 0
      <4> DEFINE t == Total(waiting)
      <4>1. t = t + t /\ t \in Int
        BY <2>3
      <4> HIDE DEF t
      <4>2. t = 0
        BY <4>1
      <4> QED
        BY <4>2 DEF t
    <3> QED
      BY <2>1, <3>1, <3>2 DEF JournalInv, EveryEventCounted
<1>2. JournalInv /\ [JournalNext]_journal => JournalInv'
  <2> SUFFICES ASSUME JournalInv, [JournalNext]_journal
               PROVE  JournalInv'
    OBVIOUS
  <2>1. CASE UNCHANGED journal
    BY <2>1 DEF journal, JournalInv, JournalTyped, EveryEventCounted
  <2>2. CASE JournalTick
    BY <2>2 DEF JournalTick, JournalInv, JournalTyped, EveryEventCounted
  <2>3. CASE Select
    <3>1. flush'.counts \in [Groups -> Int] /\ flush'.overflow \in Int
      BY <2>3 DEF Select, NoFlush, JournalInv, JournalTyped
    <3> QED
      BY <2>3, <3>1 DEF Select, JournalInv, JournalTyped, EveryEventCounted
  <2> QED
    BY <2>1, <2>2, <2>3, EmitStep, VerifyStep, DeliverStep DEF JournalNext
<1> QED
  BY <1>1, <1>2, PTL DEF JournalSpec, JournalInv
-----------------------------------------------------------------------------
\* The pace of messages (Pacing).

Entered == [chat : Chats, time : Nat]

PacingTyped ==
  /\ nextSend \in Nat /\ table \in Seq(Entered) /\ Len(table) <= TableSize
  /\ sender \in [Senders -> [asleep : BOOLEAN, wake : Nat, chat : Chats \cup {"none"}, batch : Nat]]
  /\ \A s \in Senders : sender[s].asleep => sender[s].chat \in Chats /\ sender[s].batch >= 1
  /\ owed.all \in Nat /\ owed.chat \in [Chats -> Nat]

\* An entry that still matters is younger than the spacings of those behind it.
Young(entries, next) ==
  \A i \in 1..Len(entries) : entries[i].time > 0 =>
    entries[i].time + (Len(entries) - i + 1) * Spacing <= ChatGap + next

Single(entries) ==
  \A i, j \in 1..Len(entries) : entries[i].chat = entries[j].chat => i = j

\* What a chat must still wait for is in the table.
Covers(entries, chat) ==
  \A c \in Chats : chat[c] > 0 =>
    \E i \in 1..Len(entries) : entries[i].chat = c /\ entries[i].time >= chat[c]

PacingInv ==
  /\ PacingTyped /\ owed.all <= nextSend
  /\ Young(table, nextSend) /\ Single(table) /\ Covers(table, owed.chat)

LEMMA Multiples ==
  ASSUME NEW a \in Int, NEW b \in Int, NEW m \in Nat, a <= b
  PROVE  a * m <= b * m
  OBVIOUS

LEMMA RemoveAtIs ==
  ASSUME NEW S, NEW s \in Seq(S), NEW p \in 1..Len(s)
  PROVE  /\ RemoveAt(s, p) \in Seq(S) /\ Len(RemoveAt(s, p)) = Len(s) - 1
         /\ \A i \in 1..(Len(s) - 1) : RemoveAt(s, p)[i] = s[IF i < p THEN i ELSE i + 1]
<1> DEFINE a == SubSeq(s, 1, p - 1)
           b == SubSeq(s, p + 1, Len(s))
<1>1. /\ a \in Seq(S) /\ Len(a) = p - 1 /\ \A i \in 1..(p - 1) : a[i] = s[i]
      /\ b \in Seq(S) /\ Len(b) = Len(s) - p /\ \A i \in 1..(Len(s) - p) : b[i] = s[p + i]
  OBVIOUS
<1> HIDE DEF a, b
<1>2. /\ a \o b \in Seq(S) /\ Len(a \o b) = Len(s) - 1
      /\ \A i \in 1..(Len(s) - 1) : (a \o b)[i] = IF i <= p - 1 THEN a[i] ELSE b[i - (p - 1)]
  BY <1>1
<1>3. \A i \in 1..(Len(s) - 1) : (a \o b)[i] = s[IF i < p THEN i ELSE i + 1]
  <2> SUFFICES ASSUME NEW i \in 1..(Len(s) - 1)
               PROVE  (a \o b)[i] = s[IF i < p THEN i ELSE i + 1]
    OBVIOUS
  <2>1. CASE i < p
    BY <1>1, <1>2, <2>1
  <2>2. CASE ~(i < p)
    BY <1>1, <1>2, <2>2
  <2> QED
    BY <2>1, <2>2
<1>4. RemoveAt(s, p) = a \o b
  BY DEF RemoveAt, a, b
<1> QED
  BY <1>2, <1>3, <1>4

\* The others keep their order and come no nearer to being dropped.
LEMMA OthersIs ==
  ASSUME PacingInv, NEW c \in Chats
  PROVE  /\ Others(c) \in Seq(Entered) /\ Len(Others(c)) <= Len(table)
         /\ \A i \in 1..Len(Others(c)) : \E k \in 1..Len(table) :
              /\ Others(c)[i] = table[k] /\ table[k].chat # c
              /\ Len(Others(c)) - i <= Len(table) - k
         /\ Single(Others(c))
         /\ \A k \in 1..Len(table) : table[k].chat # c =>
              \E i \in 1..Len(Others(c)) :
                /\ Others(c)[i] = table[k] /\ Len(Others(c)) - i <= Len(table) - k
<1> DEFINE o == Others(c)
           n == Len(table)
<1>1. table \in Seq(Entered) /\ n \in Nat /\ DOMAIN table = 1..n
      /\ \A i, j \in 1..n : table[i].chat = table[j].chat => i = j
  BY DEF PacingInv, PacingTyped, Single
<1>2. CASE Entries(c) = {}
  <2>1. o = table /\ \A k \in 1..n : table[k].chat # c
    BY <1>1, <1>2 DEF Others, Entries
  <2> HIDE DEF o
  <2> QED
    BY <1>1, <2>1 DEF PacingInv, o
<1>3. CASE Entries(c) # {}
  <2> DEFINE p == Entry(c)
  <2>1. p \in 1..n /\ table[p].chat = c
    BY <1>1, <1>3 DEF Entries, Entry
  <2>2. o = RemoveAt(table, p)
    BY <1>3 DEF Others
  <2> HIDE DEF o, p
  <2>3. /\ o \in Seq(Entered) /\ Len(o) = n - 1
        /\ \A i \in 1..(n - 1) : o[i] = table[IF i < p THEN i ELSE i + 1]
    BY <1>1, <2>1, <2>2, RemoveAtIs
  <2>4. \A i \in 1..(n - 1) : \E k \in 1..n :
          o[i] = table[k] /\ table[k].chat # c /\ n - 1 - i <= n - k
    <3> SUFFICES ASSUME NEW i \in 1..(n - 1)
                 PROVE  \E k \in 1..n : o[i] = table[k] /\ table[k].chat # c /\ n - 1 - i <= n - k
      OBVIOUS
    <3> DEFINE k == IF i < p THEN i ELSE i + 1
    <3>1. k \in 1..n /\ k # p /\ n - 1 - i <= n - k
      BY <1>1, <2>1
    <3>2. o[i] = table[k]
      BY <2>3
    <3>3. table[k].chat # c
      BY <1>1, <2>1, <3>1
    <3> HIDE DEF k
    <3> QED
      BY <3>1, <3>2, <3>3
  <2>5. Single(o)
    <3> SUFFICES ASSUME NEW i \in 1..(n - 1), NEW j \in 1..(n - 1), o[i].chat = o[j].chat
                 PROVE  i = j
      BY <2>3 DEF Single
    <3> DEFINE k == IF i < p THEN i ELSE i + 1
               l == IF j < p THEN j ELSE j + 1
    <3>1. k \in 1..n /\ l \in 1..n /\ (k = l => i = j)
      BY <1>1, <2>1
    <3>2. o[i] = table[k] /\ o[j] = table[l]
      BY <2>3
    <3> HIDE DEF k, l
    <3> QED
      BY <1>1, <3>1, <3>2
  <2>6. \A k \in 1..n : table[k].chat # c =>
          \E i \in 1..(n - 1) : o[i] = table[k] /\ n - 1 - i <= n - k
    <3> SUFFICES ASSUME NEW k \in 1..n, table[k].chat # c
                 PROVE  \E i \in 1..(n - 1) : o[i] = table[k] /\ n - 1 - i <= n - k
      OBVIOUS
    <3> DEFINE i == IF k < p THEN k ELSE k - 1
    <3>1. k # p
      BY <2>1
    <3>2. i \in 1..(n - 1) /\ k = (IF i < p THEN i ELSE i + 1) /\ n - 1 - i <= n - k
      BY <1>1, <2>1, <3>1
    <3> HIDE DEF i
    <3> QED
      BY <2>3, <3>2
  <2> QED
    BY <1>1, <2>3, <2>4, <2>5, <2>6 DEF o
<1> QED
  BY <1>2, <1>3

\* Only an entry that no longer matters is dropped.
LEMMA KeptIs ==
  ASSUME NEW q \in Seq(Entered), Len(q) <= TableSize + 1
  PROVE  \E d \in {0, 1} :
           /\ d = 1 <=> Len(q) = TableSize + 1
           /\ Kept(q) \in Seq(Entered) /\ Len(Kept(q)) = Len(q) - d
           /\ \A i \in 1..(Len(q) - d) : Kept(q)[i] = q[i + d]
<1>1. TableSize \in Nat /\ Len(q) \in Nat
  BY PacingAssumption
<1>2. CASE Len(q) = TableSize + 1
  <2>1. Kept(q) = SubSeq(q, 2, Len(q))
    BY <1>1, <1>2 DEF Kept
  <2>2. /\ SubSeq(q, 2, Len(q)) \in Seq(Entered) /\ Len(SubSeq(q, 2, Len(q))) = Len(q) - 1
        /\ \A i \in 1..(Len(q) - 1) : SubSeq(q, 2, Len(q))[i] = q[i + 1]
    BY <1>1, <1>2
  <2> QED
    BY <1>2, <2>1, <2>2
<1>3. CASE Len(q) # TableSize + 1
  <2>1. Kept(q) = q
    BY <1>1, <1>3 DEF Kept
  <2> QED
    BY <1>1, <1>3, <2>1
<1> QED
  BY <1>2, <1>3

LEMMA DueIsPaid ==
  ASSUME PacingInv, NEW c \in Chats, Delay(c) = 0
  PROVE  nextSend = 0 /\ owed.all = 0 /\ owed.chat[c] = 0
<1>1. nextSend \in Nat /\ table \in Seq(Entered) /\ owed.all \in Nat /\ owed.chat[c] \in Nat
      /\ owed.all <= nextSend
  BY DEF PacingInv, PacingTyped
<1>2. CASE Entries(c) = {}
  <2>1. nextSend = 0
    BY <1>1, <1>2 DEF Delay, LaterOf
  <2>2. owed.chat[c] = 0
    BY <1>1, <1>2 DEF PacingInv, Covers, Entries
  <2> QED
    BY <1>1, <2>1, <2>2
<1>3. CASE Entries(c) # {}
  <2>1. Entry(c) \in 1..Len(table) /\ table[Entry(c)].chat = c
    BY <1>1, <1>3 DEF Entries, Entry
  <2>2. table[Entry(c)].time \in Nat
    <3>1. table[Entry(c)] \in Entered
      BY <1>1, <2>1
    <3> QED
      BY <3>1 DEF Entered
  <2>3. nextSend = 0 /\ table[Entry(c)].time = 0
    BY <1>1, <1>3, <2>2 DEF Delay, LaterOf
  <2>4. owed.chat[c] = 0
    BY <1>1, <2>1, <2>3 DEF PacingInv, Covers, Single
  <2> QED
    BY <1>1, <2>3, <2>4
<1> QED
  BY <1>2, <1>3

LEMMA GrantStep ==
  ASSUME PacingInv, NEW s \in Senders, NEW c \in Chats, NEW batch \in Nat, batch >= 1,
         Delay(c) = 0, Grant(s, c, batch)
  PROVE  PacingInv'
<1> DEFINE new == [chat |-> c, time |-> ChatGap]
           o == Others(c)
           q == Append(o, new)
           n == Len(table)
<1>1. /\ Spacing \in Nat /\ Spacing >= 1 /\ ChatGap \in Nat /\ TableSize \in Nat /\ TableSize >= 1
      /\ TableSize * Spacing >= ChatGap
      /\ n \in Nat /\ n <= TableSize /\ table \in Seq(Entered) /\ batch * Spacing \in Nat
      /\ batch * Spacing >= Spacing
  <2>1. batch * Spacing >= 1 * Spacing /\ batch * Spacing \in Nat
    BY Multiples, PacingAssumption
  <2> QED
    BY <2>1, PacingAssumption DEF PacingInv, PacingTyped
<1>2. nextSend = 0 /\ \A k \in 1..n : table[k] \in Entered
  BY <1>1, DueIsPaid
<1>3. \A k \in 1..n : table[k].time > 0 => table[k].time + (n - k + 1) * Spacing <= ChatGap
  BY <1>1, <1>2 DEF PacingInv, Young
<1>4. /\ o \in Seq(Entered) /\ Len(o) <= n
      /\ \A i \in 1..Len(o) : \E k \in 1..n :
              /\ o[i] = table[k] /\ table[k].chat # c
              /\ Len(o) - i <= n - k
      /\ Single(o)
      /\ \A k \in 1..n : table[k].chat # c =>
              \E i \in 1..Len(o) : o[i] = table[k] /\ Len(o) - i <= n - k
  BY OthersIs
<1>5. new \in Entered /\ new.chat = c /\ new.time = ChatGap
  BY <1>1 DEF Entered
<1>6. /\ nextSend' = batch * Spacing /\ table' = Kept(q) /\ sender' = [sender EXCEPT ![s] = Awake]
      /\ owed'.all = batch * Spacing /\ owed'.chat = [owed.chat EXCEPT ![c] = ChatGap]
  BY DEF Grant
<1> HIDE DEF o, new, n
<1>7. /\ q \in Seq(Entered) /\ Len(q) = Len(o) + 1 /\ q[Len(q)] = new
      /\ \A i \in 1..Len(o) : q[i] = o[i]
  BY <1>4, <1>5
<1>8. PICK d \in {0, 1} : /\ d = 1 <=> Len(q) = TableSize + 1
                          /\ Kept(q) \in Seq(Entered) /\ Len(Kept(q)) = Len(q) - d
                          /\ \A i \in 1..(Len(q) - d) : Kept(q)[i] = q[i + d]
  <2>1. Len(q) <= TableSize + 1
    BY <1>1, <1>4, <1>7
  <2> HIDE DEF q
  <2> QED
    BY <1>7, <2>1, KeptIs
<1> HIDE DEF q
<1>9. Len(o) \in Nat /\ Len(q) \in Nat /\ Len(q) - d >= 1 /\ Len(q) - d <= TableSize
  BY <1>1, <1>4, <1>7, <1>8
<1>t. Len(table') = Len(q) - d /\ \A k \in 1..(Len(q) - d) : table'[k] = q[k + d]
  <2>1. table' = Kept(q)
    BY <1>6
  <2> QED
    BY <1>8, <2>1
<1>u. nextSend' = batch * Spacing
  BY <1>6
\* How much time is left for an old entry, by its new place.
<1>10. ASSUME NEW i \in 1..Len(o), o[i].time > 0
       PROVE  o[i].time \in Nat /\ o[i].time + (Len(o) - i + 1) * Spacing <= ChatGap
  <2>1. PICK k \in 1..n : o[i] = table[k] /\ Len(o) - i <= n - k
    BY <1>4
  <2>2. table[k].time \in Nat /\ table[k].time + (n - k + 1) * Spacing <= ChatGap
    BY <1>2, <1>3, <1>10, <2>1 DEF Entered
  <2> DEFINE a == Len(o) - i + 1
             b == n - k + 1
  <2>3. a \in Int /\ b \in Int /\ a <= b
    BY <1>1, <1>9, <2>1
  <2>4. table[k].time + b * Spacing <= ChatGap
    BY <2>2
  <2> HIDE DEF a, b
  <2>5. a * Spacing <= b * Spacing /\ a * Spacing \in Int /\ b * Spacing \in Int
    BY <1>1, <2>3, Multiples
  <2>6. o[i].time + a * Spacing <= ChatGap
    <3> DEFINE less == a * Spacing
               more == b * Spacing
    <3>1. less <= more /\ less \in Int /\ more \in Int /\ ChatGap \in Int
      BY <1>1, <2>5
    <3>2. o[i].time + more <= ChatGap /\ o[i].time \in Int
      BY <2>1, <2>2, <2>4
    <3> HIDE DEF less, more
    <3>3. o[i].time + less <= ChatGap
      BY <3>1, <3>2
    <3> QED
      BY <3>3 DEF less
  <2> QED
    BY <2>1, <2>2, <2>6 DEF a
<1>11. Young(table', nextSend')
  <2> SUFFICES ASSUME NEW i \in 1..(Len(q) - d), q[i + d].time > 0
               PROVE  q[i + d].time + (Len(q) - d - i + 1) * Spacing <= ChatGap + batch * Spacing
    BY <1>t, <1>u DEF Young
  <2>1. CASE i + d = Len(q)
    <3>1. Len(q) - d - i + 1 = 1
      BY <1>9, <2>1
    <3>2. q[i + d].time = ChatGap
      BY <1>5, <1>7, <2>1
    <3>3. (Len(q) - d - i + 1) * Spacing = Spacing
      BY <1>1, <3>1
    <3> QED
      BY <1>1, <3>2, <3>3
  <2>2. CASE i + d # Len(q)
    <3> DEFINE j == i + d
    <3>1. j \in 1..Len(o) /\ q[j] = o[j] /\ Len(q) - d - i + 1 = (Len(o) - j + 1) + 1
      BY <1>7, <1>8, <1>9, <2>2
    <3>2. o[j].time \in Nat /\ o[j].time + (Len(o) - j + 1) * Spacing <= ChatGap
      BY <1>10, <3>1
    <3> DEFINE a == Len(o) - j + 1
    <3>3. a \in Int /\ Len(q) - d - i + 1 = a + 1 /\ q[i + d] = o[j]
          /\ o[j].time + a * Spacing <= ChatGap
      BY <1>9, <3>1, <3>2
    <3> HIDE DEF a, j
    <3>4. (a + 1) * Spacing = a * Spacing + Spacing /\ a * Spacing \in Int
      BY <1>1, <3>3
    <3>5. (Len(q) - d - i + 1) * Spacing = a * Spacing + Spacing
      BY <3>3, <3>4
    <3>6. o[j].time + (a * Spacing + Spacing) <= ChatGap + batch * Spacing
      <4> DEFINE t == a * Spacing
                 u == batch * Spacing
      <4>1. t \in Int /\ u \in Nat /\ u >= Spacing /\ o[j].time + t <= ChatGap
        BY <1>1, <3>3, <3>4
      <4>2. o[j].time \in Nat /\ Spacing \in Nat /\ ChatGap \in Nat
        BY <1>1, <3>2
      <4> HIDE DEF t, u
      <4>3. o[j].time + (t + Spacing) <= ChatGap + u
        BY <4>1, <4>2
      <4> QED
        BY <4>3 DEF t, u
    <3> QED
      BY <3>3, <3>5, <3>6
  <2> QED
    BY <2>1, <2>2
<1>12. Single(table')
  <2>1. Single(q)
    <3>1. \A i \in 1..Len(o) : o[i].chat # c
      BY <1>4
    <3>2. \A i, j \in 1..Len(o) : o[i].chat = o[j].chat => i = j
      BY <1>4 DEF Single
    <3>3. \A i \in 1..Len(q) : i \in 1..Len(o) \/ i = Len(q)
      BY <1>7, <1>9
    <3> QED
      BY <1>5, <1>7, <3>1, <3>2, <3>3 DEF Single
  <2> SUFFICES ASSUME NEW i \in 1..(Len(q) - d), NEW j \in 1..(Len(q) - d),
                      q[i + d].chat = q[j + d].chat
               PROVE  i = j
    BY <1>t, SMTT(40) DEF Single
  <2>2. i + d \in 1..Len(q) /\ j + d \in 1..Len(q)
    BY <1>8, <1>9
  <2>3. i + d = j + d
    BY <2>1, <2>2 DEF Single
  <2> QED
    BY <1>8, <1>9, <2>3
<1>13. Covers(table', owed'.chat)
  <2> SUFFICES ASSUME NEW x \in Chats, owed'.chat[x] > 0
               PROVE  \E i \in 1..(Len(q) - d) : q[i + d].chat = x /\ q[i + d].time >= owed'.chat[x]
    BY <1>t DEF Covers
  <2>1. CASE x = c
    <3>1. owed'.chat[x] = ChatGap
      BY <1>6, <2>1 DEF PacingInv, PacingTyped
    <3> DEFINE e == Len(q) - d
    <3>2. e \in 1..e /\ e + d = Len(q)
      BY <1>8, <1>9
    <3> HIDE DEF e
    <3>3. q[e + d].chat = x /\ q[e + d].time >= owed'.chat[x]
      BY <1>1, <1>5, <1>7, <2>1, <3>1, <3>2
    <3> QED
      BY <3>2, <3>3 DEF e
  <2>2. CASE x # c
    <3>1. owed'.chat[x] = owed.chat[x] /\ owed.chat[x] \in Nat
      BY <1>6, <2>2 DEF PacingInv, PacingTyped
    <3>2. PICK k \in 1..n : table[k].chat = x /\ table[k].time >= owed.chat[x]
      BY <3>1 DEF PacingInv, Covers, n
    <3>3. PICK i \in 1..Len(o) : o[i] = table[k]
      BY <1>4, <2>2, <3>2
    <3>4. o[i].time > 0 /\ o[i].time \in Nat
      BY <1>2, <3>1, <3>2, <3>3 DEF Entered
    <3>5. i - d >= 1
      <4>1. CASE d = 0
        BY <1>9, <4>1
      <4>2. CASE d = 1 /\ i = 1
        <5>1. Len(o) - i + 1 = TableSize
          <6>1. Len(q) = TableSize + 1 /\ Len(q) = Len(o) + 1
            BY <1>7, <1>8, <4>2
          <6> QED
            BY <1>1, <1>9, <4>2, <6>1
        <5>2. o[i].time + TableSize * Spacing <= ChatGap
          BY <1>10, <3>4, <5>1
        <5> DEFINE all == TableSize * Spacing
        <5>3. o[i].time + all <= ChatGap /\ all >= ChatGap /\ all \in Int
          BY <1>1, <5>2
        <5>4. o[i].time \in Int /\ o[i].time > 0 /\ ChatGap \in Int
          BY <1>1, <3>4
        <5> HIDE DEF all
        <5> QED
          BY <5>3, <5>4
      <4> QED
        BY <1>8, <1>9, <4>1, <4>2
    <3>6. (i - d) \in 1..(Len(q) - d) /\ i - d + d = i /\ q[i] = o[i]
      BY <1>7, <1>8, <1>9, <3>5
    <3> QED
      BY <3>1, <3>2, <3>3, <3>6
  <2> QED
    BY <2>1, <2>2
<1>14. PacingTyped'
  <2>1. Awake \in [asleep : BOOLEAN, wake : Nat, chat : Chats \cup {"none"}, batch : Nat]
        /\ ~Awake.asleep
    BY DEF Awake
  <2>2. /\ sender' \in [Senders -> [asleep : BOOLEAN, wake : Nat, chat : Chats \cup {"none"},
                                    batch : Nat]]
        /\ \A t \in Senders : sender'[t].asleep =>
             sender'[t].chat \in Chats /\ sender'[t].batch >= 1
    BY <1>6, <2>1 DEF PacingInv, PacingTyped
  <2>3. owed'.chat \in [Chats -> Nat]
    BY <1>1, <1>6 DEF PacingInv, PacingTyped
  <2> QED
    BY <1>1, <1>6, <1>8, <1>9, <2>2, <2>3 DEF PacingTyped
<1> QED
  BY <1>1, <1>6, <1>11, <1>12, <1>13, <1>14 DEF PacingInv

LEMMA PaceTickStep ==
  ASSUME PacingInv, PaceTick
  PROVE  PacingInv'
<1> DEFINE n == Len(table)
<1>1. table \in Seq(Entered) /\ n \in Nat /\ \A i \in 1..n : table[i] \in Entered
  BY DEF PacingInv, PacingTyped
<1>2. \A time \in Nat : Shorter(time) \in Nat /\ Shorter(time) <= time
                        /\ (Shorter(time) > 0 => Shorter(time) = time - 1)
                        /\ time - 1 <= Shorter(time)
  BY DEF Shorter
<1>3. \A i \in 1..n : table[i].time \in Nat /\ table[i].chat \in Chats
  BY <1>1 DEF Entered
<1>4. /\ table' \in Seq(Entered) /\ Len(table') = n
      /\ \A i \in 1..n : table'[i].chat = table[i].chat /\ table'[i].time = Shorter(table[i].time)
  <2>1. table' = [i \in 1..n |-> [table[i] EXCEPT !.time = Shorter(@)]]
    BY <1>1 DEF PaceTick
  <2>2. \A i \in 1..n : [table[i] EXCEPT !.time = Shorter(@)] \in Entered
    BY <1>1, <1>2, <1>3 DEF Entered
  <2>3. \A i \in 1..n : [table[i] EXCEPT !.time = Shorter(@)] =
                          [chat |-> table[i].chat, time |-> Shorter(table[i].time)]
    BY <1>1 DEF Entered
  <2>4. table' \in Seq(Entered) /\ Len(table') = n
    BY <1>1, <2>1, <2>2
  <2> QED
    BY <2>1, <2>3, <2>4
<1> HIDE DEF n
<1>5. /\ nextSend' = Shorter(nextSend) /\ nextSend \in Nat
      /\ owed'.all = Shorter(owed.all) /\ owed.all \in Nat /\ owed.all <= nextSend
      /\ owed'.chat = [c \in Chats |-> Shorter(owed.chat[c])] /\ owed.chat \in [Chats -> Nat]
  BY DEF PaceTick, PacingInv, PacingTyped
<1>6. owed'.all \in Nat /\ nextSend' \in Nat /\ owed'.chat \in [Chats -> Nat]
  BY <1>2, <1>5
<1>7. owed'.all <= nextSend'
  BY <1>5 DEF Shorter
<1>8. Young(table', nextSend')
  <2> SUFFICES ASSUME NEW i \in 1..n, table'[i].time > 0
               PROVE  table'[i].time + (n - i + 1) * Spacing <= ChatGap + nextSend'
    BY <1>4 DEF Young
  <2> DEFINE t == (n - i + 1) * Spacing
  <2>1. table[i].time > 0 /\ table'[i].time = table[i].time - 1
    <3>1. table'[i].time = Shorter(table[i].time) /\ table[i].time \in Nat
      BY <1>3, <1>4
    <3> QED
      BY <3>1 DEF Shorter
  <2>2. table[i].time + t <= ChatGap + nextSend /\ t \in Int
    BY <1>1, <2>1, PacingAssumption DEF PacingInv, Young, n
  <2> HIDE DEF t
  <2>3. nextSend - 1 <= nextSend'
    BY <1>2, <1>5
  <2>4. table'[i].time + t <= ChatGap + nextSend'
    BY <1>3, <1>5, <1>6, <2>1, <2>2, <2>3, PacingAssumption
  <2> QED
    BY <2>4 DEF t
<1>9. Single(table')
  BY <1>4 DEF PacingInv, Single, n
<1>10. Covers(table', owed'.chat)
  <2> SUFFICES ASSUME NEW c \in Chats, owed'.chat[c] > 0
               PROVE  \E i \in 1..n : table'[i].chat = c /\ table'[i].time >= owed'.chat[c]
    BY <1>4 DEF Covers
  <2>1. owed.chat[c] \in Nat /\ owed'.chat[c] = Shorter(owed.chat[c])
    BY <1>5
  <2>2. owed.chat[c] > 0 /\ owed'.chat[c] = owed.chat[c] - 1
    BY <1>2, <2>1
  <2>3. PICK i \in 1..n : table[i].chat = c /\ table[i].time >= owed.chat[c]
    BY <2>2 DEF PacingInv, Covers, n
  <2>4. table'[i].time >= owed'.chat[c]
    <3>1. table[i].time \in Nat /\ table'[i].time = Shorter(table[i].time)
      BY <1>3, <1>4
    <3> QED
      BY <2>1, <2>2, <2>3, <3>1 DEF Shorter
  <2> QED
    BY <1>4, <2>3, <2>4
<1>11. PacingTyped'
  <2>1. \A s \in Senders :
          /\ sender'[s] = [sender[s] EXCEPT !.wake = Shorter(@)]
          /\ sender[s] \in [asleep : BOOLEAN, wake : Nat, chat : Chats \cup {"none"}, batch : Nat]
    BY DEF PaceTick, PacingInv, PacingTyped
  <2>2. \A s \in Senders :
          /\ sender'[s] \in [asleep : BOOLEAN, wake : Nat, chat : Chats \cup {"none"}, batch : Nat]
          /\ sender'[s].asleep = sender[s].asleep /\ sender'[s].chat = sender[s].chat
          /\ sender'[s].batch = sender[s].batch
    <3> SUFFICES ASSUME NEW s \in Senders
                 PROVE  /\ sender'[s] \in [asleep : BOOLEAN, wake : Nat,
                                          chat : Chats \cup {"none"}, batch : Nat]
                        /\ sender'[s].asleep = sender[s].asleep
                        /\ sender'[s].chat = sender[s].chat
                        /\ sender'[s].batch = sender[s].batch
      OBVIOUS
    <3>1. Shorter(sender[s].wake) \in Nat
      BY <1>2, <2>1
    <3> QED
      BY <2>1, <3>1
  <2>3. DOMAIN sender' = Senders /\ sender' = [s \in Senders |-> sender'[s]]
    BY DEF PaceTick
  <2> QED
    BY <1>4, <1>6, <2>2, <2>3 DEF PacingInv, PacingTyped, n
<1> QED
  BY <1>7, <1>8, <1>9, <1>10, <1>11 DEF PacingInv

LEMMA SleepStep ==
  ASSUME PacingInv, NEW s \in Senders, NEW c \in Chats, NEW batch \in Nat, batch >= 1,
         Sleep(s, c, batch)
  PROVE  PacingInv'
<1>1. Delay(c) \in Nat
  <2>1. nextSend \in Nat /\ table \in Seq(Entered)
    BY DEF PacingInv, PacingTyped
  <2>2. CASE Entries(c) = {}
    BY <2>1, <2>2 DEF Delay, LaterOf
  <2>3. CASE Entries(c) # {}
    <3>1. Entry(c) \in 1..Len(table)
      BY <2>1, <2>3 DEF Entries, Entry
    <3>2. table[Entry(c)] \in Entered
      BY <2>1, <3>1
    <3>3. table[Entry(c)].time \in Nat
      BY <3>2 DEF Entered
    <3> QED
      BY <2>1, <2>3, <3>3 DEF Delay, LaterOf
  <2> QED
    BY <2>2, <2>3
<1> DEFINE slept == [asleep |-> TRUE, wake |-> Delay(c), chat |-> c, batch |-> batch]
<1>2. /\ slept \in [asleep : BOOLEAN, wake : Nat, chat : Chats \cup {"none"}, batch : Nat]
      /\ slept.chat \in Chats /\ slept.batch >= 1
  BY <1>1
<1>3. sender' = [sender EXCEPT ![s] = slept] /\ UNCHANGED <<nextSend, table, owed>>
  BY DEF Sleep
<1> HIDE DEF slept
<1>4. PacingTyped'
  BY <1>2, <1>3 DEF PacingInv, PacingTyped
<1> QED
  BY <1>3, <1>4 DEF PacingInv, Young, Single, Covers

\* One step: the invariant stays, and who sends owes nothing.
LEMMA PaceStep ==
  ASSUME PacingInv, [PacingNext]_pacing
  PROVE  /\ PacingInv'
         /\ [\A c \in Chats :
               \/ owed'.chat[c] > owed.chat[c]
               \/ \E s \in Senders : sender[s].chat = c /\ sender[s].asleep /\ ~sender'[s].asleep
               => owed.all = 0 /\ owed.chat[c] = 0]_pacing
<1> DEFINE NothingOwed == \A c \in Chats :
                     \/ owed'.chat[c] > owed.chat[c]
                     \/ \E s \in Senders : sender[s].chat = c /\ sender[s].asleep
                                           /\ ~sender'[s].asleep
                     => owed.all = 0 /\ owed.chat[c] = 0
<1>0. /\ owed.chat \in [Chats -> Nat]
      /\ sender \in [Senders -> [asleep : BOOLEAN, wake : Nat, chat : Chats \cup {"none"},
                                 batch : Nat]]
      /\ \A s \in Senders : sender[s].asleep => sender[s].chat \in Chats /\ sender[s].batch >= 1
  BY DEF PacingInv, PacingTyped
<1>1. CASE UNCHANGED pacing
  BY <1>1 DEF pacing, PacingInv, PacingTyped, Young, Single, Covers
<1>2. CASE PaceTick
  <2>1. \A c \in Chats : owed'.chat[c] <= owed.chat[c] /\ owed'.chat[c] \in Nat
    <3>1. \A c \in Chats : owed'.chat[c] = Shorter(owed.chat[c]) /\ owed.chat[c] \in Nat
      BY <1>0, <1>2 DEF PaceTick
    <3> QED
      BY <3>1 DEF Shorter
  <2>2. \A s \in Senders : sender'[s].asleep = sender[s].asleep
    BY <1>0, <1>2 DEF PaceTick
  <2>3. NothingOwed
    BY <1>0, <2>1, <2>2
  <2> QED
    BY <1>2, <2>3, PaceTickStep
<1>3. ASSUME NEW s \in Senders, NEW c \in Chats, NEW batch \in Nat, batch >= 1, Try(s, c, batch),
             sender[s].asleep => sender[s].chat = c
      PROVE  PacingInv' /\ NothingOwed
  <2>1. CASE Delay(c) = 0
    <3>1. Grant(s, c, batch)
      BY <1>3, <2>1 DEF Try
    <3>2. owed.all = 0 /\ owed.chat[c] = 0
      BY <2>1, DueIsPaid
    <3>3. /\ \A x \in Chats \ {c} : owed'.chat[x] = owed.chat[x]
          /\ \A t \in Senders \ {s} : sender'[t] = sender[t]
      BY <1>0, <3>1 DEF Grant
    <3>4. NothingOwed
      BY <1>0, <1>3, <3>2, <3>3
    <3> QED
      BY <1>3, <2>1, <3>1, <3>4, GrantStep
  <2>2. CASE Delay(c) # 0
    <3>1. Sleep(s, c, batch)
      BY <1>3, <2>2 DEF Try
    <3>2. NothingOwed
      BY <1>0, <3>1 DEF Sleep
    <3> QED
      BY <1>3, <3>1, <3>2, SleepStep
  <2> QED
    BY <2>1, <2>2
<1>4. ASSUME NEW s \in Senders, Send(s) \/ Wake(s)
      PROVE  PacingInv' /\ NothingOwed
  <2>1. CASE Send(s)
    <3>1. PICK c \in Chats, batch \in 1..MaxBatch : Try(s, c, batch)
      BY <2>1 DEF Send
    <3>2. batch \in Nat /\ batch >= 1 /\ ~sender[s].asleep
      BY <2>1, PacingAssumption DEF Send
    <3> QED
      BY <1>3, <3>1, <3>2
  <2>2. CASE Wake(s)
    <3>1. sender[s].batch \in Nat
      BY <1>0
    <3> QED
      BY <1>0, <1>3, <2>2, <3>1 DEF Wake
  <2> QED
    BY <1>4, <2>1, <2>2
<1> QED
  BY <1>1, <1>2, <1>4 DEF PacingNext

\* Two messages to one chat are a chat's gap apart and any two the spacing of
\* those before, for any number of tasks and chats, as long as the table of chats
\* is not smaller than its assumption says (wait_telegram drops the entries that
\* were used longest ago).
THEOREM PaceIsKept == PacingSpec => PaceKept
<1>1. InitPacing => PacingInv
  <2> SUFFICES ASSUME InitPacing
               PROVE  PacingInv
    OBVIOUS
  <2>1. PacingTyped
    BY PacingAssumption DEF InitPacing, PacingTyped, Awake
  <2>2. Len(table) = 0 /\ \A c \in Chats : owed.chat[c] = 0
    BY DEF InitPacing
  <2> QED
    BY <2>1, <2>2 DEF InitPacing, PacingInv, Young, Single, Covers
<1> QED
  BY <1>1, PaceStep, PTL DEF PacingSpec, PaceKept
-----------------------------------------------------------------------------
\* Keys and pauses (Routes).

Standings == {"idle", "route", "claim", "call", "asked"}
KeyLists == Seq(Keys)
ModelLists == Seq(ToSet(Models))
Troubles == SUBSET Kinds
Asker ==
  [at : Standings, routes : KeyLists, models : ModelLists, left : Nat, wait : Nat,
   trouble : Troubles, refused : BOOLEAN]

RoutesTyped ==
  /\ key \in [Pool -> [enabled : BOOLEAN, rest : Nat]]
  /\ holder \in [Keys -> Askers \cup {None}]
  /\ paused = [p \in Pairs |-> paused[p]]
  /\ asker \in [Askers -> Asker]

AtKey(h) == h.at \in {"claim", "call", "asked"}
AtModel(h) == h.at \in {"call", "asked"}

\* The models a request has still to try at a key, of which none is paused.
Fresh(k, models, pauses) ==
  /\ models # <<>>
  /\ \A i \in 1..Len(models) : pauses[<<k, models[i]>>] = 0
  /\ \A i, j \in 1..Len(models) : models[i] = models[j] => i = j

\* What a request knows of its key: it holds it, and nobody else has changed it.
Alone(a, h) ==
  /\ AtKey(h) => h.routes # <<>> /\ holder[Head(h.routes)] = a
  /\ AtModel(h) =>
       /\ Fresh(Head(h.routes), h.models, paused)
       /\ Head(h.routes) \in Pool => key[Head(h.routes)].rest = 0
  /\ h.refused => h.at = "idle"

RoutesInv == RoutesTyped /\ \A a \in Askers : Alone(a, asker[a])

LEMMA ModelsAndKeys ==
  /\ Main \in ToSet(Models) /\ Service \in Keys /\ Pool \subseteq Keys
  /\ \A a \in Askers : OwnKey[a] # None => OwnKey[a] \in Keys
  BY RouteAssumption DEF Keys, ToSet, Main

\* What Head and Tail give of a list.
LEMMA HeadAndTail ==
  ASSUME NEW S, NEW s \in Seq(S), s # <<>>
  PROVE  /\ Head(s) \in S /\ Head(s) = s[1] /\ Len(s) >= 1 /\ Len(s) \in Nat
         /\ Tail(s) \in Seq(S) /\ Len(Tail(s)) = Len(s) - 1
         /\ \A i \in 1..(Len(s) - 1) : Tail(s)[i] = s[i + 1]
  OBVIOUS

LEMMA ListedIs ==
  ASSUME NEW S, IsFiniteSet(S), NEW s, NEW c \in Listed(S, s)
  PROVE  /\ c \in Seq(S) /\ Len(c) = Cardinality(S)
         /\ \A i, j \in 1..Len(c) : c[i] = c[j] => i = j
<1>1. Cardinality(S) \in Nat
  BY FS_CardinalityType
<1>2. /\ c \in [1..Cardinality(S) -> S]
      /\ \A i, j \in DOMAIN c : i < j => c[i] # c[j]
  BY DEF Listed
<1>3. c \in Seq(S) /\ Len(c) = Cardinality(S) /\ DOMAIN c = 1..Cardinality(S)
  BY <1>1, <1>2
<1>4. ASSUME NEW i \in 1..Len(c), NEW j \in 1..Len(c), c[i] = c[j]
      PROVE  i = j
  <2>1. i \in Int /\ j \in Int /\ i \in DOMAIN c /\ j \in DOMAIN c
    BY <1>1, <1>3
  <2>2. ~(i < j) /\ ~(j < i)
    BY <1>2, <1>4, <2>1
  <2> QED
    BY <2>1, <2>2
<1> QED
  BY <1>3, <1>4

\* A chain has finitely many models.
LEMMA ModelsAreFinite == IsFiniteSet(ToSet(Models))
<1>1. Models \in Seq(ToSet(Models)) /\ Len(Models) \in Nat
  BY RouteAssumption
<1>2. IsFiniteSet(1..Len(Models))
  BY <1>1, FS_Interval
<1>3. Models \in [1..Len(Models) -> ToSet(Models)] /\ DOMAIN Models = 1..Len(Models)
  BY <1>1
<1>4. \A m \in ToSet(Models) : \E i \in 1..Len(Models) : Models[i] = m
  BY <1>3 DEF ToSet
<1>5. Models \in Surjection(1..Len(Models), ToSet(Models))
  BY <1>3, <1>4 DEF Surjection
<1> QED
  BY <1>2, <1>5, FS_Surjection

LEMMA ChainsAreFresh ==
  ASSUME RoutesInv, NEW k \in Keys, Usable(k) # {}, NEW chain \in Chains(k)
  PROVE  chain \in Seq(ToSet(Models)) /\ Fresh(k, chain, paused)
<1>1. IsFiniteSet(Usable(k)) /\ Usable(k) \subseteq ToSet(Models)
  BY ModelsAreFinite, FS_Subset DEF Usable
<1>3. /\ chain \in Seq(Usable(k)) /\ Len(chain) = Cardinality(Usable(k))
      /\ \A i, j \in 1..Len(chain) : chain[i] = chain[j] => i = j
  BY <1>1, ListedIs DEF Chains
<1>4. chain # <<>>
  BY <1>1, <1>3, FS_EmptySet
<1>5. \A i \in 1..Len(chain) : chain[i] \in Usable(k)
  BY <1>3
<1>6. chain \in Seq(ToSet(Models))
  BY <1>1, <1>3
<1> QED
  BY <1>3, <1>4, <1>5, <1>6 DEF Fresh, Usable

\* The routes of a request that is made are keys.
LEMMA CandidatesAreKeys ==
  ASSUME RoutesInv, NEW pool \in Candidates
  PROVE  pool \in Seq(Keys)
<1> DEFINE S == {k \in Pool : Ready(k)}
<1>1. IsFiniteSet(S) /\ S \subseteq Keys
  BY RouteAssumption, ModelsAndKeys, FS_Subset
<1>2. PICK c \in Listed(S, order) : pool = SubSeq(c, 1, IF Len(c) < Width THEN Len(c) ELSE Width)
  BY DEF Candidates
<1>3. c \in Seq(S)
  BY <1>1, <1>2, ListedIs
<1> HIDE DEF S
<1>4. c \in Seq(Keys) /\ Len(c) \in Nat /\ Width \in Nat
  BY <1>1, <1>3, RouteAssumption
<1> QED
  BY <1>2, <1>4

\* A step of one request leaves the keys of the others as they are.
LEMMA OneMoves ==
  ASSUME RoutesInv, NEW a \in Askers, RoutesTyped', Alone(a, asker[a])',
         \A b \in Askers : b # a => asker'[b] = asker[b],
         \A k \in Keys : holder[k] \notin {a, None} =>
           /\ holder'[k] = holder[k] /\ (k \in Pool => key'[k].rest = key[k].rest)
           /\ \A m \in ToSet(Models) : paused'[<<k, m>>] = paused[<<k, m>>]
  PROVE  RoutesInv'
<1>1. SUFFICES ASSUME NEW b \in Askers, b # a  PROVE Alone(b, asker[b])'
  BY DEF RoutesInv
<1>2. asker'[b] = asker[b] /\ asker[b] \in Asker /\ Alone(b, asker[b])
  BY <1>1 DEF RoutesInv, RoutesTyped
<1> DEFINE h == asker[b]
           k == Head(h.routes)
<1>3. h.routes \in Seq(Keys) /\ h.models \in Seq(ToSet(Models))
  BY <1>2 DEF Asker, KeyLists, ModelLists
<1>4. CASE ~AtKey(h)
  BY <1>2, <1>4 DEF Alone, AtKey, AtModel
<1>5. CASE AtKey(h)
  <2>1. h.routes # <<>> /\ holder[k] = b
    BY <1>2, <1>5 DEF Alone
  <2>2. k \in Keys
    BY <1>3, <2>1, HeadAndTail
  <2>3. holder[k] \notin {a, None}
    BY <1>1, <2>1, RouteAssumption
  <2>4. /\ holder'[k] = b /\ (k \in Pool => key'[k].rest = key[k].rest)
        /\ \A m \in ToSet(Models) : paused'[<<k, m>>] = paused[<<k, m>>]
    BY <2>1, <2>2, <2>3
  <2>5. \A i \in 1..Len(h.models) : h.models[i] \in ToSet(Models)
    BY <1>3
  <2>6. Fresh(k, h.models, paused) => Fresh(k, h.models, paused')
    BY <2>4, <2>5 DEF Fresh
  <2> HIDE DEF k
  <2>7. Alone(b, h) => Alone(b, h)'
    BY <1>2, <2>1, <2>4, <2>6 DEF Alone, k
  <2> QED
    BY <1>2, <2>7
<1> QED
  BY <1>4, <1>5

\* A request that knows nothing of a key knows nothing that could be wrong.
LEMMA AwayIsAlone ==
  ASSUME NEW a \in Askers, asker'[a].at \in {"idle", "route"},
         asker'[a].refused => asker'[a].at = "idle"
  PROVE  Alone(a, asker[a])'
  BY DEF Alone, AtKey, AtModel

LEMMA Blanks ==
  /\ <<>> \in KeyLists /\ <<>> \in ModelLists /\ {} \in Troubles /\ 0 \in Nat
  /\ Standings = {"idle", "route", "claim", "call", "asked"}
  BY DEF KeyLists, ModelLists, Troubles, Standings

LEMMA Returns ==
  /\ Resting \in Asker
  /\ RoutesInv => \A a \in Askers : asker[a].routes # <<>> => Onward(a) \in Asker
<1>1. Resting \in Asker
  BY Blanks DEF Resting, Asker
<1>2. ASSUME RoutesInv, NEW a \in Askers, asker[a].routes # <<>>
      PROVE  Onward(a) \in Asker
  <2>1. asker[a] \in Asker
    BY <1>2 DEF RoutesInv, RoutesTyped
  <2>2. Tail(asker[a].routes) \in KeyLists
    BY <1>2, <2>1, HeadAndTail DEF Asker, KeyLists
  <2>3. "route" \in Standings
    BY Blanks
  <2> QED
    BY <2>1, <2>2, <2>3, Blanks DEF Onward, Asker
<1> QED
  BY <1>1, <1>2

\* The key of a request that has a route.
LEMMA KeyIsKey ==
  ASSUME RoutesInv, NEW a \in Askers, asker[a].routes # <<>>
  PROVE  Key(a) \in Keys
<1>1. asker[a].routes \in Seq(Keys)
  BY DEF RoutesInv, RoutesTyped, Asker, KeyLists
<1> QED
  BY <1>1, HeadAndTail DEF Key

\* One request changes, and it is a request afterwards.
LEMMA AskerSet ==
  ASSUME RoutesInv, NEW a \in Askers, asker'[a] \in Asker,
         asker' = [asker EXCEPT ![a] = asker'[a]]
  PROVE  asker' \in [Askers -> Asker] /\ \A b \in Askers : b # a => asker'[b] = asker[b]
  BY DEF RoutesInv, RoutesTyped

LEMMA AskStep ==
  ASSUME RoutesInv, NEW a \in Askers, Ask(a)
  PROVE  RoutesInv'
<1>1. PICK pool \in Candidates :
        asker' = [asker EXCEPT ![a] = [Resting EXCEPT !.at = "route", !.left = Deadline,
          !.routes = (IF OwnKey[a] = None THEN <<>> ELSE <<OwnKey[a]>>) \o pool \o <<Service>>]]
  BY DEF Ask
<1> DEFINE own == IF OwnKey[a] = None THEN <<>> ELSE <<OwnKey[a]>>
           all == own \o pool \o <<Service>>
<1>2. own \in Seq(Keys) /\ pool \in Seq(Keys) /\ <<Service>> \in Seq(Keys)
  BY CandidatesAreKeys, ModelsAndKeys
<1>3. all \in Seq(Keys)
  <2> HIDE DEF own
  <2> QED
    BY <1>2
<1>4. asker' = [asker EXCEPT ![a] =
                 [Resting EXCEPT !.at = "route", !.left = Deadline, !.routes = all]]
  BY <1>1
<1> HIDE DEF all
<1>5. Deadline \in Nat
  BY RouteAssumption
<1>6. /\ asker \in [Askers -> Asker]
      /\ asker'[a] = [Resting EXCEPT !.at = "route", !.left = Deadline, !.routes = all]
  BY <1>4 DEF RoutesInv, RoutesTyped
<1>7. asker'[a] \in Asker /\ asker'[a].at = "route" /\ ~asker'[a].refused
  <2>1. "route" \in Standings /\ Resting \in Asker /\ all \in KeyLists
    BY <1>3, Returns, Blanks DEF KeyLists
  <2>2. asker'[a] \in Asker
    BY <2>1, <1>5, <1>6 DEF Asker
  <2> QED
    BY <2>2, <1>6 DEF Resting
<1>8. asker' \in [Askers -> Asker] /\ \A b \in Askers : b # a => asker'[b] = asker[b]
  BY <1>4, <1>6, <1>7, AskerSet
<1>9. UNCHANGED <<key, holder, paused>>
  BY DEF Ask
<1>10. RoutesTyped'
  BY <1>8, <1>9 DEF RoutesInv, RoutesTyped
<1>11. Alone(a, asker[a])'
  BY <1>7, AwayIsAlone
<1> QED
  BY <1>8, <1>9, <1>10, <1>11, OneMoves

\* A request goes on to its next route or ends; it may leave its key's lock.
LEMMA Goes ==
  ASSUME RoutesInv, NEW a \in Askers, NEW k \in Keys,
         asker'[a] \in Asker, asker' = [asker EXCEPT ![a] = asker'[a]],
         asker'[a].at \in {"idle", "route"}, asker'[a].refused => asker'[a].at = "idle",
         holder[k] = a, holder' = [holder EXCEPT ![k] = None],
         key' \in [Pool -> [enabled : BOOLEAN, rest : Nat]],
         \A l \in Pool : l # k => key'[l].rest = key[l].rest,
         paused' = [p \in Pairs |-> paused'[p]],
         \A l \in Keys : l # k =>
           \A m \in ToSet(Models) : paused'[<<l, m>>] = paused[<<l, m>>]
  PROVE  RoutesInv'
<1>1. asker' \in [Askers -> Asker] /\ \A b \in Askers : b # a => asker'[b] = asker[b]
  BY AskerSet
<1>2. holder' \in [Keys -> Askers \cup {None}] /\ \A l \in Keys : l # k => holder'[l] = holder[l]
  BY DEF RoutesInv, RoutesTyped
<1>3. RoutesTyped'
  BY <1>1, <1>2 DEF RoutesTyped
<1>4. Alone(a, asker[a])'
  BY AwayIsAlone
<1>5. \A l \in Keys : holder[l] \notin {a, None} =>
        /\ holder'[l] = holder[l] /\ (l \in Pool => key'[l].rest = key[l].rest)
        /\ \A m \in ToSet(Models) : paused'[<<l, m>>] = paused[<<l, m>>]
  BY <1>2
<1> QED
  BY <1>1, <1>3, <1>4, <1>5, OneMoves

\* A request turns away without having touched anything.
LEMMA TurnsAway ==
  ASSUME RoutesInv, NEW a \in Askers, UNCHANGED <<key, holder, paused>>,
         asker'[a] \in Asker, asker' = [asker EXCEPT ![a] = asker'[a]],
         Alone(a, asker[a])'
  PROVE  RoutesInv'
<1>1. asker' \in [Askers -> Asker] /\ \A b \in Askers : b # a => asker'[b] = asker[b]
  BY AskerSet
<1>2. RoutesTyped'
  BY <1>1 DEF RoutesInv, RoutesTyped
<1> QED
  BY <1>1, <1>2, OneMoves

LEMMA PassOverStep ==
  ASSUME RoutesInv, NEW a \in Askers, PassOver(a)
  PROVE  RoutesInv'
<1>1. asker \in [Askers -> Asker] /\ asker[a] \in Asker /\ Alone(a, asker[a])
  BY DEF RoutesInv, RoutesTyped
<1>2. Onward(a) \in Asker
  BY Returns DEF PassOver
<1>3. asker' = [asker EXCEPT ![a] = Onward(a)] /\ asker'[a] = Onward(a)
  BY <1>1 DEF PassOver
<1>4. asker[a].at = "route" /\ ~asker[a].refused
  BY <1>1 DEF PassOver, Alone, Asker
<1>5. Onward(a).at = "route" /\ ~Onward(a).refused
  BY <1>1, <1>4 DEF Onward, Asker
<1>6. UNCHANGED <<key, holder, paused>>
  BY DEF PassOver
<1>7. Alone(a, asker[a])'
  BY <1>3, <1>5, AwayIsAlone
<1> QED
  BY <1>2, <1>3, <1>6, <1>7, TurnsAway

LEMMA NoRouteStep ==
  ASSUME RoutesInv, NEW a \in Askers, NoRoute(a)
  PROVE  RoutesInv'
<1>1. asker \in [Askers -> Asker]
  BY DEF RoutesInv, RoutesTyped
<1>2. /\ asker' = [asker EXCEPT ![a] = Resting] /\ asker'[a] = Resting
      /\ UNCHANGED <<key, holder, paused>>
  BY <1>1 DEF NoRoute
<1>3. Resting \in Asker /\ Resting.at = "idle"
  BY Returns DEF Resting
<1>4. Alone(a, asker[a])'
  BY <1>2, <1>3, AwayIsAlone
<1> QED
  BY <1>2, <1>3, <1>4, TurnsAway

\* What a request at a key is known to hold.
LEMMA AtKeyHolds ==
  ASSUME RoutesInv, NEW a \in Askers, asker[a].at \in {"claim", "call", "asked"}
  PROVE  /\ asker[a] \in Asker /\ asker[a].routes # <<>> /\ Key(a) \in Keys
         /\ holder[Key(a)] = a /\ ~asker[a].refused
         /\ asker[a].at # "claim" =>
              /\ asker[a].models # <<>> /\ Fresh(Key(a), asker[a].models, paused)
              /\ Key(a) \in Pool => key[Key(a)].rest = 0
<1>1. asker[a] \in Asker /\ Alone(a, asker[a])
  BY DEF RoutesInv, RoutesTyped
<1>2. asker[a].routes # <<>> /\ holder[Key(a)] = a
  BY <1>1 DEF Alone, AtKey, Key
<1>3. asker[a].refused \in BOOLEAN
  BY <1>1 DEF Asker
<1>4. ~asker[a].refused
  BY <1>1, <1>3 DEF Alone
<1>5. asker[a].at # "claim" =>
        /\ Fresh(Key(a), asker[a].models, paused)
        /\ Key(a) \in Pool => key[Key(a)].rest = 0
  BY <1>1 DEF Alone, AtModel, Key
<1> QED
  BY <1>1, <1>2, <1>4, <1>5, KeyIsKey DEF Fresh

LEMMA TooLateStep ==
  ASSUME RoutesInv, NEW a \in Askers, TooLate(a)
  PROVE  RoutesInv'
<1>1. asker \in [Askers -> Asker] /\ RoutesTyped
  BY DEF RoutesInv, RoutesTyped
<1>2. /\ asker' = [asker EXCEPT ![a] = Resting] /\ asker'[a] = Resting
      /\ UNCHANGED <<key, paused>> /\ holder' = [holder EXCEPT ![Key(a)] = None]
  BY <1>1 DEF TooLate, Release
<1>3. Resting \in Asker /\ Resting.at = "idle"
  BY Returns DEF Resting
<1>4. Key(a) \in Keys /\ holder[Key(a)] = a
  BY AtKeyHolds DEF TooLate
<1>5. key' \in [Pool -> [enabled : BOOLEAN, rest : Nat]] /\ paused' = [p \in Pairs |-> paused'[p]]
  BY <1>1, <1>2 DEF RoutesTyped
<1> HIDE DEF RoutesInv
<1> QED
  BY <1>2, <1>3, <1>4, <1>5, Goes

\* A request takes a free key, or one it holds, and the chain of models there.
LEMMA Takes ==
  ASSUME RoutesInv, NEW a \in Askers, asker[a].routes # <<>>, Usable(Key(a)) # {},
         holder[Key(a)] \in {a, None}, ~asker[a].refused, Take(a),
         Key(a) \in Pool => key[Key(a)].rest = 0, UNCHANGED <<key, paused>>
  PROVE  RoutesInv'
<1> DEFINE k == Key(a)
<1>1. k \in Keys
  BY KeyIsKey
<1>2. PICK chain \in Chains(k) : asker' = [asker EXCEPT ![a].at = "call", ![a].models = chain]
  BY DEF Take
<1>3. chain \in ModelLists /\ Fresh(k, chain, paused)
  BY <1>1, ChainsAreFresh DEF ModelLists
<1>4. /\ asker \in [Askers -> Asker] /\ asker[a] \in Asker
      /\ holder \in [Keys -> Askers \cup {None}]
  BY DEF RoutesInv, RoutesTyped
<1>5. "call" \in Standings
  BY Blanks
<1> HIDE DEF k
<1>6. /\ asker'[a] = [asker[a] EXCEPT !.at = "call", !.models = chain]
      /\ asker' = [asker EXCEPT ![a] = asker'[a]]
  BY <1>2, <1>4
<1>7. /\ asker'[a] \in Asker /\ asker'[a].at = "call" /\ asker'[a].models = chain
      /\ asker'[a].routes = asker[a].routes /\ asker'[a].refused = asker[a].refused
  BY <1>3, <1>4, <1>5, <1>6 DEF Asker
<1>8. asker' \in [Askers -> Asker] /\ \A b \in Askers : b # a => asker'[b] = asker[b]
  BY <1>6, <1>7, AskerSet
<1>9. /\ holder' \in [Keys -> Askers \cup {None}] /\ holder'[k] = a
      /\ \A l \in Keys : l # k => holder'[l] = holder[l]
  BY <1>1, <1>4 DEF Take, k
<1>10. RoutesTyped'
  BY <1>8, <1>9 DEF RoutesInv, RoutesTyped
<1>11. Alone(a, asker[a])'
  BY <1>3, <1>7, <1>9 DEF Alone, Key, k
<1>12. \A l \in Keys : holder[l] \notin {a, None} => holder'[l] = holder[l]
  BY <1>9 DEF k
<1> QED
  BY <1>8, <1>10, <1>11, <1>12, OneMoves

LEMMA RouteHolds ==
  ASSUME RoutesInv, NEW a \in Askers, asker[a].at = "route"
  PROVE  ~asker[a].refused
<1>1. asker[a] \in Asker /\ Alone(a, asker[a])
  BY DEF RoutesInv, RoutesTyped
<1> QED
  BY <1>1 DEF Alone, Asker

LEMMA TakeKeyStep ==
  ASSUME RoutesInv, NEW a \in Askers, TakeKey(a)
  PROVE  RoutesInv'
<1>1. /\ asker[a].routes # <<>> /\ Usable(Key(a)) # {} /\ holder[Key(a)] \in {a, None}
      /\ Key(a) \notin Pool /\ asker[a].at = "route" /\ Take(a) /\ UNCHANGED <<key, paused>>
  BY DEF TakeKey
<1> QED
  BY <1>1, RouteHolds, Takes

LEMMA LockPoolKeyStep ==
  ASSUME RoutesInv, NEW a \in Askers, LockPoolKey(a)
  PROVE  RoutesInv'
<1> DEFINE k == Key(a)
<1>1. /\ asker[a].routes # <<>> /\ asker[a].at = "route" /\ holder[k] = None
      /\ holder' = [holder EXCEPT ![k] = a] /\ asker' = [asker EXCEPT ![a].at = "claim"]
      /\ UNCHANGED <<key, paused>>
  BY DEF LockPoolKey
<1>2. k \in Keys /\ ~asker[a].refused
  BY <1>1, KeyIsKey, RouteHolds
<1>3. /\ asker \in [Askers -> Asker] /\ asker[a] \in Asker
      /\ holder \in [Keys -> Askers \cup {None}]
  BY DEF RoutesInv, RoutesTyped
<1>4. "claim" \in Standings
  BY Blanks
<1> HIDE DEF k
<1>5. /\ asker'[a] = [asker[a] EXCEPT !.at = "claim"]
      /\ asker' = [asker EXCEPT ![a] = asker'[a]]
  BY <1>1, <1>3
<1>6. /\ asker'[a] \in Asker /\ asker'[a].at = "claim"
      /\ asker'[a].routes = asker[a].routes /\ asker'[a].refused = asker[a].refused
  BY <1>3, <1>4, <1>5 DEF Asker
<1>7. asker' \in [Askers -> Asker] /\ \A b \in Askers : b # a => asker'[b] = asker[b]
  BY <1>5, <1>6, AskerSet
<1>8. /\ holder' \in [Keys -> Askers \cup {None}] /\ holder'[k] = a
      /\ \A l \in Keys : l # k => holder'[l] = holder[l]
  BY <1>1, <1>2, <1>3
<1>9. RoutesTyped'
  BY <1>1, <1>7, <1>8 DEF RoutesInv, RoutesTyped
<1>10. Alone(a, asker[a])'
  BY <1>1, <1>2, <1>6, <1>8 DEF Alone, AtModel, Key, k
<1>11. \A l \in Keys : holder[l] \notin {a, None} => holder'[l] = holder[l]
  BY <1>1, <1>8
<1> QED
  BY <1>1, <1>7, <1>9, <1>10, <1>11, OneMoves

\* Leaving a key that could not be used.
LEMMA Skips ==
  ASSUME RoutesInv, NEW a \in Askers, asker[a].at = "claim", Skip(a),
         UNCHANGED <<key, paused>>
  PROVE  RoutesInv'
<1>1. /\ asker[a] \in Asker /\ asker[a].routes # <<>> /\ Key(a) \in Keys
      /\ holder[Key(a)] = a /\ ~asker[a].refused
  BY AtKeyHolds
<1>2. asker \in [Askers -> Asker] /\ RoutesTyped
  BY DEF RoutesInv, RoutesTyped
<1>3. /\ asker' = [asker EXCEPT ![a] = Onward(a)] /\ asker'[a] = Onward(a)
      /\ holder' = [holder EXCEPT ![Key(a)] = None]
  BY <1>2 DEF Skip, Release
<1>4. Onward(a) \in Asker /\ Onward(a).at = "route" /\ ~Onward(a).refused
  BY <1>1, Returns DEF Onward, Asker
<1>5. key' \in [Pool -> [enabled : BOOLEAN, rest : Nat]] /\ paused' = [p \in Pairs |-> paused'[p]]
  BY <1>2 DEF RoutesTyped
<1> HIDE DEF RoutesInv
<1> QED
  BY <1>1, <1>3, <1>4, <1>5, Goes

LEMMA ClaimStep ==
  ASSUME RoutesInv, NEW a \in Askers, Claim(a)
  PROVE  RoutesInv'
<1>1. /\ asker[a].at = "claim" /\ UNCHANGED <<key, paused>>
      /\ asker[a].routes # <<>> /\ holder[Key(a)] = a /\ ~asker[a].refused
  BY AtKeyHolds DEF Claim
<1>2. CASE Ready(Key(a)) /\ Usable(Key(a)) # {}
  BY <1>1, <1>2, Takes DEF Claim, Ready
<1>3. CASE ~(Ready(Key(a)) /\ Usable(Key(a)) # {})
  BY <1>1, <1>3, Skips DEF Claim
<1> QED
  BY <1>2, <1>3

LEMMA CallStep ==
  ASSUME RoutesInv, NEW a \in Askers, Call(a)
  PROVE  RoutesInv'
<1>1. /\ asker' = [asker EXCEPT ![a].at = "asked", ![a].wait = CallLimit]
      /\ UNCHANGED <<key, holder, paused>> /\ asker[a].at = "call"
  BY DEF Call
<1>2. asker \in [Askers -> Asker] /\ asker[a] \in Asker
  BY DEF RoutesInv, RoutesTyped
<1>3. "asked" \in Standings /\ CallLimit \in Nat
  BY Blanks, RouteAssumption
<1>4. /\ asker'[a] = [asker[a] EXCEPT !.at = "asked", !.wait = CallLimit]
      /\ asker' = [asker EXCEPT ![a] = asker'[a]]
  BY <1>1, <1>2
<1>5. /\ asker'[a] \in Asker /\ asker'[a].at = "asked" /\ asker'[a].models = asker[a].models
      /\ asker'[a].routes = asker[a].routes /\ asker'[a].refused = asker[a].refused
  BY <1>2, <1>3, <1>4 DEF Asker
<1>6. /\ asker[a].routes # <<>> /\ holder[Key(a)] = a /\ ~asker[a].refused
      /\ Fresh(Key(a), asker[a].models, paused) /\ (Key(a) \in Pool => key[Key(a)].rest = 0)
  BY <1>1, AtKeyHolds
<1>7. Alone(a, asker[a])'
  BY <1>1, <1>5, <1>6 DEF Alone, Key
<1> QED
  BY <1>1, <1>4, <1>5, <1>7, TurnsAway

\* The model of a request that is at one.
LEMMA ModelIsModel ==
  ASSUME RoutesInv, NEW a \in Askers, asker[a].at \in {"call", "asked"}
  PROVE  Model(a) \in ToSet(Models) /\ <<Key(a), Model(a)>> \in Pairs
<1>1. asker[a].models \in Seq(ToSet(Models)) /\ asker[a].models # <<>> /\ Key(a) \in Keys
  BY AtKeyHolds DEF Asker, ModelLists
<1> QED
  BY <1>1, HeadAndTail DEF Model, Pairs

LEMMA TextStep ==
  ASSUME RoutesInv, NEW a \in Askers, Text(a)
  PROVE  RoutesInv'
<1> DEFINE k == Key(a)
           m == Model(a)
<1>1. /\ asker[a].at = "asked" /\ paused' = [paused EXCEPT ![<<k, m>>] = 0]
      /\ key' = IF k \in Pool THEN [key EXCEPT ![k].rest = 0] ELSE key
      /\ holder' = [holder EXCEPT ![k] = None] /\ asker' = [asker EXCEPT ![a] = Resting]
  BY DEF Text, Release
<1>2. k \in Keys /\ holder[k] = a /\ <<k, m>> \in Pairs
  BY <1>1, AtKeyHolds, ModelIsModel
<1>3. asker \in [Askers -> Asker] /\ RoutesTyped
  BY DEF RoutesInv, RoutesTyped
<1>4. /\ asker'[a] \in Asker /\ asker'[a].at \in {"idle", "route"}
      /\ asker'[a].refused => asker'[a].at = "idle"
      /\ asker' = [asker EXCEPT ![a] = asker'[a]]
  BY <1>1, <1>3, Returns DEF Resting
<1> HIDE DEF k, m
<1>5. /\ key' \in [Pool -> [enabled : BOOLEAN, rest : Nat]]
      /\ \A l \in Pool : l # k => key'[l].rest = key[l].rest
  BY <1>1, <1>3 DEF RoutesTyped
<1>6. paused' = [p \in Pairs |-> paused'[p]] /\ \A p \in Pairs : p # <<k, m>> => paused'[p] = paused[p]
  BY <1>1, <1>3 DEF RoutesTyped
<1>7. \A l \in Keys : l # k => \A n \in ToSet(Models) : paused'[<<l, n>>] = paused[<<l, n>>]
  BY <1>6 DEF Pairs
<1>8. holder' = [holder EXCEPT ![k] = None]
  BY <1>1
<1> QED
  BY <1>2, <1>4, <1>5, <1>6, <1>7, <1>8, Goes

\* What a failure does to the pauses: it changes none but that of its model.
LEMMA PauseIs ==
  ASSUME RoutesInv, NEW k \in Keys, NEW m \in ToSet(Models), NEW kind, Pause(k, m, kind)
  PROVE  /\ paused' = [p \in Pairs |-> paused'[p]]
         /\ \A p \in Pairs : p # <<k, m>> => paused'[p] = paused[p]
<1>1. paused = [p \in Pairs |-> paused[p]] /\ <<k, m>> \in Pairs
  BY DEF RoutesInv, RoutesTyped, Pairs
<1>2. paused' = paused \/ \E time : paused' = [paused EXCEPT ![<<k, m>>] = time]
  BY DEF Pause
<1>3. CASE paused' = paused
  BY <1>1, <1>3
<1>4. ASSUME NEW time, paused' = [paused EXCEPT ![<<k, m>>] = time]
      PROVE  /\ paused' = [p \in Pairs |-> paused'[p]]
             /\ \A p \in Pairs : p # <<k, m>> => paused'[p] = paused[p]
  BY <1>1, <1>4
<1> QED
  BY <1>2, <1>3, <1>4

LEMMA LeaveIs ==
  ASSUME RoutesInv, NEW a \in Askers, asker[a].routes # <<>>, ~asker[a].refused,
         NEW trouble, LeaveRoute(a, trouble)
  PROVE  /\ asker'[a] \in Asker /\ asker'[a].at \in {"idle", "route"}
         /\ asker'[a].refused => asker'[a].at = "idle"
         /\ asker' = [asker EXCEPT ![a] = asker'[a]]
         /\ key' \in [Pool -> [enabled : BOOLEAN, rest : Nat]]
         /\ \A l \in Pool : l # Key(a) => key'[l].rest = key[l].rest
<1>1. asker \in [Askers -> Asker] /\ key \in [Pool -> [enabled : BOOLEAN, rest : Nat]]
  BY DEF RoutesInv, RoutesTyped
<1>2. CASE trouble = {}
  <2>1. asker' = [asker EXCEPT ![a] = [Resting EXCEPT !.refused = TRUE]] /\ key' = key
    BY <1>2 DEF LeaveRoute
  <2>2. asker'[a] = [Resting EXCEPT !.refused = TRUE] /\ Resting \in Asker /\ Resting.at = "idle"
    BY <1>1, <2>1, Returns DEF Resting
  <2>3. asker'[a] \in Asker /\ asker'[a].at = "idle"
    BY <2>2 DEF Asker
  <2>4. asker' = [asker EXCEPT ![a] = asker'[a]]
    BY <2>1, <2>2
  <2> QED
    BY <1>1, <2>1, <2>3, <2>4
<1>3. CASE trouble # {}
  <2> DEFINE time == IF trouble \cap {"denied", "quota"} # {} THEN LongRest ELSE ShortRest
  <2>1. /\ asker' = [asker EXCEPT ![a] = Onward(a)]
        /\ key' = IF Key(a) \in Pool THEN [key EXCEPT ![Key(a)].rest = time] ELSE key
    BY <1>3 DEF LeaveRoute
  <2>2. asker'[a] = Onward(a) /\ Onward(a) \in Asker
    BY <1>1, <2>1, Returns
  <2>3. Onward(a).at = "route" /\ ~Onward(a).refused
    BY <1>1 DEF Onward, Asker
  <2>4. time \in Nat
    BY RouteAssumption
  <2> HIDE DEF time
  <2>5. /\ key' \in [Pool -> [enabled : BOOLEAN, rest : Nat]]
        /\ \A l \in Pool : l # Key(a) => key'[l].rest = key[l].rest
    BY <1>1, <2>1, <2>4
  <2>6. asker' = [asker EXCEPT ![a] = asker'[a]]
    BY <2>1, <2>2
  <2> QED
    BY <2>2, <2>3, <2>5, <2>6
<1> QED
  BY <1>2, <1>3

\* The models that are left after the first are as fresh as they were.
LEMMA RestIsFresh ==
  ASSUME NEW k, NEW models \in ModelLists, Len(models) # 1, NEW old, Fresh(k, models, old), NEW new,
         \A m \in ToSet(Models) : m # Head(models) => new[<<k, m>>] = old[<<k, m>>]
  PROVE  Tail(models) \in ModelLists /\ Fresh(k, Tail(models), new)
<1> DEFINE further == Tail(models)
<1>1. /\ models \in Seq(ToSet(Models)) /\ models # <<>>
      /\ \A i \in 1..Len(models) : old[<<k, models[i]>>] = 0
      /\ \A i, j \in 1..Len(models) : models[i] = models[j] => i = j
  BY DEF Fresh, ModelLists
<1>2. /\ Head(models) = models[1] /\ Len(models) >= 1 /\ Len(models) \in Nat
      /\ further \in Seq(ToSet(Models)) /\ Len(further) = Len(models) - 1
      /\ \A i \in 1..(Len(models) - 1) : further[i] = models[i + 1]
  BY <1>1, HeadAndTail
<1> HIDE DEF further
<1>3. further # <<>>
  BY <1>2
<1>4. ASSUME NEW i \in 1..Len(further)
      PROVE  new[<<k, further[i]>>] = 0
  <2>1. i \in Nat /\ i + 1 \in 1..Len(models) /\ 1 \in 1..Len(models) /\ i + 1 # 1
    BY <1>2
  <2>2. further[i] = models[i + 1] /\ further[i] # Head(models) /\ old[<<k, further[i]>>] = 0
    BY <1>1, <1>2, <2>1
  <2>3. further[i] \in ToSet(Models)
    BY <1>2
  <2> QED
    BY <2>2, <2>3
<1>5. ASSUME NEW i \in 1..Len(further), NEW j \in 1..Len(further), further[i] = further[j]
      PROVE  i = j
  <2>1. i \in Nat /\ j \in Nat /\ i + 1 \in 1..Len(models) /\ j + 1 \in 1..Len(models)
    BY <1>2
  <2>2. i + 1 = j + 1
    BY <1>1, <1>2, <1>5, <2>1
  <2> QED
    BY <2>1, <2>2
<1>6. Fresh(k, further, new)
  BY <1>3, <1>4, <1>5 DEF Fresh
<1> QED
  BY <1>2, <1>6 DEF further, ModelLists

LEMMA FailureStep ==
  ASSUME RoutesInv, NEW a \in Askers, asker[a].at \in {"call", "asked"}, NEW kind \in Kinds,
         Failure(a, kind)
  PROVE  RoutesInv'
<1> DEFINE k == Key(a)
           trouble == asker[a].trouble \cup ({kind} \cap Operational)
<1>1. /\ asker[a] \in Asker /\ asker[a].routes # <<>> /\ k \in Keys
      /\ holder[k] = a /\ ~asker[a].refused
      /\ asker[a].models # <<>> /\ Fresh(k, asker[a].models, paused)
      /\ k \in Pool => key[k].rest = 0
  BY AtKeyHolds
<1>2. asker \in [Askers -> Asker] /\ RoutesTyped
  BY DEF RoutesInv, RoutesTyped
<1>3. Model(a) \in ToSet(Models) /\ <<k, Model(a)>> \in Pairs
  BY ModelIsModel
<1>4. Pause(k, Model(a), kind)
  BY DEF Failure
<1>5. /\ paused' = [p \in Pairs |-> paused'[p]]
      /\ \A p \in Pairs : p # <<k, Model(a)>> => paused'[p] = paused[p]
  BY <1>1, <1>3, <1>4, PauseIs
<1>6. \A l \in Keys : l # k => \A n \in ToSet(Models) : paused'[<<l, n>>] = paused[<<l, n>>]
  BY <1>5 DEF Pairs
<1>7. CASE Breaks(a, kind) \/ Len(asker[a].models) = 1
  <2>1. LeaveRoute(a, trouble) /\ holder' = [holder EXCEPT ![k] = None]
    BY <1>7 DEF Failure, Release
  <2>2. /\ asker'[a] \in Asker /\ asker'[a].at \in {"idle", "route"}
        /\ asker'[a].refused => asker'[a].at = "idle"
        /\ asker' = [asker EXCEPT ![a] = asker'[a]]
        /\ key' \in [Pool -> [enabled : BOOLEAN, rest : Nat]]
        /\ \A l \in Pool : l # k => key'[l].rest = key[l].rest
    BY <1>1, <2>1, LeaveIs
  <2> HIDE DEF k, trouble
  <2> QED
    BY <1>1, <1>5, <1>6, <2>1, <2>2, Goes
<1>8. CASE ~(Breaks(a, kind) \/ Len(asker[a].models) = 1)
  <2> DEFINE further == Tail(asker[a].models)
  <2>1. /\ asker' = [asker EXCEPT ![a].at = "call", ![a].models = Tail(@), ![a].wait = 0,
                                  ![a].trouble = trouble]
        /\ UNCHANGED <<key, holder>>
    BY <1>8 DEF Failure
  <2>2. \A m \in ToSet(Models) : m # Head(asker[a].models) => paused'[<<k, m>>] = paused[<<k, m>>]
    BY <1>1, <1>5 DEF Pairs, Model
  <2>3. asker[a].models \in ModelLists /\ Len(asker[a].models) # 1
    BY <1>1, <1>8 DEF Asker
  <2>4. further \in ModelLists /\ Fresh(k, further, paused')
    BY <1>1, <2>2, <2>3, RestIsFresh
  <2>5. trouble \in Troubles /\ "call" \in Standings
    BY <1>1, Blanks DEF Asker, Troubles
  <2>6. asker' = [asker EXCEPT ![a] = [asker[a] EXCEPT !.at = "call", !.models = further,
                                         !.wait = 0, !.trouble = trouble]]
    BY <1>1, <1>2, <2>1 DEF Asker
  <2> HIDE DEF k, trouble, further
  <2>7. /\ asker'[a] = [asker[a] EXCEPT !.at = "call", !.models = further,
                                        !.wait = 0, !.trouble = trouble]
        /\ asker' = [asker EXCEPT ![a] = asker'[a]]
    BY <1>2, <2>6
  <2>8. /\ asker'[a] \in Asker /\ asker'[a].at = "call" /\ asker'[a].models = further
        /\ asker'[a].routes = asker[a].routes /\ asker'[a].refused = asker[a].refused
    <3>1. asker[a] \in Asker /\ further \in ModelLists /\ 0 \in Nat
      BY <1>1, <2>4
    <3> QED
      BY <3>1, <2>5, <2>7 DEF Asker
  <2>9. asker' \in [Askers -> Asker] /\ \A b \in Askers : b # a => asker'[b] = asker[b]
    BY <2>7, <2>8, AskerSet
  <2>10. RoutesTyped'
    BY <1>2, <1>5, <2>1, <2>9 DEF RoutesTyped
  <2>11. Alone(a, asker[a])'
    BY <1>1, <2>1, <2>4, <2>8 DEF Alone, Key, k
  <2>12. \A l \in Keys : holder[l] \notin {a, None} =>
           /\ holder'[l] = holder[l] /\ (l \in Pool => key'[l].rest = key[l].rest)
           /\ \A m \in ToSet(Models) : paused'[<<l, m>>] = paused[<<l, m>>]
    BY <1>1, <1>6, <2>1
  <2> QED
    BY <2>9, <2>10, <2>11, <2>12, OneMoves
<1> QED
  BY <1>7, <1>8

LEMMA ToggleStep ==
  ASSUME RoutesInv, NEW k \in Pool, Toggle(k)
  PROVE  RoutesInv'
<1>1. key' = [key EXCEPT ![k].enabled = ~@] /\ UNCHANGED <<holder, paused, asker>>
  BY DEF Toggle
<1>2. key \in [Pool -> [enabled : BOOLEAN, rest : Nat]]
  BY DEF RoutesInv, RoutesTyped
<1>3. /\ key' \in [Pool -> [enabled : BOOLEAN, rest : Nat]]
      /\ \A l \in Pool : key'[l].rest = key[l].rest
  BY <1>1, <1>2
<1>4. \A a \in Askers : Alone(a, asker[a]) => Alone(a, asker[a])'
  BY <1>1, <1>3 DEF Alone
<1> QED
  BY <1>1, <1>3, <1>4 DEF RoutesInv, RoutesTyped

LEMMA RouteTickStep ==
  ASSUME RoutesInv, RouteTick
  PROVE  RoutesInv'
<1>1. /\ paused' = [p \in Pairs |-> Less(paused[p])]
      /\ key' = [k \in Pool |-> [key[k] EXCEPT !.rest = Less(@)]]
      /\ asker' = [a \in Askers |-> [asker[a] EXCEPT !.left = Less(@), !.wait = Less(@)]]
      /\ holder' = holder
  BY DEF RouteTick
<1>2. RoutesTyped /\ \A a \in Askers : asker[a] \in Asker /\ Alone(a, asker[a])
  BY DEF RoutesInv, RoutesTyped
<1>3. \A n \in Nat : Less(n) \in Nat
  BY DEF Less
<1>4. Less(0) = 0
  BY DEF Less
<1>5. /\ key' \in [Pool -> [enabled : BOOLEAN, rest : Nat]]
      /\ \A k \in Pool : key[k].rest = 0 => key'[k].rest = 0
  BY <1>1, <1>2, <1>3, <1>4 DEF RoutesTyped
<1>6. \A p \in Pairs : paused[p] = 0 => paused'[p] = 0
  BY <1>1, <1>4
<1>7. ASSUME NEW a \in Askers
      PROVE  asker'[a] \in Asker /\ Alone(a, asker[a])'
  <2>1. asker'[a] = [asker[a] EXCEPT !.left = Less(asker[a].left), !.wait = Less(asker[a].wait)]
    BY <1>1, <1>2 DEF Asker
  <2>2. Less(asker[a].left) \in Nat /\ Less(asker[a].wait) \in Nat
    BY <1>2, <1>3 DEF Asker
  <2>3. /\ asker'[a] \in Asker /\ asker'[a].at = asker[a].at /\ asker'[a].routes = asker[a].routes
        /\ asker'[a].models = asker[a].models /\ asker'[a].refused = asker[a].refused
    BY <1>2, <2>1, <2>2 DEF Asker
  <2>4. CASE AtKey(asker[a])
    <3>1. asker[a].routes # <<>> /\ Key(a) \in Keys /\ holder[Key(a)] = a
      BY <2>4, AtKeyHolds DEF AtKey
    <3>2. asker[a].models \in Seq(ToSet(Models))
      BY <1>2 DEF Asker, ModelLists
    <3>3. Fresh(Key(a), asker[a].models, paused) => Fresh(Key(a), asker[a].models, paused')
      BY <1>6, <3>1, <3>2 DEF Fresh, Pairs
    <3>4. /\ asker[a].at # "claim" => Fresh(Key(a), asker[a].models, paused')
          /\ asker[a].at # "claim" /\ Key(a) \in Pool => key'[Key(a)].rest = 0
          /\ ~asker[a].refused
      BY <1>5, <2>4, <3>3, AtKeyHolds DEF AtKey
    <3>5. /\ AtKey(asker'[a]) => asker'[a].routes # <<>> /\ holder'[Head(asker'[a].routes)] = a
          /\ AtModel(asker'[a]) =>
               /\ Fresh(Head(asker'[a].routes), asker'[a].models, paused')
               /\ Head(asker'[a].routes) \in Pool => key'[Head(asker'[a].routes)].rest = 0
      BY <1>1, <2>3, <3>1, <3>4 DEF Key, AtModel
    <3> QED
      BY <2>3, <3>4, <3>5 DEF Alone
  <2>5. CASE ~AtKey(asker[a])
    BY <1>2, <2>3, <2>5 DEF Alone, AtKey, AtModel
  <2> QED
    BY <2>3, <2>4, <2>5
<1>8. RoutesTyped'
  BY <1>1, <1>2, <1>5, <1>7 DEF RoutesTyped
<1> QED
  BY <1>7, <1>8 DEF RoutesInv

LEMMA RoutesStart == InitRoutes => RoutesInv
<1> SUFFICES ASSUME InitRoutes PROVE RoutesInv
  OBVIOUS
<1>1. RoutesTyped
  BY Returns DEF InitRoutes, RoutesTyped
<1>2. \A a \in Askers : Alone(a, asker[a])
  BY DEF InitRoutes, Alone, AtKey, AtModel, Resting
<1> QED
  BY <1>1, <1>2 DEF RoutesInv

LEMMA RoutesKept == RoutesInv /\ [RoutesNext]_routing => RoutesInv'
<1> SUFFICES ASSUME RoutesInv, [RoutesNext]_routing PROVE RoutesInv'
  OBVIOUS
<1>1. ASSUME NEW a \in Askers, Refuse(a)  PROVE RoutesInv'
  <2>1. PICK kind \in Answers \ {"text"} : Failure(a, kind)
    BY <1>1 DEF Refuse
  <2>2. kind \in Kinds /\ asker[a].at \in {"call", "asked"}
    BY <1>1, RouteAssumption DEF Refuse
  <2> QED
    BY <2>1, <2>2, FailureStep
<1>2. ASSUME NEW a \in Askers, NoSlot(a)  PROVE RoutesInv'
  <2>1. Failure(a, "transport") /\ "transport" \in Kinds /\ asker[a].at \in {"call", "asked"}
    BY <1>2 DEF NoSlot, Kinds
  <2> QED
    BY <2>1, FailureStep
<1>3. CASE UNCHANGED routing
  BY <1>3 DEF routing, RoutesInv, RoutesTyped, Alone
<1> QED
  BY <1>1, <1>2, <1>3, AskStep, TakeKeyStep, LockPoolKeyStep, ClaimStep, PassOverStep,
     NoRouteStep, TooLateStep, CallStep, TextStep, ToggleStep, RouteTickStep DEF RoutesNext

LEMMA RoutesSound == RoutesSpec => []RoutesInv
  BY RoutesStart, RoutesKept, PTL DEF RoutesSpec

\* A key serves one request at a time (gemini.py:237-242).
THEOREM KeysServeOne == RoutesSpec => []OneCallPerKey
<1>1. RoutesInv => OneCallPerKey
  <2> SUFFICES ASSUME RoutesInv, NEW a \in Asked, NEW b \in Asked, a # b
               PROVE  Key(a) # Key(b)
    BY DEF OneCallPerKey
  <2>1. a \in Askers /\ b \in Askers /\ asker[a].at = "asked" /\ asker[b].at = "asked"
    BY DEF Asked
  <2>2. holder[Key(a)] = a /\ holder[Key(b)] = b
    BY <2>1, AtKeyHolds
  <2> QED
    BY <2>2
<1> QED
  BY <1>1, RoutesSound, PTL

\* A text that a provider has refused for its content is not shown to another
\* account (gemini.py:276-284).
THEOREM RefusedTextsEnd == RoutesSpec => []RefusalEndsIt
<1>1. RoutesInv => RefusalEndsIt
  BY DEF RoutesInv, Alone, RefusalEndsIt
<1> QED
  BY <1>1, RoutesSound, PTL

\* A call begins from a request that has a key and a chain of models.
LEMMA CallsBegin ==
  ASSUME RoutesInv, [RoutesNext]_routing, NEW a \in Askers,
         asker[a].at # "asked", asker'[a].at = "asked"
  PROVE  asker[a].at = "call"
<1>1. asker \in [Askers -> Asker]
  BY DEF RoutesInv, RoutesTyped
<1>2. ASSUME NEW b \in Askers, NEW h, asker' = [asker EXCEPT ![b] = h], h.at # "asked"
      PROVE  FALSE
  BY <1>1, <1>2
<1>3. /\ Resting.at # "asked" /\ [Resting EXCEPT !.refused = TRUE].at # "asked"
      /\ \A b \in Askers : Onward(b).at # "asked"
  BY <1>1 DEF Resting, Onward, Asker
<1>4. ASSUME NEW b \in Askers, Ask(b)  PROVE FALSE
  <2>1. PICK pool \in Candidates :
          asker' = [asker EXCEPT ![b] = [Resting EXCEPT !.at = "route", !.left = Deadline,
            !.routes = (IF OwnKey[b] = None THEN <<>> ELSE <<OwnKey[b]>>) \o pool \o <<Service>>]]
    BY <1>4 DEF Ask
  <2> DEFINE all == (IF OwnKey[b] = None THEN <<>> ELSE <<OwnKey[b]>>) \o pool \o <<Service>>
             h == [Resting EXCEPT !.at = "route", !.left = Deadline, !.routes = all]
  <2>2. asker' = [asker EXCEPT ![b] = h]
    BY <2>1
  <2> HIDE DEF all
  <2>3. h.at # "asked"
    BY DEF Resting
  <2> HIDE DEF h
  <2> QED
    BY <1>2, <2>2, <2>3
<1>5. ASSUME NEW b \in Askers, Take(b)  PROVE FALSE
  <2>1. PICK chain \in Chains(Key(b)) :
          asker' = [asker EXCEPT ![b].at = "call", ![b].models = chain]
    BY <1>5 DEF Take
  <2>2. asker'[a].at = asker[a].at \/ asker'[a].at = "call"
    BY <1>1, <2>1 DEF Asker
  <2> QED
    BY <2>2
<1>6. ASSUME NEW b \in Askers, LockPoolKey(b)  PROVE FALSE
  <2>1. asker' = [asker EXCEPT ![b].at = "claim"]
    BY <1>6 DEF LockPoolKey
  <2>2. asker'[a].at = asker[a].at \/ asker'[a].at = "claim"
    BY <1>1, <2>1 DEF Asker
  <2> QED
    BY <2>2
<1>7. ASSUME NEW b \in Askers, Skip(b) \/ PassOver(b) \/ NoRoute(b) \/ TooLate(b) \/ Text(b)
      PROVE  FALSE
  BY <1>2, <1>3, <1>7 DEF Skip, PassOver, NoRoute, TooLate, Text
<1>8. ASSUME NEW b \in Askers, NEW kind, Failure(b, kind)  PROVE FALSE
  <2> DEFINE trouble == asker[b].trouble \cup ({kind} \cap Operational)
  <2>1. CASE Breaks(b, kind) \/ Len(asker[b].models) = 1
    <3>1. LeaveRoute(b, trouble)
      BY <1>8, <2>1 DEF Failure
    <3> HIDE DEF trouble
    <3> QED
      BY <1>2, <1>3, <3>1 DEF LeaveRoute
  <2>2. CASE ~(Breaks(b, kind) \/ Len(asker[b].models) = 1)
    <3>1. asker' = [asker EXCEPT ![b].at = "call", ![b].models = Tail(@), ![b].wait = 0,
                                 ![b].trouble = trouble]
      BY <1>8, <2>2 DEF Failure
    <3>2. asker'[a].at = asker[a].at \/ asker'[a].at = "call"
      BY <1>1, <3>1 DEF Asker
    <3> QED
      BY <3>2
  <2> QED
    BY <2>1, <2>2
<1>9. ASSUME NEW b \in Askers, Call(b)  PROVE asker[a].at = "call"
  <2>1. /\ asker' = [asker EXCEPT ![b].at = "asked", ![b].wait = CallLimit]
        /\ asker[b].at = "call"
    BY <1>9 DEF Call
  <2>2. a # b => asker'[a] = asker[a]
    BY <1>1, <2>1
  <2> QED
    BY <2>1, <2>2
<1>10. ASSUME RouteTick  PROVE FALSE
  <2>1. asker'[a] = [asker[a] EXCEPT !.left = Less(@), !.wait = Less(@)]
    BY <1>10 DEF RouteTick
  <2>2. asker'[a].at = asker[a].at
    BY <1>1, <2>1 DEF Asker
  <2> QED
    BY <2>2
<1>11. ASSUME NEW k \in Pool, Toggle(k)  PROVE FALSE
  BY <1>11 DEF Toggle
<1>12. CASE UNCHANGED routing
  BY <1>12 DEF routing
<1> QED
  BY <1>4, <1>5, <1>6, <1>7, <1>8, <1>9, <1>10, <1>11, <1>12
     DEF RoutesNext, TakeKey, Claim, Refuse, NoSlot

\* No call begins on a model that is paused for its key, nor on a key of the
\* pool that was put to rest after the candidates were read
\* (gemini.py:242-247, key_pool.py:42-45).
THEOREM PausesHold == RoutesSpec => PausesKept
<1> DEFINE NoneSleeps ==
      \A a \in Askers : a \notin Asked /\ asker'[a].at = "asked" =>
        /\ paused[<<Key(a), Model(a)>>] = 0
        /\ Key(a) \in Pool => key[Key(a)].rest = 0
<1>1. ASSUME RoutesInv, [RoutesNext]_routing, NEW a \in Askers,
             a \notin Asked, asker'[a].at = "asked"
      PROVE  paused[<<Key(a), Model(a)>>] = 0 /\ (Key(a) \in Pool => key[Key(a)].rest = 0)
  <2>1. asker[a].at = "call" /\ asker[a] \in Asker
    BY <1>1, CallsBegin DEF Asked, RoutesInv, RoutesTyped
  <2>2. /\ asker[a].models # <<>> /\ Fresh(Key(a), asker[a].models, paused)
        /\ Key(a) \in Pool => key[Key(a)].rest = 0
    BY <1>1, <2>1, AtKeyHolds
  <2>3. asker[a].models \in Seq(ToSet(Models))
    BY <2>1 DEF Asker, ModelLists
  <2>4. Head(asker[a].models) = asker[a].models[1] /\ 1 \in 1..Len(asker[a].models)
    BY <2>2, <2>3, HeadAndTail
  <2> QED
    BY <2>2, <2>4 DEF Fresh, Model
<1>2. RoutesInv /\ [RoutesNext]_routing => NoneSleeps
  BY <1>1
<1> QED
  BY <1>2, RoutesSound, PTL DEF RoutesSpec, PausesKept
=============================================================================
