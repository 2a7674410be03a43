------------------------------- MODULE SignIn -------------------------------
(***************************************************************************)
(* Signing in on the website (app/api/account_auth.py): the tabs of one    *)
(* browser share its cookies, a login is paid for with a challenge, and    *)
(* Telegram's signing keys are cached.  Requests of the tabs cross on the  *)
(* way, in the wait for the keys and on the way back.                      *)
(***************************************************************************)
EXTENDS Integers, Sequences

CONSTANTS
  SignTabs, SigningKeys, Nobody,
  KeysLife,      \* JWKS_TTL
  FetchGap,      \* JWKS_REFRESH_INTERVAL
  MaxChallenges  \* bound of the model

ASSUME SignInAssumption ==
  /\ Nobody \notin SignTabs
  /\ KeysLife \in Nat \ {0} /\ FetchGap \in Nat \ {0} /\ MaxChallenges \in Nat

VARIABLES
  challenges,  \* rows of web_login_challenges: TRUE while they are there
  sessions,    \* rows of web_sessions: the challenge they were paid with, and whether they are there
  cookie,      \* the browser's
  tab,         \* where each tab is
  jwks,        \* TelegramKeys
  telegram,    \* the keys Telegram serves; what is left of the trust in each, of the gap
  banned       \* users.blocked

signing == <<challenges, sessions, cookie, tab, jwks, telegram, banned>>
Closed == [at |-> "closed"]

InitSignIn ==
  /\ challenges = <<>> /\ sessions = <<>> /\ banned = FALSE
  /\ cookie = [challenge |-> 0, session |-> 0]
  /\ tab = [t \in SignTabs |-> Closed]
  /\ jwks = [keys |-> {}, left |-> 0, wait |-> 0, holder |-> Nobody]
  /\ telegram = [served |-> SigningKeys, trust |-> [k \in SigningKeys |-> KeysLife], gap |-> 0]

LiveChallenge(c) == c # 0 /\ challenges[c]
LiveSession(s) == s # 0 /\ sessions[s].live
Dropped(s) == IF s = 0 THEN sessions ELSE [sessions EXCEPT ![s].live = FALSE]
Turns(t, to) == tab' = [tab EXCEPT ![t] = to]

\* account_session: an unknown visitor is given the challenge of his cookie or a new one.
OpenPage(t) ==
  /\ tab[t].at \in {"closed", "offered"} /\ ~LiveSession(cookie.session)
  /\ LET fresh == ~LiveChallenge(cookie.challenge)
     IN /\ fresh => Len(challenges) < MaxChallenges
        /\ challenges' = IF fresh THEN Append(challenges, TRUE) ELSE challenges
        /\ Turns(t, [at |-> "answered", fresh |-> fresh, drop |-> cookie.session # 0,
                     challenge |-> IF fresh THEN Len(challenges) + 1 ELSE cookie.challenge])
  /\ UNCHANGED <<sessions, cookie, jwks, telegram, banned>>

\* Its answer sets the cookie of a new challenge and deletes that of a session.
PageArrives(t) ==
  /\ tab[t].at = "answered"
  /\ cookie' = [challenge |-> IF tab[t].fresh THEN tab[t].challenge ELSE cookie.challenge,
                session |-> IF tab[t].drop THEN 0 ELSE cookie.session]
  /\ Turns(t, [at |-> "offered", challenge |-> tab[t].challenge])
  /\ UNCHANGED <<challenges, sessions, jwks, telegram, banned>>

\* Telegram signs a token for the nonce of the page.
TokenGiven(t) ==
  /\ tab[t].at = "offered"
  /\ \E k \in telegram.served : Turns(t, [at |-> "signed", challenge |-> tab[t].challenge, key |-> k])
  /\ UNCHANGED <<challenges, sessions, cookie, jwks, telegram, banned>>

\* A page, an answer or a request is lost, or the token's claims do not hold.
GiveUp(t) ==
  /\ tab[t].at \in {"answered", "offered", "signed", "verified", "granted"}
  /\ Turns(t, Closed)
  /\ UNCHANGED <<challenges, sessions, cookie, jwks, telegram, banned>>

\* account_login up to verify_id_token: the nonce is that of the cookie, its row is there.
SendLogin(t) ==
  /\ tab[t].at = "signed"
  /\ Turns(t, IF cookie.challenge = tab[t].challenge /\ LiveChallenge(cookie.challenge)
              THEN [at |-> "asking", challenge |-> tab[t].challenge, key |-> tab[t].key,
                    had |-> cookie.session]
              ELSE Closed)
  /\ UNCHANGED <<challenges, sessions, cookie, jwks, telegram, banned>>

\* Slip: the keys are good for ever.
KnownForever(k) == k \in jwks.keys

KnownKey(k) == k \in jwks.keys /\ jwks.left > 0
Verified(t) == Turns(t, [tab[t] EXCEPT !.at = "verified"])
TakesLock(t) == tab[t].at = "asking" /\ jwks.holder = Nobody

\* TelegramKeys.get with the key in the cache, or with no right to ask for it yet.
FromCache(t) ==
  /\ TakesLock(t)
  /\ \/ KnownKey(tab[t].key) /\ Verified(t)
     \/ ~KnownKey(tab[t].key) /\ jwks.wait > 0 /\ Turns(t, Closed)
  /\ UNCHANGED <<challenges, sessions, cookie, jwks, telegram, banned>>

Fetching(t, wait) ==
  /\ TakesLock(t) /\ ~KnownKey(tab[t].key) /\ jwks.wait = 0
  /\ jwks' = [jwks EXCEPT !.holder = t, !.wait = wait]
  /\ telegram' = [telegram EXCEPT !.gap = FetchGap]
  /\ Turns(t, [tab[t] EXCEPT !.at = "fetching"])
  /\ UNCHANGED <<challenges, sessions, cookie, banned>>

\* Slip: only an attempt that succeeds is noted.
BeginFetchUnnoted(t) == Fetching(t, 0)

\* The attempt is noted before it is made; the lock is held all through it.
BeginFetch(t) == Fetching(t, FetchGap)

EndFetch(t) ==
  /\ tab[t].at = "fetching"
  /\ jwks' = [jwks EXCEPT !.keys = telegram.served, !.left = KeysLife, !.holder = Nobody]
  /\ IF tab[t].key \in telegram.served THEN Verified(t) ELSE Turns(t, Closed)
  /\ UNCHANGED <<challenges, sessions, cookie, telegram, banned>>

\* A failed or late answer leaves the cache as it was.
FetchFails(t) ==
  /\ tab[t].at = "fetching"
  /\ jwks' = [jwks EXCEPT !.holder = Nobody]
  /\ Turns(t, Closed)
  /\ UNCHANGED <<challenges, sessions, cookie, telegram, banned>>

Opened(t) ==
  /\ challenges' = [challenges EXCEPT ![tab[t].challenge] = FALSE]
  /\ sessions' = Append(Dropped(tab[t].had), [from |-> tab[t].challenge, live |-> TRUE])
  /\ Turns(t, [at |-> "granted", session |-> Len(sessions) + 1])

\* Slip: the row that was there before the keys were awaited is enough.
CommitUnchecked(t) ==
  /\ tab[t].at = "verified"
  /\ IF banned THEN Turns(t, Closed) /\ UNCHANGED <<challenges, sessions>> ELSE Opened(t)
  /\ UNCHANGED <<cookie, jwks, telegram, banned>>

\* The transaction of account_login: the deleted row decides the winner.
CommitLogin(t) ==
  /\ tab[t].at = "verified"
  /\ IF banned \/ ~LiveChallenge(tab[t].challenge)
     THEN Turns(t, Closed) /\ UNCHANGED <<challenges, sessions>>
     ELSE Opened(t)
  /\ UNCHANGED <<cookie, jwks, telegram, banned>>

LoginArrives(t) ==
  /\ tab[t].at = "granted"
  /\ cookie' = [challenge |-> 0, session |-> tab[t].session]
  /\ Turns(t, Closed)
  /\ UNCHANGED <<challenges, sessions, jwks, telegram, banned>>

Logout ==
  /\ LiveSession(cookie.session) /\ ~banned
  /\ sessions' = Dropped(cookie.session)
  /\ cookie' = [challenge |-> 0, session |-> 0]
  /\ UNCHANGED <<challenges, tab, jwks, telegram, banned>>

Expire ==
  /\ \/ \E c \in DOMAIN challenges :
          challenges[c] /\ challenges' = [challenges EXCEPT ![c] = FALSE] /\ UNCHANGED sessions
     \/ \E s \in DOMAIN sessions :
          sessions[s].live /\ sessions' = Dropped(s) /\ UNCHANGED challenges
  /\ UNCHANGED <<cookie, tab, jwks, telegram, banned>>

Ban == banned' = ~banned /\ UNCHANGED <<challenges, sessions, cookie, tab, jwks, telegram>>

\* Telegram serves other keys.
KeysTurn ==
  /\ \E keys \in SUBSET SigningKeys \ {{}} :
       telegram' = [telegram EXCEPT !.served = keys,
                      !.trust = [k \in SigningKeys |-> IF k \in keys THEN KeysLife ELSE @[k]]]
  /\ UNCHANGED <<challenges, sessions, cookie, tab, jwks, banned>>

Sooner(time) == IF time = 0 THEN 0 ELSE time - 1

SignTick ==
  /\ jwks' = [jwks EXCEPT !.left = Sooner(@), !.wait = Sooner(@)]
  /\ telegram' = [telegram EXCEPT !.gap = Sooner(@),
       !.trust = [k \in SigningKeys |-> IF k \in telegram.served THEN KeysLife ELSE Sooner(@[k])]]
  /\ UNCHANGED <<challenges, sessions, cookie, tab, banned>>

SignInNext ==
  \/ \E t \in SignTabs :
       \/ OpenPage(t) \/ PageArrives(t) \/ TokenGiven(t) \/ GiveUp(t) \/ SendLogin(t)
       \/ FromCache(t) \/ BeginFetch(t) \/ EndFetch(t) \/ FetchFails(t)
       \/ CommitLogin(t) \/ LoginArrives(t)
  \/ Logout \/ Expire \/ Ban \/ KeysTurn \/ SignTick

SignInSpec == InitSignIn /\ [][SignInNext]_signing

-----------------------------------------------------------------------------
\* A challenge pays for one session, though several tabs hold its page and wait
\* for the keys together, and though it may run out meanwhile (account_auth.py:303-324).
OneSessionPerChallenge ==
  \A i, j \in DOMAIN sessions : sessions[i].from = sessions[j].from => i = j

\* A key that Telegram has withdrawn is not trusted longer than its life in the
\* cache, whatever the fetches since then came to (account_auth.py:150-169).
KeysAreRecent ==
  [][\A t \in SignTabs : tab[t].at \in {"asking", "fetching"} /\ tab'[t].at = "verified"
       => telegram.trust[tab[t].key] > 0]_signing

\* Telegram is asked for its keys no more often than the interval allows, however
\* many tokens name unknown keys and however many attempts fail.
FetchesSpaced ==
  [][\A t \in SignTabs : tab[t].at = "asking" /\ tab'[t].at = "fetching"
       => telegram.gap = 0]_signing
=============================================================================
